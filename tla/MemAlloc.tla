------------------------------ MODULE MemAlloc ------------------------------
(***************************************************************************)
(* The worst-fit allocator of 3a/libmem.c, on memory of 8-byte words.  A   *)
(* node is two words: its size in bytes and the address of the next node.  *)
(* Headers are written where the code writes them, over whatever is there. *)
(***************************************************************************)
EXTENDS Integers, Sequences, FiniteSets, FiniteSetsExt

CONSTANTS Region,        \* the words that Mem_Init maps
          Sizes          \* the arguments of Mem_Alloc, in bytes

ASSUME MemConstants == Region \in Nat /\ Region >= 2 /\ Sizes \subseteq Nat

NULL == -1
Header == 2   \* sizeof(struct Node) is 16

VARIABLES mem,       \* the words of the region and one node behind it
          headFree,
          m_error,
          given,     \* the blocks handed out: node's address |-> words, as asked
          damage     \* history: the worst that chunkNode has written where no
                     \* node had room ("size": 0 over the size of the block
                     \* behind; "next": a pointer over that size; "fault":
                     \* behind the region, or an access through NULL)

vars == <<mem, headFree, m_error, given, damage>>

size(m, a) == m[a] \div 8    \* in words
next(m, a) == m[a + 1]
SetSize(m, a, w) == [m EXCEPT ![a] = w * 8]
SetNext(m, a, n) == [m EXCEPT ![a + 1] = n]

\* After Mem_Init.
Init ==
  /\ mem = [a \in 0..Region + 1 |->
              CASE a = 0 -> Region * 8 [] a = 1 -> NULL [] OTHER -> 0]
  /\ headFree = 0 /\ m_error = "none"
  /\ given = << >>
  /\ damage = "none"

\* A pointer over a size makes that size unknown, an access outside the region
\* may end the program: what comes after these two is not followed.
Followed == damage \in {"none", "size"}

-----------------------------------------------------------------------------
\* The free list from a on, as a sequence of addresses; at most n of them.
RECURSIVE ListFrom(_, _, _)
ListFrom(m, a, n) == IF a = NULL \/ n = 0 THEN <<>> ELSE <<a>> \o ListFrom(m, next(m, a), n - 1)

\* Words that are not part of a node are never read; the model keeps them at 0.
Tidy(m, head, blocks) ==
  LET list == ListFrom(m, head, Region + 1)
      nodes == blocks \cup {list[i] : i \in DOMAIN list}
  IN  [a \in DOMAIN m |-> IF a \in nodes \/ a - 1 \in nodes THEN m[a] ELSE 0]

FreeList == ListFrom(mem, headFree, Region + 1)
Free == {FreeList[i] : i \in DOMAIN FreeList}

\* What a request for so many bytes takes, with its node.
Asked(bytes) == (bytes + 7) \div 8 + Header

\* Faulty variant: chunkNode rounds down.
Words_Down(bytes) == bytes \div 8 + Header

\* chunkNode rounds up to whole words.
Words(bytes) == IF bytes % 8 = 0 THEN bytes \div 8 + Header
                                 ELSE (bytes \div 8 + 1) + Header

\* The place in the list of the first node of the largest size.
Worst(list) ==
  Min({i \in DOMAIN list : \A j \in DOMAIN list : mem[list[i]] >= mem[list[j]]})

\* Faulty variant: the node before keeps pointing at the block.
Relink_Not(m, listPrev, n) == m

Relink(m, listPrev, n) == IF listPrev # NULL THEN SetNext(m, listPrev, n) ELSE m

\* chunkNode splits node a (the i-th of the list), writing a node behind the
\* block even if nothing, or a single word, is left for it.
Chunk(list, i, bytes) ==
  LET a == list[i]
      w == Words(bytes)
      rest == size(mem, a) - w
      node == a + w
      listPrev == IF i = 1 THEN NULL ELSE list[i - 1]
      after == next(mem, a)
      sized == SetSize(mem, node, rest)
      linked == IF rest = 0 THEN Relink(sized, listPrev, after)
                ELSE SetNext(Relink(sized, listPrev, node), node, after)
      head == IF rest = 0 /\ listPrev = NULL THEN NULL
              ELSE IF headFree = a THEN node ELSE headFree
  IN  /\ mem' = Tidy(SetNext(SetSize(linked, a, w), a, NULL), head, DOMAIN given \cup {a})
      /\ headFree' = head
      /\ given' = [x \in DOMAIN given \cup {a} |-> IF x = a THEN Asked(bytes) ELSE given[x]]
      /\ damage' = CASE rest >= Header -> damage
                     [] rest < Header /\ node + rest >= Region -> "fault"
                     [] rest = 0 /\ node < Region -> "size"
                     [] rest = 1 /\ node + 1 < Region -> "next"

Mem_Alloc(bytes) ==
  LET i == Worst(FreeList)
  IN  /\ Followed /\ FreeList # <<>>
      /\ mem[FreeList[i]] >= bytes + 8 * Header
      /\ Chunk(FreeList, i, bytes)
      /\ UNCHANGED m_error

\* getWorstFit looks at worst->size also when the list is empty.
AllocFails(bytes) ==
  /\ Followed
  /\ IF FreeList = <<>>
     THEN damage' = "fault" /\ UNCHANGED m_error
     ELSE /\ mem[FreeList[Worst(FreeList)]] < bytes + 8 * Header
          /\ m_error' = "E_NO_SPACE"
          /\ UNCHANGED damage
  /\ UNCHANGED <<mem, headFree, given>>

\* A second Mem_Init is refused.
Mem_Init ==
  /\ Followed
  /\ m_error' = "E_BAD_ARGS"
  /\ UNCHANGED <<mem, headFree, given, damage>>

-----------------------------------------------------------------------------
\* Faulty variant: a block is merged with the neighbour before it only.
Follows_Never(m, node, curr) == FALSE

\* "node at beginning of free list element"
Follows(m, node, curr) == curr = node + size(m, node)

\* The loop of findNeighborNode, from list element curr on; s has the memory m,
\* head, the node being freed and whether it was merged once already.
RECURSIVE Merge(_, _, _)
Merge(s, prev, curr) ==
  IF curr = NULL
  THEN IF s.coalesced THEN s
       ELSE [s EXCEPT !.m = SetNext(@, s.node, s.head), !.head = s.node]
  ELSE
  LET m == s.m
      nx == next(m, curr)
  IN  IF s.node = curr + size(m, curr) THEN
        LET grown == SetSize(m, curr, size(m, curr) + size(m, s.node))
        IN  IF s.coalesced
            THEN LET out == SetNext(grown, prev, nx)
                 IN  [s EXCEPT !.m = SetNext(out, curr, next(out, s.node)), !.head = curr]
            ELSE IF curr # s.head
            THEN Merge([m |-> SetNext(SetNext(grown, prev, nx), curr, s.head),
                        head |-> curr, node |-> curr, coalesced |-> TRUE], prev, nx)
            ELSE Merge([m |-> grown, head |-> s.head, node |-> curr,
                        coalesced |-> TRUE], curr, nx)
      ELSE IF Follows(m, s.node, curr) THEN
        LET grown == SetSize(m, s.node, size(m, s.node) + size(m, curr))
        IN  IF s.coalesced
            THEN [s EXCEPT !.m = SetNext(grown, prev, nx)]
            ELSE IF curr # s.head
            THEN Merge([m |-> SetNext(SetNext(grown, prev, nx), s.node, s.head),
                        head |-> s.node, node |-> s.node, coalesced |-> TRUE], prev, nx)
            ELSE Merge([m |-> SetNext(grown, s.node, nx), head |-> s.node,
                        node |-> s.node, coalesced |-> TRUE], s.node, nx)
      ELSE Merge(s, curr, nx)

Mem_Free(a) ==
  LET s == Merge([m |-> mem, head |-> headFree, node |-> a, coalesced |-> FALSE],
                 NULL, headFree)
  IN  /\ Followed
      /\ mem' = Tidy(s.m, s.head, DOMAIN given \ {a})
      /\ headFree' = s.head
      /\ given' = [x \in DOMAIN given \ {a} |-> given[x]]
      /\ UNCHANGED <<m_error, damage>>

Next ==
  \/ \E bytes \in Sizes : Mem_Alloc(bytes) \/ AllocFails(bytes)
  \/ Mem_Init
  \/ \E a \in DOMAIN given : Mem_Free(a)

Spec == Init /\ [][Next]_vars

-----------------------------------------------------------------------------
Extent(a, w) == a..a + w - 1
Blocks == {Extent(a, given[a]) : a \in DOMAIN given}
Nodes == {Extent(a, size(mem, a)) : a \in Free}
Disjoint(pieces) == MapThenSumSet(Cardinality, pieces) = Cardinality(UNION pieces)

\* The header of every block still says how long it is, and the free list is
\* made of nodes of the region.
HeadersKept ==
  /\ headFree \in -1..Region - Header
  /\ \A a \in DOMAIN given : a \in 0..Region - Header /\ size(mem, a) = given[a]
  /\ \A a \in Free : a \in 0..Region - Header /\ size(mem, a) >= Header

\* The blocks handed out and the free nodes make up the region, as long as
\* every request left room for a node behind its block: only a request that
\* takes the largest node whole, or all but one word of it, costs memory.
Partition ==
  damage = "none" => /\ HeadersKept
                     /\ UNION (Blocks \cup Nodes) = 0..Region - 1

\* Nothing is handed out twice: blocks and free nodes are disjoint, also after
\* requests that took the largest node whole.  Those zero the size of the block
\* behind (or drop the list), so that words are lost when it is freed, but none
\* is given to two owners.  It is not claimed once a pointer was written over
\* a size (a request that leaves one word).
NoOverlap ==
  Followed => /\ Disjoint(Blocks) /\ Disjoint(Nodes)
              /\ UNION Blocks \cap UNION Nodes = {}

\* findNeighborNode leaves no two free nodes side by side, in whatever order
\* the neighbours are freed and listed, and lists no node twice, as long as
\* every request left room for a node.
Coalesced ==
  damage = "none" =>
    /\ Cardinality(Free) = Cardinality(DOMAIN FreeList)
    /\ \A a, b \in Free : b # a + size(mem, a)
=============================================================================
