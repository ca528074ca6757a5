------------------------------- MODULE Arena -------------------------------
(***************************************************************************)
(* The heap of kernel/memory.c: sys_malloc and sys_free over malloc_page   *)
(* and mfree_page, for one pool.  Each call runs from start to end under   *)
(* the pool's lock, which Sync shows to exclude the others, so a call is   *)
(* one step here.                                                          *)
(*                                                                         *)
(* Addresses and sizes count units; a page has PageUnits of them and an    *)
(* arena keeps its header in the first HeaderUnits of its first page.      *)
(***************************************************************************)
EXTENDS FiniteSetsExt, SequencesExt, LinkedList

CONSTANTS
    PageCount,      \* bits of the virtual bitmap
    MapByteBits,    \* bits of one of its bytes: 8 in the code
    FrameCount,     \* frames of the physical pool
    PageUnits,      \* PG_SIZE
    HeaderUnits,    \* sizeof(struct arena)
    BlockSizes,     \* block_size of each mem_block_desc, smallest first
    Requests        \* bound: the sizes asked for

Descs == 1..Len(BlockSizes)
LargestBlock == BlockSizes[Len(BlockSizes)]     \* 1024 in the code
Pages == 0..PageCount - 1
\* The bit after the last one: bitmap_scan may return it, see Bitmap.
Space == (PageCount + 1) * PageUnits

ASSUME ArenaAssumption ==
    /\ PageCount \in Nat \ {0} /\ FrameCount \in Nat \ {0}
    /\ MapByteBits \in Nat \ {0} /\ PageCount % MapByteBits = 0
    /\ PageUnits \in Nat /\ HeaderUnits \in Nat \ {0}
    /\ BlockSizes \in Seq(Nat \ {0}) /\ BlockSizes # <<>>
    /\ \A d \in Descs : BlockSizes[d] <= PageUnits - HeaderUnits
    /\ \A d, e \in Descs : d < e => BlockSizes[d] < BlockSizes[e]
    /\ Requests \subseteq Nat \ {0}

VARIABLES
    taken,      \* the virtual pages marked in the bitmap and in the bit after it
    arenas,     \* the arena that starts in a page: its desc (0: large) and cnt
    links,      \* the free_elem of free blocks, and the free_list of each mem_block_desc
    held,       \* what callers have got and not given back
    panic       \* the ASSERT that has failed

vars == <<taken, arenas, links, held, panic>>

ArenaTypeOK ==
    /\ taken \subseteq 0..PageCount
    /\ DOMAIN arenas \subseteq Pages
    /\ \A a \in DOMAIN arenas :
          arenas[a] \in [desc : Descs \cup {0}, cnt : 0..PageUnits + PageCount]
    /\ \A e \in DOMAIN links : links[e] \in [prev : Int, next : Int]
    /\ \A h \in held : h \in [addr : 0..Space - 1, size : Requests]
    /\ panic \in {"none", "full", "linked", "unlinked"}

Init ==
    /\ taken \in SUBSET {PageCount}  \* what follows the bitmap is not initialized
    /\ arenas = <<>>
    /\ links = ListInit(Descs)
    /\ held = {}
    /\ panic = "none"

-----------------------------------------------------------------------------
BlocksPerArena(d) == (PageUnits - HeaderUnits) \div BlockSizes[d]

\* arena2block for each block, and block2arena.
Blocks(a, d) ==
    [i \in 1..BlocksPerArena(d) |->
        a * PageUnits + HeaderUnits + (i - 1) * BlockSizes[d]]
PageOf(addr) == addr \div PageUnits

\* The pages of an arena.
Extent(a) == IF arenas[a].desc = 0 THEN a..a + arenas[a].cnt - 1 ELSE {a}

\* bitmap_scan over the virtual bitmap.
Map == INSTANCE Bitmap WITH ByteBits <- MapByteBits, BitCount <- PageCount, bits <- taken

\* The ASSERT fails in the physical bitmap when palloc looks for a frame for
\* each of n pages and finds them all taken.
NoFrames(n) == Cardinality(UNION {Extent(a) : a \in DOMAIN arenas}) + n > FrameCount

\* What vaddr_get finds; its ASSERT fails when the bitmap is full.
PagesFound(n) == IF Map!Full THEN PageCount ELSE Map!Scan(n)

\* malloc_page yields NULL, or ends in the panic: vaddr_get's, or palloc's
\* when the frames run out.
NoPages(n) ==
    \/ /\ PagesFound(n) = -1
       /\ UNCHANGED vars
    \/ /\ PagesFound(n) # -1 /\ (Map!Full \/ NoFrames(n))
       /\ panic' = "full"
       /\ UNCHANGED <<taken, arenas, links, held>>

\* malloc_page yields the n pages from a on.
MallocPage(n, a) ==
    /\ ~Map!Full /\ ~NoFrames(n)
    /\ a = PagesFound(n)
    /\ taken' = taken \cup (a..a + n - 1)

\* The arenas, with a new one in page a.
WithArena(a, desc, cnt) ==
    [p \in DOMAIN arenas \cup {a} |->
        IF p = a THEN [desc |-> desc, cnt |-> cnt] ELSE arenas[p]]

\* More than LargestBlock: whole pages.
MallocLarge(size) ==
    LET n == (size + HeaderUnits + PageUnits - 1) \div PageUnits
    IN  /\ size > LargestBlock
        /\ \/ NoPages(n)
           \/ \E a \in Pages :
                 /\ MallocPage(n, a)
                 /\ arenas' = WithArena(a, 0, n)
                 /\ held' = held \cup {[addr |-> a * PageUnits + HeaderUnits, size |-> size]}
                 /\ UNCHANGED <<links, panic>>

\* The smallest block size that fits.
DescFor(size) == Min({d \in Descs : size <= BlockSizes[d]})

\* The first free block leaves the list.
Take(d, list, known, size) ==
    LET b == First(list, d)
    IN  /\ links' = Detach(list, b)
        /\ arenas' = [known EXCEPT ![PageOf(b)].cnt = @ - 1]
        /\ held' = held \cup {[addr |-> b, size |-> size]}

\* The blocks of a new arena are appended, each one checked not to be there.
Split(a, d) ==
    LET after[i \in 0..BlocksPerArena(d)] ==
            IF i = 0 THEN links ELSE ListAppend(after[i - 1], d, Blocks(a, d)[i])
    IN  after[BlocksPerArena(d)]
SplitAssert(a, d) ==
    panic' = IF \E b \in Range(Blocks(a, d)) : ElemFind(links, d, b) THEN "linked" ELSE panic

\* A free block of the descriptor, or the first block of a new arena.
MallocSmall(size) ==
    LET d == DescFor(size)
    IN  /\ size <= LargestBlock
        /\ \/ /\ ~ListEmpty(links, d)
              /\ Take(d, links, arenas, size)
              /\ UNCHANGED <<taken, panic>>
           \/ /\ ListEmpty(links, d)
              /\ \/ NoPages(1)
                 \/ \E a \in Pages :
                       /\ MallocPage(1, a)
                       /\ SplitAssert(a, d)
                       /\ Take(d, Split(a, d), WithArena(a, d, BlocksPerArena(d)), size)

\* sys_malloc; a size of the whole pool or more yields NULL.
Malloc(size) ==
    /\ panic = "none"
    /\ size < FrameCount * PageUnits
    /\ MallocLarge(size) \/ MallocSmall(size)

-----------------------------------------------------------------------------
\* mfree_page of an arena of n pages.
FreePages(a, n) ==
    /\ taken' = taken \ (a..a + n - 1)
    /\ arenas' = [p \in DOMAIN arenas \ {a} |-> arenas[p]]

\* Variant: one page too many is freed.
FreeLargePastEnd(a) ==
    /\ arenas[a].desc = 0
    /\ FreePages(a, arenas[a].cnt + 1)
    /\ UNCHANGED <<links, panic>>

\* An arena that is one request of whole pages.
FreeLarge(a) ==
    /\ arenas[a].desc = 0
    /\ FreePages(a, arenas[a].cnt)
    /\ UNCHANGED <<links, panic>>

\* What is left of the lists without the blocks of arena a.
WithoutBlocks(list, a, d) ==
    LET after[i \in 0..BlocksPerArena(d)] ==
            IF i = 0 THEN list ELSE Detach(after[i - 1], Blocks(a, d)[i])
    IN  after[BlocksPerArena(d)]

\* The blocks of arena a leave the list, each one checked to be there.
Unsplit(list, a, d) ==
    /\ panic' = IF \A b \in Range(Blocks(a, d)) : ElemFind(list, d, b)
                THEN panic ELSE "unlinked"
    /\ links' = IF panic' = "unlinked" THEN list
                ELSE WithoutBlocks(list, a, d)

\* Variant: `a->cnt++' for `++a->cnt'.
FreeSmallLate(a, addr) ==
    LET d    == arenas[a].desc
        list == ListAppend(links, d, addr)
    IN  /\ d # 0
        /\ IF arenas[a].cnt = BlocksPerArena(d)
           THEN Unsplit(list, a, d) /\ FreePages(a, 1)
           ELSE /\ links' = list
                /\ arenas' = [arenas EXCEPT ![a].cnt = @ + 1]
                /\ UNCHANGED <<taken, panic>>

\* A block goes to the tail of the list; when it was the last one in use, the
\* arena's blocks leave the list and its page is freed.
FreeSmall(a, addr) ==
    LET d    == arenas[a].desc
        list == ListAppend(links, d, addr)
    IN  /\ d # 0
        /\ IF arenas[a].cnt + 1 = BlocksPerArena(d)
           THEN Unsplit(list, a, d) /\ FreePages(a, 1)
           ELSE /\ links' = list
                /\ arenas' = [arenas EXCEPT ![a].cnt = @ + 1]
                /\ UNCHANGED <<taken, panic>>

\* sys_free of what a caller holds.
Free(h) ==
    /\ panic = "none"
    /\ h \in held
    /\ held' = held \ {h}
    /\ FreeLarge(PageOf(h.addr)) \/ FreeSmall(PageOf(h.addr), h.addr)

Next ==
    \/ \E size \in Requests : Malloc(size)
    \/ \E h \in held : Free(h)

Spec == Init /\ [][Next]_vars

-----------------------------------------------------------------------------
Heap == INSTANCE HeapSpec WITH HeapSize <- Space

\* Regions handed out never overlap, whatever blocks and arenas have been
\* split, freed and reused before.
ImplementsHeap == Heap!Spec

\* The blocks of arena a that callers hold.
HeldIn(a) == {h \in held : PageOf(h.addr) = a}
SmallArenas == {a \in DOMAIN arenas : arenas[a].desc # 0}
free_list == [d \in Descs |-> Listed(links, d)]

\* Each block of an arena is either held or in the free list of the arena's
\* descriptor, once; cnt counts the latter; an arena without a held block is
\* gone.  The free lists hold nothing else, are the same in both directions, and
\* the ASSERTs of sys_malloc and sys_free about them never fail.
ArenasAgree ==
    /\ \A a \in SmallArenas :
          LET d == arenas[a].desc
              listed == {b \in Range(free_list[d]) : PageOf(b) = a}
          IN  /\ listed \cup {h.addr : h \in HeldIn(a)} = Range(Blocks(a, d))
              /\ listed \cap {h.addr : h \in HeldIn(a)} = {}
              /\ arenas[a].cnt = Cardinality(listed)
              /\ HeldIn(a) # {}
    /\ \A d \in Descs :
          /\ IsInjective(free_list[d])
          /\ \A b \in Range(free_list[d]) :
                PageOf(b) \in SmallArenas /\ arenas[PageOf(b)].desc = d
    /\ Linked(links, Descs)
    /\ panic \notin {"linked", "unlinked"}

\* The bitmap marks exactly the pages of live arenas, which share no page:
\* when callers have given everything back the whole pool is free again.  What a
\* caller may write lies inside the pages of one live arena and off its header.
PagesAgree ==
    /\ taken \cap Pages = Pages \cap UNION {Extent(a) : a \in DOMAIN arenas}
    /\ \A a, b \in DOMAIN arenas : a # b => Extent(a) \cap Extent(b) = {}
    /\ held = {} => taken \cap Pages = {}
    /\ \A h \in held : \E a \in DOMAIN arenas :
          /\ h.addr >= a * PageUnits + HeaderUnits
          /\ \A u \in h.addr..h.addr + h.size - 1 : PageOf(u) \in Extent(a)

\* bitmap_scan returns the first run of clear bits, whatever holes the earlier
\* requests and frees have left in the bitmap.
ScanAgrees == Map!ScanFindsFirstRun
=============================================================================
