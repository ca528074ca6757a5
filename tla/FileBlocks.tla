----------------------------- MODULE FileBlocks -----------------------------
(***************************************************************************)
(* The blocks of a file: i_sectors of struct inode (fs/inode.h), the first *)
(* Direct of them blocks of data and the last one the table of the others, *)
(* and how file_write of fs/file.c allocates them.                         *)
(***************************************************************************)
EXTENDS FiniteSetsExt, Integers

CONSTANTS
    BlockSize,      \* bytes of a block: 512 in the code
    Direct,         \* direct blocks: 12
    TableLen,       \* blocks in the indirect table: 128
    LastBlock,      \* the data area has the blocks 1..LastBlock, 1 the root's
    Counts,         \* bound: the counts given to sys_write and sys_read
    MaxSize         \* bound: the size a file grows to

ASSUME FileBlocksAssumption ==
    /\ BlockSize \in Nat \ {0} /\ Direct \in Nat \ {0} /\ TableLen \in Nat \ {0}
    /\ LastBlock \in Nat \ {0}
    /\ Counts \subseteq Nat \ {0} /\ MaxSize \in Nat

Nil == 0            \* no block; as a sector, the boot sector of the disk
DataBlocks == 1..LastBlock
Sectors == [0..Direct -> DataBlocks \cup {Nil}]
Tables == [0..TableLen - 1 -> DataBlocks \cup {Nil}]
MaxBlocks == Direct + TableLen
NoSectors == [i \in 0..Direct |-> Nil]
NoTable == [i \in 0..TableLen - 1 |-> Nil]

\* The block of index i.
Block(sectors, table, i) == IF i < Direct THEN sectors[i] ELSE table[i - Direct]

\* All blocks of a file, and the one its table is in.
Blocks(sectors, table) ==
    ({sectors[i] : i \in 0..Direct}
        \cup (IF sectors[Direct] = Nil THEN {} ELSE {table[i] : i \in 0..TableLen - 1}))
    \ {Nil}

-----------------------------------------------------------------------------
\* block_bitmap_alloc, called for the kth time: the first free block.
NthFree(taken, k) ==
    CHOOSE b \in DataBlocks \ taken :
        Cardinality({c \in DataBlocks \ taken : c <= b}) = k

\* Variant: a file that ends with a full block needs no further one.
UsedBlocksDown(size) == size \div BlockSize

\* file_has_used_blocks, file_will_use_blocks
UsedBlocks(size) == size \div BlockSize + 1

\* The new data are the first to need the indirect table.
NeedsTable(size, count) ==
    UsedBlocks(size) <= Direct /\ UsedBlocks(size + count) > Direct

\* How often file_write calls block_bitmap_alloc.
Needed(sectors, size, count) ==
    (IF sectors[0] = Nil THEN 1 ELSE 0)
    + UsedBlocks(size + count) - UsedBlocks(size)
    + (IF NeedsTable(size, count) THEN 1 ELSE 0)

\* Variant: the loop starts with the last block that is used.
NewBlockEarly(sectors, size, count, taken, i) ==
    LET before == (IF sectors[0] = Nil THEN 1 ELSE 0)
                  + (IF NeedsTable(size, count) THEN 1 ELSE 0)
    IN  NthFree(taken, before + Max({i - UsedBlocks(size), 1}))

\* The block allocated for index i: after the first block of an empty file and
\* after the table.
NewBlock(sectors, size, count, taken, i) ==
    LET before == (IF sectors[0] = Nil THEN 1 ELSE 0)
                  + (IF NeedsTable(size, count) THEN 1 ELSE 0)
    IN  NthFree(taken, before + i - UsedBlocks(size) + 1)

\* i_sectors after the allocation.
NewSectors(sectors, size, count, taken) ==
    LET new == UsedBlocks(size)..UsedBlocks(size + count) - 1
        first == IF sectors[0] = Nil THEN 1 ELSE 0
    IN  [i \in 0..Direct |->
            IF i = Direct
            THEN IF NeedsTable(size, count) THEN NthFree(taken, first + 1) ELSE sectors[i]
            ELSE IF i \in new THEN NewBlock(sectors, size, count, taken, i)
            ELSE IF i = 0 /\ first = 1 THEN NthFree(taken, 1)
            ELSE sectors[i]]

\* The indirect table after it.  The second case of file_write allocates the
\* indirect blocks but does not enter them: all_blocks is still zero there.
NewTable(sectors, table, size, count, taken) ==
    LET new == UsedBlocks(size)..UsedBlocks(size + count) - 1
    IN  IF NeedsTable(size, count) THEN NoTable
        ELSE [i \in 0..TableLen - 1 |->
                IF i + Direct \in new
                THEN NewBlock(sectors, size, count, taken, i + Direct)
                ELSE table[i]]

\* block_bitmap after it.
NewTaken(sectors, size, count, taken) ==
    taken \cup {NthFree(taken, k) : k \in 1..Needed(sectors, size, count)}
=============================================================================
