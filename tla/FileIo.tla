------------------------------- MODULE FileIo -------------------------------
(***************************************************************************)
(* file_write, file_read and sys_lseek of one open file (fs/file.c,        *)
(* fs/fs.c), while the blocks around it are taken and given back by other  *)
(* files.  The byte at offset o of the file is written as o, so that a     *)
(* byte tells where it belongs.                                            *)
(***************************************************************************)
EXTENDS FileBlocks, SequencesExt

CONSTANT Word       \* 2^32: offsets and sizes are uint32_t

ASSUME FileIoAssumption ==
    Word \in Nat /\ Word > BlockSize * (MaxBlocks + 1)

VARIABLES
    size,       \* i_size
    sectors,    \* i_sectors
    table,      \* the contents of sector i_sectors[12]
    pos,        \* fd_pos
    taken,      \* block_bitmap
    disk,       \* the bytes of each sector
    got,        \* what the last read returned, and from where
    panic       \* the ASSERT that has failed

vars == <<size, sectors, table, pos, taken, disk, got, panic>>

Offsets == 0..BlockSize - 1
ZeroByte == -1              \* what memset writes
OldByte == -2               \* what was in the sector before
ByteValues == {OldByte, ZeroByte} \cup 0..MaxSize
Own == Blocks(sectors, table)

FileIoTypeOK ==
    /\ size \in 0..MaxSize
    /\ sectors \in Sectors /\ table \in Tables
    /\ pos \in 0..Word - 1
    /\ taken \subseteq DataBlocks
    /\ disk \in [{Nil} \cup DataBlocks -> [Offsets -> ByteValues]]
    /\ panic \in {"none", "full", "size", "position", "table"}

Init ==
    /\ size = 0 /\ pos = 0
    /\ sectors = NoSectors /\ table = NoTable
    /\ taken = {1}
    /\ disk = [b \in {Nil} \cup DataBlocks |-> [i \in Offsets |-> OldByte]]
    /\ got = [from |-> 0, bytes |-> <<>>]
    /\ panic = "none"

Panics(why) ==
    /\ panic' = why
    /\ UNCHANGED <<size, sectors, table, pos, taken, disk, got>>

-----------------------------------------------------------------------------
\* Variant: the first block is not read before it is written.
WrittenUnread(count, s, t) ==
    LET index == size \div BlockSize..(size + count - 1) \div BlockSize
    IN  [b \in DOMAIN disk |->
            LET here == {i \in index : Block(s, t, i) = b} IN
            IF here = {} THEN disk[b]
            ELSE [o \in Offsets |->
                    LET at == Max(here) * BlockSize + o
                    IN  IF at \in size..size + count - 1 THEN at ELSE ZeroByte]]

\* The sectors after the loop that writes: the first one keeps what it had,
\* the others are filled with zeros; of two with one number the last one stays.
Written(count, s, t) ==
    LET index == size \div BlockSize..(size + count - 1) \div BlockSize
    IN  [b \in DOMAIN disk |->
            LET here == {i \in index : Block(s, t, i) = b} IN
            IF here = {} THEN disk[b]
            ELSE [o \in Offsets |->
                    LET at == Max(here) * BlockSize + o
                    IN  IF at \in size..size + count - 1 THEN at
                        ELSE IF Max(here) = size \div BlockSize THEN disk[b][o]
                        ELSE ZeroByte]]

\* fd_pos after file_write: set once, before the loop that writes.
PosWritten == (size - 1) % Word

\* file_write appends, whatever fd_pos is, and leaves fd_pos one before the
\* end that the file had.
Extend(count) ==
    LET s == NewSectors(sectors, size, count, taken)
        t == NewTable(sectors, table, size, count, taken)
    IN  /\ sectors' = s /\ table' = t
        /\ taken' = NewTaken(sectors, size, count, taken)
        /\ disk' = Written(count, s, t)
        /\ size' = size + count
        /\ pos' = PosWritten
        /\ UNCHANGED <<got, panic>>

Write(count) ==
    /\ panic = "none"
    /\ size + count <= MaxBlocks * BlockSize        \* or -1
    /\ size + count <= MaxSize
    /\ IF UsedBlocks(size + count) > MaxBlocks THEN Panics("size")
       ELSE IF Cardinality(DataBlocks \ taken) < Needed(sectors, size, count)
       THEN Panics("full")
       ELSE Extend(count)

-----------------------------------------------------------------------------
\* Variant: the first chunk is taken from the start of its sector.
BytesUnaligned(n) ==
    [k \in 1..n |->
        LET at == pos + k - 1
            o  == IF at \div BlockSize = pos \div BlockSize THEN k - 1 ELSE at % BlockSize
        IN  disk[Block(sectors, table, at \div BlockSize)][o]]

\* The loop that reads n bytes.
Bytes(n) ==
    [k \in 1..n |->
        LET at == pos + k - 1
        IN  disk[Block(sectors, table, at \div BlockSize)][at % BlockSize]]

\* file_read; nothing is read at the end of the file.
Read(count) ==
    LET n == IF (pos + count) % Word > size THEN (size - pos) % Word ELSE count
        first == pos \div BlockSize
        last == ((pos + n) % Word) \div BlockSize
    IN  /\ panic = "none" /\ n > 0
        /\ IF first >= MaxBlocks - 1 \/ last >= MaxBlocks - 1 THEN Panics("position")
           ELSE IF first # last /\ last >= Direct /\ sectors[Direct] = Nil
           THEN Panics("table")
           ELSE /\ got' = [from |-> pos, bytes |-> Bytes(n)]
                /\ pos' = pos + n
                /\ UNCHANGED <<size, sectors, table, taken, disk, panic>>

\* sys_lseek to an offset it accepts, or the file is closed and opened again.
Seek(to) ==
    /\ panic = "none"
    /\ to < size \/ to = 0
    /\ pos' = to
    /\ UNCHANGED <<size, sectors, table, taken, disk, got, panic>>

\* Another file takes or gives back a block.
Others ==
    /\ panic = "none"
    /\ \E b \in DataBlocks \ (Own \cup {1}) :
          taken' = IF b \in taken THEN taken \ {b} ELSE taken \cup {b}
    /\ UNCHANGED <<size, sectors, table, pos, disk, got, panic>>

Next ==
    \/ \E count \in Counts : Write(count) \/ Read(count)
    \/ \E to \in 0..MaxSize : Seek(to)
    \/ Others

Spec == Init /\ [][Next]_vars

-----------------------------------------------------------------------------
\* Every byte of the file is where file_read looks for it, in a block that
\* the bitmap marks, whatever blocks the calls of file_write found free.
BytesKept ==
    \A o \in 0..size - 1 :
        LET b == Block(sectors, table, o \div BlockSize)
        IN  b \in taken /\ disk[b][o % BlockSize] = o

\* What file_read returns are the bytes from fd_pos on.
ReadsBack == \A k \in DOMAIN got.bytes : got.bytes[k] = got.from + k - 1

\* The file has the blocks its size asks for (one more when it ends with a full
\* block), no block twice, and all of them marked.
BlocksCounted ==
    LET n == IF sectors[0] = Nil THEN 0 ELSE UsedBlocks(size) IN
    /\ Own \subseteq taken /\ 1 \notin Own
    /\ Cardinality(Own) = n + (IF n > Direct THEN 1 ELSE 0)

\* Writing the file changes no sector of another one, nor the boot sector.
OthersKept == \A b \in DOMAIN disk \ Own : disk[b] = [o \in Offsets |-> OldByte]
=============================================================================
