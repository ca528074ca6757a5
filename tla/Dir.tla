-------------------------------- MODULE Dir --------------------------------
(***************************************************************************)
(* Inodes and directories of one partition (fs/inode.c, fs/dir.c) as       *)
(* operators from one state of the partition to the next.  The file system *)
(* has one caller, so each runs from end to end.  A partition is a record: *)
(*                                                                         *)
(*   inodes, blocks    the numbers that inode_bitmap and block_bitmap mark *)
(*   disk              the inode table on the disk                         *)
(*   open              open_inodes: number -> inode in memory, i_open_cnts *)
(*                     and write_deny                                      *)
(*   entries, tables   a data block read as a sector of directory entries, *)
(*                     and as a table of indirect blocks                   *)
(*                                                                         *)
(* The size of a file is in bytes, that of a directory in entries.  What a *)
(* free block still holds is left out (no entries): it is written as a     *)
(* whole before it is read again.                                          *)
(***************************************************************************)
EXTENDS FileBlocks, SequencesExt

CONSTANTS
    InodeCount,     \* MAX_FILES_PER_PART: 4096
    PerBlock,       \* directory entries in a sector: 21
    Names           \* names of files and directories

ASSUME DirAssumption ==
    /\ InodeCount \in Nat \ {0} /\ PerBlock \in Nat /\ PerBlock >= 2
    /\ Names \cap {"/", ".", ".."} = {}

Root == 0
None == -1
Inodes == 0..InodeCount - 1
\* A free cell; no name has a slash.
NoEntry == [name |-> "/", no |-> None, type |-> "unknown"]
EntryType ==
    [name : Names \cup {".", ".."}, no : Inodes, type : {"regular", "directory"}]
    \cup {NoEntry}
Entry(name, no, type) == [name |-> name, no |-> no, type |-> type]
Cells == 0..PerBlock - 1
InodeType == [size : Nat, sectors : Sectors]
OpenType == [count : Nat \ {0}, deny : BOOLEAN, inode : InodeType]
IsPart(p) ==
    /\ p = [inodes |-> p.inodes, blocks |-> p.blocks, disk |-> p.disk, open |-> p.open,
            entries |-> p.entries, tables |-> p.tables]
    /\ p.inodes \subseteq Inodes /\ p.blocks \subseteq DataBlocks
    /\ p.disk \in [Inodes -> InodeType]
    /\ DOMAIN p.open \subseteq Inodes /\ p.open \in [DOMAIN p.open -> OpenType]
    /\ p.entries \in [DataBlocks -> [Cells -> EntryType]]
    /\ p.tables \in [DataBlocks -> Tables]
NoEntries == [c \in Cells |-> NoEntry]
Dots(no, parent) ==
    [NoEntries EXCEPT ![0] = Entry(".", no, "directory"), ![1] = Entry("..", parent, "directory")]

\* The function f, and v for x.
With(f, x, v) == [y \in DOMAIN f \cup {x} |-> IF y = x THEN v ELSE f[y]]

\* inode_init
EmptyInode == [size |-> 0, sectors |-> NoSectors]
NewDir(b) == [size |-> 2, sectors |-> [NoSectors EXCEPT ![0] = b]]

\* partition_format and open_root_dir
FormattedPart ==
    [inodes |-> {Root}, blocks |-> {1},
     disk |-> [no \in Inodes |-> IF no = Root THEN NewDir(1) ELSE EmptyInode],
     open |-> [no \in {Root} |-> [count |-> 1, deny |-> FALSE, inode |-> NewDir(1)]],
     entries |-> [b \in DataBlocks |-> IF b = 1 THEN Dots(Root, Root) ELSE NoEntries],
     tables |-> [b \in DataBlocks |-> NoTable]]

-----------------------------------------------------------------------------
\* inode_open
InodeOpen(p, no) ==
    IF no \in DOMAIN p.open THEN [p EXCEPT !.open[no].count = @ + 1]
    ELSE [p EXCEPT !.open = With(@, no, [count |-> 1, deny |-> FALSE, inode |-> p.disk[no]])]

\* inode_close
InodeClose(p, no) ==
    IF p.open[no].count > 1 THEN [p EXCEPT !.open[no].count = @ - 1]
    ELSE [p EXCEPT !.open = Restrict(@, DOMAIN @ \ {no})]

\* dir_open and dir_close of the parent directory of a path; root_dir stays open.
DirOpen(p, no) == IF no = Root THEN p ELSE InodeOpen(p, no)
DirClose(p, no) == IF no = Root THEN p ELSE InodeClose(p, no)

\* inode_sync keeps the number in a uint8_t.
InodeSync(p, no, inode) == [p EXCEPT !.disk[no % 256] = inode]

\* What inode_open would return.
Inode(p, no) == IF no \in DOMAIN p.open THEN p.open[no].inode ELSE p.disk[no]

Table(p, inode) ==
    IF inode.sectors[Direct] = Nil THEN NoTable ELSE p.tables[inode.sectors[Direct]]
BlocksOf(p, no) == Blocks(Inode(p, no).sectors, Table(p, Inode(p, no)))
BlockAt(p, no, k) == Block(Inode(p, no).sectors, Table(p, Inode(p, no)), k)

\* Variant: the loop that collects the blocks starts with the second one.
BlocksReleasedLater(p, no) == {Inode(p, no).sectors[k] : k \in 1..Direct} \ {Nil}

\* The blocks that inode_release gives back.
BlocksReleased(p, no) == BlocksOf(p, no)

\* inode_release, with inode_delete.
InodeRelease(p, no) ==
    LET q == InodeOpen(p, no)
        freed == BlocksReleased(q, no)
    IN  InodeClose([q EXCEPT
            !.blocks = @ \ freed,
            !.entries = [b \in DataBlocks |-> IF b \in freed THEN NoEntries ELSE @[b]],
            !.inodes = @ \ {no},
            !.disk[no] = EmptyInode], no)

-----------------------------------------------------------------------------
\* The places of a directory that have an entry, <<index of the block, cell>>.
Filled(p, no) ==
    LET used == {k \in 0..MaxBlocks - 1 : BlockAt(p, no, k) # Nil}
    IN  {at \in used \X Cells : p.entries[BlockAt(p, no, at[1])][at[2]].type # "unknown"}
EntryAt(p, no, at) == p.entries[BlockAt(p, no, at[1])][at[2]]

\* search_dir_entry
Search(p, no, name) ==
    LET found == {at \in Filled(p, no) : EntryAt(p, no, at).name = name}
    IN  IF found = {} THEN NoEntry ELSE EntryAt(p, no, CHOOSE at \in found : TRUE)

\* Where sync_dir_entry puts an entry: the first index that has a block with a
\* free cell, or no block.  It has collected the direct blocks only.
Place(p, inode) ==
    Min({k \in 0..MaxBlocks - 1 :
            \/ k >= Direct
            \/ inode.sectors[k] = Nil
            \/ \E c \in Cells : p.entries[inode.sectors[k]][c] = NoEntry})

\* How many blocks it takes for that.
PlaceNeeds(p, no) ==
    LET inode == Inode(p, no)
        k == Place(p, inode)
    IN  IF k >= Direct THEN 2 ELSE IF inode.sectors[k] = Nil THEN 1 ELSE 0

\* sync_dir_entry, and the inode_sync of the directory that follows it.
SyncDirEntry(p, no, entry) ==
    LET inode == p.open[no].inode
        k == Place(p, inode)
        b == NthFree(p.blocks, 1)
        c == NthFree(p.blocks, 2)
        fresh == [NoEntries EXCEPT ![0] = entry]
        cell == Min({j \in Cells : p.entries[inode.sectors[k]][j] = NoEntry})
        grown == [size |-> inode.size + 1,
                  sectors |-> IF PlaceNeeds(p, no) = 0 THEN inode.sectors
                              ELSE [inode.sectors EXCEPT ![Min({k, Direct})] = b]]
        written == CASE PlaceNeeds(p, no) = 0 ->
                          [p EXCEPT !.entries[inode.sectors[k]][cell] = entry]
                     [] PlaceNeeds(p, no) = 1 ->
                          [p EXCEPT !.blocks = @ \cup {b}, !.entries[b] = fresh]
                     [] OTHER ->
                          [p EXCEPT !.blocks = @ \cup {b, c}, !.entries[c] = fresh,
                                    !.tables[b] = [NoTable EXCEPT ![0] = c]]
    IN  InodeSync([written EXCEPT !.open[no].inode = grown], no, grown)

\* The place of the entry with number child.
PlaceOf(p, no, child) ==
    CHOOSE at \in Filled(p, no) :
        EntryAt(p, no, at).no = child /\ EntryAt(p, no, at).name \notin {".", ".."}

\* Variant: the entries after it are not counted.
AloneSoFar(p, no, at) == {c \in Cells : c <= at[2] /\ <<at[1], c>> \in Filled(p, no)} = {at[2]}

\* Its block has no other entry; the directory's first block has "." and "..".
Alone(p, no, at) == {c \in Cells : <<at[1], c>> \in Filled(p, no)} = {at[2]}

\* The loop that counts the indirect blocks looks at the first one for ever.
DeleteLoops(p, no, child) ==
    LET at == PlaceOf(p, no, child) IN
    at[1] >= Direct /\ Alone(p, no, at) /\ Table(p, Inode(p, no))[0] = Nil

\* Variant: a block that becomes empty stays.
DeleteKeepsBlock(p, no, child) ==
    LET at == PlaceOf(p, no, child)
        less == [p.open[no].inode EXCEPT !.size = @ - 1]
        wiped == [p EXCEPT !.entries[BlockAt(p, no, at[1])][at[2]] = NoEntry]
    IN  InodeSync([wiped EXCEPT !.open[no].inode = less], no, less)

\* delete_dir_entry
DeleteDirEntry(p, no, child) ==
    LET inode == p.open[no].inode
        at == PlaceOf(p, no, child)
        b == BlockAt(p, no, at[1])
        frees == Alone(p, no, at)
        less == [size |-> inode.size - 1,
                 sectors |-> IF frees /\ at[1] < Direct
                             THEN [inode.sectors EXCEPT ![at[1]] = Nil] ELSE inode.sectors]
        wiped == [p EXCEPT !.entries[b][at[2]] = NoEntry,
                           !.blocks = IF frees THEN @ \ {b} ELSE @,
                           !.open[no].inode = less]
        unlisted == IF frees /\ at[1] >= Direct
                    THEN [wiped EXCEPT !.tables[inode.sectors[Direct]][at[1] - Direct] = Nil]
                    ELSE wiped
    IN  InodeSync(unlisted, no, less)

\* Variant: the entry is found by dividing dir_pos.
DirReadDivided(p, no, pos) ==
    {EntryAt(p, no, at) : at \in Filled(p, no) \cap {<<pos \div PerBlock, pos % PerBlock>>}}

\* dir_read at dir_pos: the entry with that many entries before it, if
\* dir_pos is less than the directory's size.
DirRead(p, no, pos) ==
    LET filled == Filled(p, no)
        before(at) == {x \in filled : x[1] < at[1] \/ (x[1] = at[1] /\ x[2] < at[2])}
        here == {at \in filled : pos < Inode(p, no).size /\ Cardinality(before(at)) = pos}
    IN  {EntryAt(p, no, at) : at \in here}
=============================================================================
