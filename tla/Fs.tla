--------------------------------- MODULE Fs ---------------------------------
(***************************************************************************)
(* The calls of the file system (fs/fs.c, fs/file.c) on one partition.     *)
(* main is their only caller and filesys_init formats the partition at     *)
(* each start, so each call is one step and the disk is never found as a   *)
(* former run has left it.  A path is the sequence of its names.           *)
(***************************************************************************)
EXTENDS Dir

CONSTANTS
    FilePaths, OpenPaths, DirPaths,     \* bound: the paths given to sys_open with
                        \* O_CREAT and sys_unlink, to sys_open, to sys_mkdir and sys_rmdir
    SlotCount,          \* usable slots of file_table: MAX_FILE_OPEN less 3
    FdCount             \* usable descriptors of the caller: MAX_FILES_OPEN_PER_PROC less 3

ASSUME FsAssumption ==
    /\ FilePaths \cup OpenPaths \cup DirPaths \subseteq Seq(Names) \ {<<>>}
    /\ SlotCount \in Nat \ {0} /\ FdCount \in Nat \ {0}

VARIABLES
    part,       \* cur_part, in memory and on the disk
    file_table, \* the slots in use: inode number, and whether fd_flag allows to write
    fd_table,   \* the caller's descriptors in use: the slot
    failed,     \* the ASSERT that has failed, or the loop without end
    names       \* what each path leads to; follows part

fsVars == <<part, file_table, fd_table, failed, names>>

AllPaths == FilePaths \cup DirPaths
FileSlots == 1..SlotCount
Fds == 1..FdCount

FsTypeOK ==
    /\ IsPart(part)
    /\ DOMAIN file_table \subseteq FileSlots
    /\ file_table \in [DOMAIN file_table -> [no : Inodes, writes : BOOLEAN]]
    /\ DOMAIN fd_table \subseteq Fds
    /\ fd_table \in [DOMAIN fd_table -> DOMAIN file_table]
    /\ failed \in {"none", "inodes", "blocks", "size", "sectors", "loop"}

\* filesys_init
FsInit ==
    /\ part = FormattedPart
    /\ file_table = <<>> /\ fd_table = <<>>
    /\ failed = "none"
    /\ names = [path \in AllPaths |-> "none"]

FsPanics(why) ==
    /\ failed' = why
    /\ UNCHANGED <<part, file_table, fd_table>>

NoBlocks(n) == Cardinality(DataBlocks \ part.blocks) < n
NoInode == Inodes \subseteq part.inodes

\* Variant: the next number is how many inodes there are.
NewInodeCounted == Cardinality(part.inodes)

\* inode_bitmap_alloc
NewInode == Min(Inodes \ part.inodes)

-----------------------------------------------------------------------------
\* search_file: the walk ends at a regular file, or at a name that is not found.
Walk(p, at, name) ==
    IF at.type # "directory" THEN at
    ELSE LET found == Search(p, at.no, name)
         IN  [no |-> found.no, type |-> found.type, parent |-> at.no, depth |-> at.depth + 1]
AtRoot == [no |-> Root, type |-> "directory", parent |-> Root, depth |-> 0]
SearchFile(p, path) ==
    LET at[i \in 0..Len(path)] == IF i = 0 THEN AtRoot ELSE Walk(p, at[i - 1], path[i])
    IN  at[Len(path)]

\* A new name: all but the last one exist.
New(at, path) == at.type = "unknown" /\ at.depth = Len(path)

\* get_free_slot_in_global
FreeSlots == FileSlots \ DOMAIN file_table

\* pcb_fd_install; without a free descriptor the slot stays taken.
FdInstall(slot) ==
    LET free == Fds \ DOMAIN fd_table
    IN  fd_table' = IF free = {} THEN fd_table ELSE With(fd_table, Min(free), slot)

\* sys_open with O_CREAT: file_create.
Create(path, writes) ==
    LET at == SearchFile(part, path)
        slot == Min(FreeSlots)
        no == NewInode
        named == SyncDirEntry(DirOpen(part, at.parent), at.parent,
                              Entry(Last(path), no, "regular"))
        new == [count |-> 1, deny |-> FALSE, inode |-> EmptyInode]
        made == [InodeSync(named, no, EmptyInode) EXCEPT
                    !.inodes = @ \cup {no}, !.open = With(@, no, new)]
    IN  /\ failed = "none" /\ New(at, path) /\ (NoInode \/ FreeSlots # {})
        /\ IF NoInode THEN FsPanics("inodes")
           ELSE IF NoBlocks(PlaceNeeds(part, at.parent)) THEN FsPanics("blocks")
           ELSE /\ part' = DirClose(made, at.parent)
                /\ file_table' = With(file_table, slot, [no |-> no, writes |-> writes])
                /\ FdInstall(slot)
                /\ UNCHANGED failed

\* file_open; when another one writes the file, it fails and leaves the slot.
FileOpen(p, no, writes) ==
    LET slot == Min(FreeSlots)
        q == InodeOpen(p, no)
    IN  /\ part' = [q EXCEPT !.open[no].deny = @ \/ writes]
        /\ file_table' = With(file_table, slot, [no |-> no, writes |-> writes])
        /\ IF writes /\ q.open[no].deny THEN UNCHANGED fd_table ELSE FdInstall(slot)

\* sys_open of a file; the parent directory stays open.
Open(path, writes) ==
    LET at == SearchFile(part, path) IN
    /\ failed = "none" /\ at.type = "regular" /\ at.depth = Len(path)
    /\ IF FreeSlots = {}
       THEN part' = DirOpen(part, at.parent) /\ UNCHANGED <<file_table, fd_table>>
       ELSE FileOpen(DirOpen(part, at.parent), at.no, writes)
    /\ UNCHANGED failed

\* sys_close: file_close.
Close(fd) ==
    /\ failed = "none" /\ fd \in DOMAIN fd_table
    /\ LET slot == fd_table[fd]
           no == file_table[slot].no
       IN  /\ part' = InodeClose([part EXCEPT !.open[no].deny = FALSE], no)
           /\ file_table' = Restrict(file_table, DOMAIN file_table \ {slot})
    /\ fd_table' = Restrict(fd_table, DOMAIN fd_table \ {fd})
    /\ UNCHANGED failed

\* sys_write: file_write as far as blocks are concerned (see FileIo).
FileWritten(p, no, count) ==
    LET inode == p.open[no].inode
        sectors == NewSectors(inode.sectors, inode.size, count, p.blocks)
        table == NewTable(inode.sectors, Table(p, inode), inode.size, count, p.blocks)
        more == [size |-> inode.size + count, sectors |-> sectors]
        indirect == IF sectors[Direct] = Nil THEN p
                    ELSE [p EXCEPT !.tables[sectors[Direct]] = table]
    IN  InodeSync([indirect EXCEPT
                      !.blocks = NewTaken(inode.sectors, inode.size, count, @),
                      !.open[no].inode = more], no, more)
FsWrite(fd, count) ==
    /\ failed = "none" /\ fd \in DOMAIN fd_table /\ file_table[fd_table[fd]].writes
    /\ LET no == file_table[fd_table[fd]].no
           inode == part.open[no].inode
       IN  /\ inode.size + count <= Min({MaxSize, MaxBlocks * BlockSize})
           /\ IF UsedBlocks(inode.size + count) > MaxBlocks THEN FsPanics("size")
              ELSE IF NoBlocks(Needed(inode.sectors, inode.size, count)) THEN FsPanics("blocks")
              ELSE /\ part' = FileWritten(part, no, count)
                   /\ UNCHANGED <<file_table, fd_table, failed>>

\* Variant: only who writes a file keeps it from being removed.
InUseWritten(no) == no \in DOMAIN part.open /\ part.open[no].deny

\* The scan of file_table in sys_unlink.
InUse(no) == \E slot \in DOMAIN file_table : file_table[slot].no = no

\* An entry, its inode and its blocks go: sys_unlink, dir_remove.
Delete(at) ==
    LET p == DeleteDirEntry(DirOpen(part, at.parent), at.parent, at.no)
    IN  IF DeleteLoops(part, at.parent, at.no) THEN FsPanics("loop")
        ELSE /\ part' = DirClose(InodeRelease(p, at.no), at.parent)
             /\ UNCHANGED <<file_table, fd_table, failed>>

\* sys_unlink
Unlink(path) ==
    LET at == SearchFile(part, path) IN
    /\ failed = "none" /\ at.type = "regular" /\ ~InUse(at.no)
    /\ Delete(at)

\* The new directory, and its name in the parent.
Made(at, name) ==
    LET b == NthFree(part.blocks, 1)
        p == [DirOpen(part, at.parent) EXCEPT
                 !.blocks = @ \cup {b}, !.entries[b] = Dots(NewInode, at.parent)]
        named == SyncDirEntry(p, at.parent, Entry(name, NewInode, "directory"))
    IN  InodeSync([named EXCEPT !.inodes = @ \cup {NewInode}], NewInode, NewDir(b))

\* sys_mkdir
Mkdir(path) ==
    LET at == SearchFile(part, path) IN
    /\ failed = "none" /\ New(at, path)
    /\ IF NoInode THEN FsPanics("inodes")
       ELSE IF NoBlocks(1 + PlaceNeeds(part, at.parent)) THEN FsPanics("blocks")
       ELSE /\ part' = DirClose(Made(at, Last(path)), at.parent)
            /\ UNCHANGED <<file_table, fd_table, failed>>

\* dir_is_empty
IsEmpty(no) == Inode(part, no).size = 2

\* Bound: sys_rmdir is not called with the path of a regular file that has the size
\* of two entries.  The code asks for that size only, and would remove the file.
OnDirectory(at) == at.type = "directory"

\* sys_rmdir: dir_remove, whose ASSERT wants one block.
Rmdir(path) ==
    LET at == SearchFile(part, path)
    IN  /\ failed = "none" /\ OnDirectory(at) /\ IsEmpty(at.no)
        /\ IF \E k \in 1..Direct : Inode(part, at.no).sectors[k] # Nil
           THEN FsPanics("sectors") ELSE Delete(at)

LeadsTo(p, path) ==
    LET at == SearchFile(p, path)
    IN  IF at.depth = Len(path) /\ at.type # "unknown" THEN at.type ELSE "none"

Call ==
    \/ \E path \in FilePaths, writes \in BOOLEAN : Create(path, writes)
    \/ \E path \in OpenPaths, writes \in BOOLEAN : Open(path, writes)
    \/ \E path \in FilePaths : Unlink(path)
    \/ \E path \in DirPaths : Mkdir(path) \/ Rmdir(path)
    \/ \E fd \in Fds : Close(fd) \/ \E count \in Counts : FsWrite(fd, count)

FsNext == Call /\ names' = [path \in AllPaths |-> LeadsTo(part', path)]

FsSpec == FsInit /\ [][FsNext]_fsVars

-----------------------------------------------------------------------------
Dirs == {Root} \cup {SearchFile(part, path).no : path \in
            {p \in DirPaths : SearchFile(part, p).type = "directory"}}
\* The entries of an inode but for "." and "..": <<directory, place>>.
Named(no) ==
    UNION {{<<d, at>> : at \in {x \in Filled(part, d) :
                EntryAt(part, d, x).no = no /\ EntryAt(part, d, x).name \notin {".", ".."}}}
           : d \in Dirs}

\* The block bitmap marks the blocks of the files and directories there are, and
\* no block belongs to two: whatever was created, written, removed and created
\* again, nothing is lost and nothing is shared.
BlocksAgree ==
    /\ part.blocks = UNION {BlocksOf(part, no) : no \in part.inodes}
    /\ \A no, m \in part.inodes :
          no # m => BlocksOf(part, no) \cap BlocksOf(part, m) = {}

\* The inode bitmap marks the inodes that have a name, and each has one name;
\* ".." leads to the directory that has the name.
NamesAgree ==
    /\ \A no \in Inodes \ {Root} :
          Cardinality(Named(no)) = IF no \in part.inodes THEN 1 ELSE 0
    /\ \A d \in Dirs : Search(part, d, ".").no = d
    /\ \A d \in Dirs \ {Root} : \E place \in Named(d) : Search(part, d, "..").no = place[1]

\* An inode in memory is one that the bitmap marks, and agrees with the disk:
\* between two calls it may be thrown away and read again.
CachedAgree ==
    \A no \in DOMAIN part.open : no \in part.inodes /\ part.open[no].inode = part.disk[no]

\* inode.h:15 says that i_open_cnts records how often a file is open, and
\* inode.c:131 that an inode nobody has open leaves memory.
CountsAgree ==
    /\ \A slot \in DOMAIN file_table : file_table[slot].no \in DOMAIN part.open
    /\ \A no \in DOMAIN part.open \ {Root} :
          part.open[no].count = Cardinality({s \in DOMAIN file_table : file_table[s].no = no})

\* dir_read, called until it returns NULL, returns every entry of a directory
\* once, though removals have left holes in its blocks.
ListingAgrees ==
    \A d \in Dirs :
        LET all == {EntryAt(part, d, at) : at \in Filled(part, d)} IN
        /\ all = UNION {DirRead(part, d, pos) : pos \in 0..Inode(part, d).size - 1}
        /\ \A pos \in 0..Inode(part, d).size : Cardinality(DirRead(part, d, pos)) =
                IF pos < Inode(part, d).size THEN 1 ELSE 0

\* The ASSERT of dir_remove, that an empty directory has one block, never fails.
\* Nor does a removal loop for ever: only the indirect blocks of a directory are
\* searched in such a loop, which no directory here is long enough to have.
AssertsHold == failed \notin {"sectors", "loop"}

\* The partition is a tree of names that changes at one path at a time: a name is
\* made where none is, under a directory that exists, and only files and empty
\* directories are removed, whatever entries, blocks and inodes a call goes
\* through.  The path need not be the one that the call was given: sys_unlink of
\* "/f/x" with a regular file "/f" removes "/f" (see SearchFile and Unlink).
Tree == INSTANCE NameSpace WITH Paths <- AllPaths, tree <- names
ImplementsNames == Tree!TreeSpec
=============================================================================
