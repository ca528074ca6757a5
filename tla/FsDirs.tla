------------------------------- MODULE FsDirs -------------------------------
(***************************************************************************)
(* Directory handles and the working directory (fs/fs.c), together with    *)
(* the other calls of the file system.  The handle of the root is the one  *)
(* struct dir root_dir, which everybody who opens "/" shares.              *)
(***************************************************************************)
EXTENDS Fs

CONSTANTS
    OpenDirPaths,       \* bound: the paths given to sys_opendir; <<>> is "/"
    ChdirPaths,         \* bound: the paths given to sys_chdir
    HandleCount         \* bound: struct dirs of the caller

ASSUME FsDirsAssumption ==
    OpenDirPaths \cup ChdirPaths \subseteq Seq(Names) /\ HandleCount \in Nat

VARIABLES
    dirs,       \* struct dirs in use: inode number and dir_pos, in entries
    cwd         \* the caller's cwd_inode_nr

dirVars == <<fsVars, dirs, cwd>>

RootHandle == 0
Handles == 1..HandleCount

DirsInit ==
    /\ FsInit
    /\ dirs = IF <<>> \in OpenDirPaths THEN With(<<>>, RootHandle, [no |-> Root, pos |-> 0])
              ELSE <<>>
    /\ cwd = Root

\* Variant: the directory found is closed, and not its parent.
OpendirClosed(path) ==
    LET at == SearchFile(part, path)
        free == Handles \ DOMAIN dirs
    IN  /\ path # <<>> /\ free # {} /\ at.type = "directory" /\ at.depth = Len(path)
        /\ part' = DirClose(InodeOpen(DirOpen(part, at.parent), at.no), at.no)
        /\ dirs' = With(dirs, Min(free), [no |-> at.no, pos |-> 0])

\* sys_opendir of a directory; "/" returns root_dir, wherever its dir_pos is, and
\* changes nothing, so the caller has it from the start.
Opendir(path) ==
    LET at == SearchFile(part, path)
        free == Handles \ DOMAIN dirs
    IN  /\ path # <<>> /\ free # {} /\ at.type = "directory" /\ at.depth = Len(path)
        /\ part' = DirClose(InodeOpen(DirOpen(part, at.parent), at.no), at.parent)
        /\ dirs' = With(dirs, Min(free), [no |-> at.no, pos |-> 0])

\* sys_closedir; dir_close does nothing to root_dir.
Closedir(h) ==
    /\ h # RootHandle
    /\ part' = InodeClose(part, dirs[h].no)
    /\ dirs' = Restrict(dirs, DOMAIN dirs \ {h})

\* sys_readdir returns what DirRead says and moves on, or NULL at the end.
Readdir(h) ==
    /\ dirs[h].pos < Inode(part, dirs[h].no).size
    /\ dirs' = [dirs EXCEPT ![h].pos = @ + 1]
    /\ UNCHANGED part

\* sys_rewinddir
Rewinddir(h) ==
    /\ dirs' = [dirs EXCEPT ![h].pos = 0]
    /\ UNCHANGED part

\* sys_chdir; the parent directory is opened and closed again.
Chdir(path) ==
    LET at == SearchFile(part, path) IN
    /\ at.type = "directory" /\ at.depth = Len(path)
    /\ cwd' = at.no
    /\ UNCHANGED <<part, dirs>>

-----------------------------------------------------------------------------
\* Variant: the first entry is taken for the second one.
ParentFirst(no) == part.entries[BlockAt(part, no, 0)][0].no

\* get_parent_dir_inode_nr: the second entry of the first block.
ParentDir(no) == part.entries[BlockAt(part, no, 0)][1].no

\* get_child_dir_name
ChildDirName(parent, no) ==
    {EntryAt(part, parent, at).name : at \in
        {x \in Filled(part, parent) : EntryAt(part, parent, x).no = no}}

\* The walk of sys_getcwd towards the root, and the names it has met.
Up(at) ==
    IF at.no = Root THEN at
    ELSE LET parent == ParentDir(at.no)
         IN  [no |-> parent,
              paths |-> {<<name>> \o path : name \in ChildDirName(parent, at.no),
                                            path \in at.paths}]
Getcwd ==
    LET at[i \in 0..InodeCount] ==
            IF i = 0 THEN [no |-> cwd, paths |-> {<<>>}] ELSE Up(at[i - 1])
    IN  at[InodeCount]

-----------------------------------------------------------------------------
\* bound: the caller removes no directory that it works in or has open.
InPlace == /\ \A h \in DOMAIN dirs : dirs[h].no \in part'.inodes
           /\ cwd \in part'.inodes

DirCall ==
    \/ \E path \in OpenDirPaths : Opendir(path) /\ UNCHANGED cwd
    \/ \E path \in ChdirPaths : Chdir(path)
    \/ \E h \in DOMAIN dirs : /\ Closedir(h) \/ Readdir(h) \/ Rewinddir(h)
                              /\ UNCHANGED cwd

DirsNext ==
    \/ FsNext /\ InPlace /\ UNCHANGED <<dirs, cwd>>
    \/ DirCall /\ failed = "none" /\ UNCHANGED <<file_table, fd_table, failed, names>>

DirsSpec == DirsInit /\ [][DirsNext]_dirVars

-----------------------------------------------------------------------------
\* i_open_cnts counts the descriptors and the directory handles of an inode
\* (inode.h:15), and an inode nobody has open is not in memory (inode.c:131):
\* every call has closed what it opened on its way, the parent directory too.
HandlesCounted ==
    /\ \A h \in DOMAIN dirs : dirs[h].no \in DOMAIN part.open
    /\ \A slot \in DOMAIN file_table : file_table[slot].no \in DOMAIN part.open
    /\ \A no \in DOMAIN part.open \ {Root} :
          part.open[no].count =
              Cardinality({s \in DOMAIN file_table : file_table[s].no = no})
              + Cardinality({h \in DOMAIN dirs : dirs[h].no = no})

\* sys_getcwd, which climbs from inode to inode by ".." and looks for the name
\* in each parent, returns the one path that leads to the working directory,
\* whatever was created, removed and created again around it.
CwdFound ==
    \E path \in Getcwd.paths :
        /\ Getcwd.paths = {path} /\ Getcwd.no = Root
        /\ SearchFile(part, path).no = cwd /\ SearchFile(part, path).depth = Len(path)
=============================================================================
