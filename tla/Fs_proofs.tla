------------------------------ MODULE Fs_proofs ------------------------------
(***************************************************************************)
(* Proofs about Fs and FsDirs: whatever is created, written, removed and   *)
(* created again, the bitmaps, the inodes and the entries of a partition   *)
(* agree, and to the callers it is a tree of names.                        *)
(***************************************************************************)
EXTENDS FsDirs, Volume_proofs

\* inode_sync keeps the number of an inode in a uint8_t.
SmallNumbers == InodeCount <= 256

\* sync_dir_entry loses entries of a directory that outgrows its direct blocks:
\* the inodes run out before.
ShortDirs == InodeCount < Direct * PerBlock

\* sys_open of a file below the root leaves its directory open (see the run
\* fs_open_counts).
RootFiles == \A path \in OpenPaths : Len(path) = 1

\* The bounds on the paths leave none out on the way to another one.
PathsClosed == \A path \in AllPaths : Len(path) > 1 => Front(path) \in DirPaths

FsBounds == SmallNumbers /\ DirectOnly /\ ShortDirs /\ RootFiles /\ PathsClosed

-----------------------------------------------------------------------------
(* What holds of a partition between two calls.                            *)

Idx == 0..Direct - 1
Sec(p, no, k) == p.disk[no].sectors[k]

\* The entry in cell c of the kth block of an inode.
E(p, no, k, c) == IF Sec(p, no, k) = Nil THEN NoEntry ELSE p.entries[Sec(p, no, k)][c]
IsDir(p, no) == E(p, no, 0, 0).name = "."
IsNamed(p, no, k, c) == E(p, no, k, c).name \in Names
FilledAt(p, no) == {at \in Idx \X Cells : E(p, no, at[1], at[2]) # NoEntry}

\* Each block that the bitmap marks is a direct block of one inode; the free ones
\* have no entries.
Layout(p) ==
    /\ IsPart(p)
    /\ Root \in p.inodes /\ Sec(p, Root, 0) = 1
    /\ \A no \in p.inodes : Sec(p, no, Direct) = Nil
    /\ \A b \in DataBlocks :
          b \in p.blocks <=> \E no \in p.inodes, k \in Idx : Sec(p, no, k) = b
    /\ \A no, m \in p.inodes, j, k \in Idx :
          Sec(p, no, j) # Nil /\ Sec(p, no, j) = Sec(p, m, k) => no = m /\ j = k
    /\ \A b \in DataBlocks \ p.blocks, c \in Cells : p.entries[b][c] = NoEntry

\* A directory counts its entries, and each of its blocks but the first has one;
\* a file has the blocks of its size.
SizesFit(p) ==
    \A no \in p.inodes :
        IF IsDir(p, no)
        THEN /\ p.disk[no].size = Cardinality(FilledAt(p, no))
             /\ \A k \in Idx \ {0} :
                   Sec(p, no, k) # Nil => \E c \in Cells : E(p, no, k, c) # NoEntry
        ELSE /\ BlocksFit(p.disk[no].size, p.disk[no].sectors, p.blocks)
             /\ \A k \in Idx, c \in Cells : E(p, no, k, c) = NoEntry

\* Each inode but the root's has one name, in a directory; "." and ".." are the
\* first two entries of a directory and lead where they should.
NamesFit(p) ==
    /\ IsDir(p, Root) /\ E(p, Root, 0, 1).no = Root
    /\ \A d \in p.inodes : IsDir(p, d) =>
          /\ E(p, d, 0, 0) = Entry(".", d, "directory")
          /\ E(p, d, 0, 1).name = ".." /\ E(p, d, 0, 1).type = "directory"
    /\ \A d \in p.inodes, k \in Idx, c \in Cells :
          /\ E(p, d, k, c).name = "." => k = 0 /\ c = 0
          /\ E(p, d, k, c).name = ".." => k = 0 /\ c = 1
    /\ \A d \in p.inodes, k \in Idx, c \in Cells : IsNamed(p, d, k, c) =>
          /\ E(p, d, k, c).no \in p.inodes \ {Root}
          /\ E(p, d, k, c).type = "directory" <=> IsDir(p, E(p, d, k, c).no)
          /\ IsDir(p, E(p, d, k, c).no) => E(p, E(p, d, k, c).no, 0, 1).no = d
    /\ \A no \in p.inodes \ {Root} :
          \E d \in p.inodes, k \in Idx, c \in Cells :
              IsNamed(p, d, k, c) /\ E(p, d, k, c).no = no
    /\ \A d, f \in p.inodes, k, l \in Idx, c, b \in Cells :
          IsNamed(p, d, k, c) /\ IsNamed(p, f, l, b) =>
              /\ E(p, d, k, c).no = E(p, f, l, b).no => d = f /\ k = l /\ c = b
              /\ d = f /\ E(p, d, k, c).name = E(p, f, l, b).name => k = l /\ c = b

\* A path leads to each directory.
LeadsToDir(p, path, d) ==
    SearchFile(p, path).type = "directory" /\ SearchFile(p, path).no = d
Reached(p) ==
    \A d \in p.inodes : IsDir(p, d) =>
        \E path \in DirPaths \cup {<<>>} : LeadsToDir(p, path, d)

\* What is in memory is what is on the disk.
Cached(p) ==
    \A no \in DOMAIN p.open : no \in p.inodes /\ p.open[no].inode = p.disk[no]

PartFits(p) ==
    Layout(p) /\ SizesFit(p) /\ NamesFit(p) /\ Reached(p) /\ Cached(p)

Count(p, no) == IF no \in DOMAIN p.open THEN p.open[no].count ELSE 0

\* What refers to an inode in a table of files or of directory handles.
At(f, no) == {x \in DOMAIN f : f[x].no = no}

\* A file table, descriptors, directory handles and a working directory that fit
\* to a partition: i_open_cnts counts the slots and the handles.
HandlesFit(p, files, fds, handles, work) ==
    /\ Root \in DOMAIN p.open
    /\ DOMAIN files \subseteq FileSlots
    /\ files \in [DOMAIN files -> [no : Inodes, writes : BOOLEAN]]
    /\ \A slot \in DOMAIN files : ~IsDir(p, files[slot].no)
    /\ DOMAIN fds \subseteq Fds /\ fds \in [DOMAIN fds -> DOMAIN files]
    /\ \A f, g \in DOMAIN fds : fds[f] = fds[g] => f = g
    /\ DOMAIN handles \subseteq {RootHandle} \cup Handles
    /\ handles \in [DOMAIN handles -> [no : Inodes, pos : Nat]]
    /\ \A h \in DOMAIN handles :
          IsDir(p, handles[h].no) /\ (h # RootHandle => handles[h].no # Root)
    /\ work \in p.inodes /\ IsDir(p, work)
    /\ \A no \in Inodes \ {Root} :
          Count(p, no) = Cardinality(At(files, no)) + Cardinality(At(handles, no))

FsInv ==
    /\ FsTypeOK
    /\ PartFits(part)
    /\ HandlesFit(part, file_table, fd_table, dirs, cwd)
    /\ AssertsHold
    /\ names = [path \in AllPaths |-> LeadsTo(part, path)]

-----------------------------------------------------------------------------
(* Entries and where they are.                                             *)

LEMMA Sizes ==
    /\ Direct \in Nat \ {0} /\ PerBlock \in Nat /\ PerBlock >= 2
    /\ InodeCount \in Nat \ {0} /\ TableLen \in Nat \ {0} /\ LastBlock \in Nat \ {0}
    /\ Idx \subseteq Nat /\ 0 \in Idx /\ Cells \subseteq Nat /\ 0 \in Cells /\ 1 \in Cells
    /\ Inodes \subseteq Nat /\ Root \in Inodes
    /\ DataBlocks \subseteq Nat \ {0} /\ 1 \in DataBlocks /\ Nil \notin DataBlocks
    /\ Direct \in 0..Direct /\ Idx \subseteq 0..Direct /\ Direct \notin Idx
<1>1. /\ Direct \in Nat \ {0} /\ PerBlock \in Nat /\ PerBlock >= 2
      /\ InodeCount \in Nat \ {0} /\ TableLen \in Nat \ {0} /\ LastBlock \in Nat \ {0}
  BY FileBlocksAssumption, DirAssumption
<1>2. Idx \subseteq Nat /\ 0 \in Idx /\ Cells \subseteq Nat /\ 0 \in Cells /\ 1 \in Cells
  BY <1>1 DEF Idx, Cells
<1>3. Inodes \subseteq Nat /\ Root \in Inodes
  BY <1>1 DEF Inodes, Root
<1>4. DataBlocks \subseteq Nat \ {0} /\ 1 \in DataBlocks /\ Nil \notin DataBlocks
  BY <1>1 DEF DataBlocks, Nil
<1>5. Direct \in 0..Direct /\ Idx \subseteq 0..Direct /\ Direct \notin Idx
  BY <1>1 DEF Idx
<1> QED
  BY <1>1, <1>2, <1>3, <1>4, <1>5

LEMMA FiniteParts ==
    /\ IsFiniteSet(Idx) /\ IsFiniteSet(Cells) /\ IsFiniteSet(Inodes) /\ IsFiniteSet(DataBlocks)
    /\ IsFiniteSet(Idx \X Cells) /\ Cardinality(Idx \X Cells) = Direct * PerBlock
    /\ Cardinality(Inodes) = InodeCount
<1>1. /\ IsFiniteSet(Idx) /\ Cardinality(Idx) = Direct
      /\ IsFiniteSet(Cells) /\ Cardinality(Cells) = PerBlock
      /\ IsFiniteSet(Inodes) /\ Cardinality(Inodes) = InodeCount
      /\ IsFiniteSet(DataBlocks)
  <2>1. /\ 0 \in Int /\ 1 \in Int /\ Direct - 1 \in Int /\ PerBlock - 1 \in Int
        /\ InodeCount - 1 \in Int /\ LastBlock \in Int
        /\ ~(0 > Direct - 1) /\ ~(0 > PerBlock - 1) /\ ~(0 > InodeCount - 1)
        /\ Direct - 1 - 0 + 1 = Direct /\ PerBlock - 1 - 0 + 1 = PerBlock
        /\ InodeCount - 1 - 0 + 1 = InodeCount
    BY Sizes
  <2> QED
    BY <2>1, FS_Interval DEF Idx, Cells, Inodes, DataBlocks
<1>2. IsFiniteSet(Idx \X Cells) /\ Cardinality(Idx \X Cells) = Direct * PerBlock
  BY <1>1, FS_Product
<1> QED
  BY <1>1, <1>2

\* An entry is none, a name, or one of "." and "..".
LEMMA EntryKinds ==
    ASSUME NEW e \in EntryType
    PROVE  /\ e = NoEntry \/ e.name \in Names \/ e.name = "." \/ e.name = ".."
           /\ e # NoEntry <=> e.type # "unknown"
           /\ e # NoEntry <=> e.name # "/"
           /\ e # NoEntry => e.no \in Inodes /\ e.type \in {"regular", "directory"}
           /\ e.name \in Names => e # NoEntry /\ e.name \notin {"/", ".", ".."}
<1>1. CASE e = NoEntry
  BY <1>1, DirAssumption DEF NoEntry
<1>2. CASE e # NoEntry
  <2>1. /\ e.name \in Names \cup {".", ".."} /\ e.no \in Inodes
        /\ e.type \in {"regular", "directory"}
    BY <1>2 DEF EntryType
  <2> QED
    BY <1>2, <2>1, DirAssumption
<1> QED
  BY <1>1, <1>2

LEMMA EntryTyped ==
    ASSUME NEW p, IsPart(p), NEW no \in Inodes, NEW k \in Idx, NEW c \in Cells
    PROVE  Sec(p, no, k) \in DataBlocks \cup {Nil} /\ E(p, no, k, c) \in EntryType
<1>1. p.disk[no].sectors \in Sectors /\ k \in 0..Direct
  BY Sizes DEF IsPart, InodeType
<1>2. Sec(p, no, k) \in DataBlocks \cup {Nil}
  BY <1>1 DEF Sectors, Sec
<1>3. NoEntry \in EntryType
  BY DEF EntryType
<1> QED
  BY <1>2, <1>3 DEF E, IsPart

\* What search_dir_entry and dir_read look through.
LEMMA FilledIs ==
    ASSUME NEW p, IsPart(p), NEW no \in Inodes, Inode(p, no) = p.disk[no],
           Sec(p, no, Direct) = Nil
    PROVE  /\ Filled(p, no) = FilledAt(p, no)
           /\ \A k \in Idx : BlockAt(p, no, k) = Sec(p, no, k)
           /\ \A at \in FilledAt(p, no) : EntryAt(p, no, at) = E(p, no, at[1], at[2])
<1>1. Table(p, p.disk[no]) = NoTable
  BY DEF Table, Sec
<1>2. ASSUME NEW k \in 0..MaxBlocks - 1
      PROVE  BlockAt(p, no, k) = IF k \in Idx THEN Sec(p, no, k) ELSE Nil
  <2>1. BlockAt(p, no, k) = Block(p.disk[no].sectors, NoTable, k)
    BY <1>1 DEF BlockAt
  <2>2. CASE k < Direct
    BY <2>1, <2>2, Sizes DEF Block, Idx, Sec
  <2>3. CASE ~(k < Direct)
    <3>1. k - Direct \in 0..TableLen - 1 /\ k \notin Idx
      BY <2>3, Sizes DEF MaxBlocks, Idx
    <3>2. NoTable[k - Direct] = Nil
      BY <3>1 DEF NoTable
    <3> QED
      BY <2>1, <2>3, <3>1, <3>2 DEF Block
  <2> QED
    BY <2>2, <2>3
<1>3. Idx \subseteq 0..MaxBlocks - 1
  BY Sizes DEF Idx, MaxBlocks
<1>4. ASSUME NEW k \in Idx, NEW c \in Cells
      PROVE  /\ Sec(p, no, k) # Nil => p.entries[Sec(p, no, k)][c] = E(p, no, k, c)
             /\ E(p, no, k, c).type # "unknown" <=> E(p, no, k, c) # NoEntry
             /\ E(p, no, k, c) # NoEntry => Sec(p, no, k) # Nil
  BY EntryTyped, EntryKinds DEF E
<1>5. ASSUME NEW k, NEW c
      PROVE  <<k, c>> \in Filled(p, no) <=> <<k, c>> \in FilledAt(p, no)
  <2>1. <<k, c>> \in Filled(p, no) <=>
            /\ k \in 0..MaxBlocks - 1 /\ BlockAt(p, no, k) # Nil
            /\ c \in Cells /\ p.entries[BlockAt(p, no, k)][c].type # "unknown"
    BY DEF Filled
  <2>2. <<k, c>> \in FilledAt(p, no) <=> k \in Idx /\ c \in Cells /\ E(p, no, k, c) # NoEntry
    BY DEF FilledAt
  <2> QED
    BY <1>2, <1>3, <1>4, <2>1, <2>2
<1>6. /\ \A at \in Filled(p, no) : at = <<at[1], at[2]>>
      /\ \A at \in FilledAt(p, no) : at = <<at[1], at[2]>>
  BY DEF Filled, FilledAt
<1>7. Filled(p, no) = FilledAt(p, no)
  BY <1>5, <1>6
<1>8. ASSUME NEW at \in FilledAt(p, no)
      PROVE  EntryAt(p, no, at) = E(p, no, at[1], at[2])
  <2>1. at[1] \in Idx /\ at[2] \in Cells /\ E(p, no, at[1], at[2]) # NoEntry
    BY DEF FilledAt
  <2> QED
    BY <1>2, <1>3, <1>4, <2>1 DEF EntryAt
<1> QED
  BY <1>2, <1>3, <1>7, <1>8

\* search_dir_entry finds an entry of that name, if there is one.
LEMMA SearchIs ==
    ASSUME NEW p, Layout(p), Cached(p), NEW d \in p.inodes, NEW name, name # "/"
    PROVE  \/ /\ \A k \in Idx, c \in Cells : E(p, d, k, c).name # name
              /\ Search(p, d, name) = NoEntry
           \/ \E k \in Idx, c \in Cells :
                 E(p, d, k, c).name = name /\ Search(p, d, name) = E(p, d, k, c)
<1>1. IsPart(p) /\ d \in Inodes /\ Inode(p, d) = p.disk[d] /\ Sec(p, d, Direct) = Nil
  BY DEF Layout, IsPart, Cached, Inode
<1>2. /\ Filled(p, d) = FilledAt(p, d)
      /\ \A at \in FilledAt(p, d) : EntryAt(p, d, at) = E(p, d, at[1], at[2])
  BY <1>1, FilledIs
<1> DEFINE found == {at \in Filled(p, d) : EntryAt(p, d, at).name = name}
<1>3. CASE found = {}
  <2>1. ASSUME NEW k \in Idx, NEW c \in Cells, E(p, d, k, c).name = name
        PROVE  FALSE
    <3>1. E(p, d, k, c) # NoEntry
      BY <1>1, <2>1, EntryTyped, EntryKinds
    <3>2. <<k, c>> \in FilledAt(p, d)
      BY <3>1 DEF FilledAt
    <3> QED
      BY <1>2, <1>3, <2>1, <3>2
  <2>2. Search(p, d, name) = NoEntry
    BY <1>3 DEF Search
  <2> QED
    BY <2>1, <2>2
<1>4. CASE found # {}
  <2>1. PICK at \in found : Search(p, d, name) = EntryAt(p, d, at)
    BY <1>4 DEF Search
  <2>2. at \in FilledAt(p, d) /\ EntryAt(p, d, at).name = name
    BY <1>2, <2>1
  <2>3. at[1] \in Idx /\ at[2] \in Cells
    BY <2>2 DEF FilledAt
  <2> QED
    BY <1>2, <2>1, <2>2, <2>3
<1> QED
  BY <1>3, <1>4

-----------------------------------------------------------------------------
(* Paths, and where search_file gets to.                                   *)

LEMMA FrontFacts ==
    ASSUME NEW S, NEW path \in Seq(S), path # <<>>
    PROVE  /\ Len(path) \in Nat \ {0}
           /\ Front(path) \in Seq(S) /\ Len(Front(path)) = Len(path) - 1
           /\ \A i \in 1..Len(path) - 1 : Front(path)[i] = path[i]
           /\ Last(path) = path[Len(path)] /\ Last(path) \in S
<1>1. Len(path) \in Nat \ {0}
  OBVIOUS
<1>2. /\ Front(path) \in Seq(S) /\ Len(Front(path)) = Len(path) - 1
      /\ \A i \in 1..Len(path) - 1 : Front(path)[i] = path[i]
  <2>1. \A i \in 1..Len(path) - 1 : path[i] \in S
    BY <1>1
  <2>2. Front(path) = [i \in 1..Len(path) - 1 |-> path[i]]
    BY <1>1 DEF Front
  <2> QED
    BY <1>1, <2>1, <2>2
<1>3. Last(path) = path[Len(path)] /\ Last(path) \in S
  BY <1>1 DEF Last
<1> QED
  BY <1>1, <1>2, <1>3

LEMMA FrontLastSame ==
    ASSUME NEW S, NEW a \in Seq(S), NEW b \in Seq(S), a # <<>>, b # <<>>,
           Front(a) = Front(b), Last(a) = Last(b)
    PROVE  a = b
<1>1. Len(a) = Len(b) /\ Len(a) \in Nat \ {0}
  BY FrontFacts
<1>2. \A i \in 1..Len(a) : a[i] = b[i]
  <2> TAKE i \in 1..Len(a)
  <2>1. CASE i = Len(a)
    BY <1>1, <2>1, FrontFacts
  <2>2. CASE i # Len(a)
    <3>1. i \in 1..Len(a) - 1
      BY <1>1, <2>2
    <3> QED
      BY <1>1, <3>1, FrontFacts
  <2> QED
    BY <2>1, <2>2
<1> QED
  BY <1>1, <1>2

WalkStep(p, path, n, f) ==
    [i \in 0..n |-> IF i = 0 THEN AtRoot ELSE Walk(p, f[i - 1], path[i])]

LEMMA WalkExists ==
    ASSUME NEW p, NEW path, NEW n \in Nat
    PROVE  \E f : f = WalkStep(p, path, n, f)
<1> DEFINE T == {m \in Nat : ~ \E f : f = WalkStep(p, path, m, f)}
<1>1. SUFFICES ASSUME T # {} PROVE FALSE
  OBVIOUS
<1>2. PICK m \in T : \A k \in T : m <= k
  <2>1. T \subseteq Nat
    OBVIOUS
  <2> QED
    BY <1>1, <2>1, LeastNat
<1>3. m \in Nat /\ ~ \E f : f = WalkStep(p, path, m, f)
  OBVIOUS
<1>4. CASE m = 0
  <2> DEFINE f == [i \in 0..0 |-> AtRoot]
  <2>1. f = WalkStep(p, path, 0, f)
    BY DEF WalkStep
  <2> QED
    BY <1>3, <1>4, <2>1
<1>5. CASE m # 0
  <2>1. m - 1 \in Nat /\ ~(m <= m - 1)
    BY <1>3, <1>5
  <2>2. PICK f : f = WalkStep(p, path, m - 1, f)
    BY <1>2, <2>1
  <2> DEFINE g == [i \in 0..m |-> IF i = m THEN Walk(p, f[m - 1], path[m]) ELSE f[i]]
  <2>3. \A i \in 0..m - 1 :
            f[i] = IF i = 0 THEN AtRoot ELSE Walk(p, f[i - 1], path[i])
    BY <2>2 DEF WalkStep
  <2>4. \A i \in 0..m - 1 : g[i] = f[i]
    BY <1>3
  <2>5. g[m] = Walk(p, f[m - 1], path[m])
    BY <1>3
  <2>6. \A i \in 0..m : g[i] = IF i = 0 THEN AtRoot ELSE Walk(p, g[i - 1], path[i])
    <3> TAKE i \in 0..m
    <3>1. CASE i = m
      BY <1>3, <1>5, <2>1, <2>4, <2>5, <3>1
    <3>2. CASE i # m
      <4>1. i \in 0..m - 1 /\ (i # 0 => i - 1 \in 0..m - 1)
        BY <1>3, <3>2
      <4> HIDE DEF g
      <4> QED
        BY <2>3, <2>4, <4>1
    <3> QED
      BY <3>1, <3>2
  <2>7. g = WalkStep(p, path, m, g)
    <3>1. g = [i \in 0..m |-> g[i]]
      OBVIOUS
    <3> HIDE DEF g
    <3> QED
      BY <2>6, <3>1 DEF WalkStep
  <2> QED
    BY <1>3, <2>7
<1> QED
  BY <1>4, <1>5

LEMMA SearchWalk ==
    ASSUME NEW p, NEW path, Len(path) \in Nat
    PROVE  \E f : /\ f[0] = AtRoot
                  /\ \A i \in 1..Len(path) : f[i] = Walk(p, f[i - 1], path[i])
                  /\ SearchFile(p, path) = f[Len(path)]
<1> DEFINE N == Len(path)
           f == CHOOSE g : g = WalkStep(p, path, N, g)
<1>1. f = WalkStep(p, path, N, f)
  BY WalkExists
<1>2. SearchFile(p, path) = f[N]
  BY DEF SearchFile, WalkStep
<1> HIDE DEF f
<1>3. \A i \in 0..N : f[i] = IF i = 0 THEN AtRoot ELSE Walk(p, f[i - 1], path[i])
  BY <1>1 DEF WalkStep
<1>4. f[0] = AtRoot
  BY <1>3
<1>5. \A i \in 1..N : f[i] = Walk(p, f[i - 1], path[i])
  BY <1>3
<1> QED
  BY <1>2, <1>4, <1>5

LEMMA SearchRoot ==
    ASSUME NEW p
    PROVE  SearchFile(p, <<>>) = AtRoot
  BY SearchWalk

LEMMA SearchLast ==
    ASSUME NEW p, NEW S, NEW path \in Seq(S), path # <<>>
    PROVE  SearchFile(p, path) = Walk(p, SearchFile(p, Front(path)), Last(path))
<1> DEFINE n == Len(path)
<1>1. /\ n \in Nat \ {0} /\ Len(Front(path)) = n - 1
      /\ \A i \in 1..n - 1 : Front(path)[i] = path[i]
      /\ Last(path) = path[n]
  BY FrontFacts
<1> HIDE DEF n
<1>2. PICK f : /\ f[0] = AtRoot
               /\ \A i \in 1..n : f[i] = Walk(p, f[i - 1], path[i])
               /\ SearchFile(p, path) = f[n]
  BY <1>1, SearchWalk DEF n
<1>3. PICK g : /\ g[0] = AtRoot
               /\ \A i \in 1..n - 1 : g[i] = Walk(p, g[i - 1], Front(path)[i])
               /\ SearchFile(p, Front(path)) = g[n - 1]
  <2> DEFINE h == Front(path)
  <2>1. Len(h) = n - 1 /\ n - 1 \in Nat
    BY <1>1
  <2> HIDE DEF h
  <2>2. \E g : /\ g[0] = AtRoot
               /\ \A i \in 1..Len(h) : g[i] = Walk(p, g[i - 1], h[i])
               /\ SearchFile(p, h) = g[Len(h)]
    BY <2>1, SearchWalk
  <2> QED
    BY <2>1, <2>2 DEF h
<1>4. \A i \in 0..n - 1 : f[i] = g[i]
  <2> DEFINE T == {i \in 0..n - 1 : f[i] # g[i]}
  <2>1. SUFFICES ASSUME T # {} PROVE FALSE
    OBVIOUS
  <2>2. T \subseteq Nat
    OBVIOUS
  <2>3. PICK i \in T : \A j \in T : i <= j
    BY <2>1, <2>2, LeastNat
  <2>4. i \in 1..n - 1 /\ i - 1 \in 0..n - 1 /\ ~(i <= i - 1)
    BY <1>1, <1>2, <1>3, <2>3
  <2>5. f[i - 1] = g[i - 1]
    BY <2>3, <2>4
  <2>6. f[i] = Walk(p, f[i - 1], path[i]) /\ g[i] = Walk(p, g[i - 1], path[i])
    BY <1>1, <1>2, <1>3, <2>4
  <2> QED
    BY <2>3, <2>5, <2>6
<1>5. n \in 1..n /\ n - 1 \in 0..n - 1
  BY <1>1
<1> QED
  BY <1>1, <1>2, <1>3, <1>4, <1>5

\* What a walk needs.
Readable(p) == Layout(p) /\ Cached(p) /\ NamesFit(p)

AtFits(p, path, at) ==
    /\ at.type \in {"directory", "regular", "unknown"}
    /\ at.depth \in 0..Len(path)
    /\ at.parent \in p.inodes /\ IsDir(p, at.parent)
    /\ at.type = "directory" => at.no \in p.inodes /\ IsDir(p, at.no) /\ at.depth = Len(path)
    /\ at.type = "regular" => at.no \in p.inodes \ {Root} /\ ~IsDir(p, at.no)

\* One name further from directory d.
OneFurther(p, d, name, at) ==
    /\ at.parent = d
    /\ \/ /\ at.type = "unknown"
          /\ \A k \in Idx, c \in Cells : E(p, d, k, c).name # name
       \/ /\ at.type \in {"directory", "regular"}
          /\ at.no \in p.inodes \ {Root}
          /\ at.type = "directory" <=> IsDir(p, at.no)
          /\ \E k \in Idx, c \in Cells : E(p, d, k, c) = Entry(name, at.no, at.type)

\* The parts of NamesFit that speak of entries.
LEMMA NameLeads ==
    ASSUME NEW p, NamesFit(p), NEW d \in p.inodes, NEW k \in Idx, NEW c \in Cells,
           IsNamed(p, d, k, c)
    PROVE  /\ E(p, d, k, c).no \in p.inodes \ {Root}
           /\ E(p, d, k, c).type = "directory" <=> IsDir(p, E(p, d, k, c).no)
           /\ IsDir(p, E(p, d, k, c).no) => E(p, E(p, d, k, c).no, 0, 1).no = d
  BY DEF NamesFit

LEMMA NameOnce ==
    ASSUME NEW p, NamesFit(p), NEW d \in p.inodes, NEW k \in Idx, NEW c \in Cells,
           NEW f \in p.inodes, NEW l \in Idx, NEW b \in Cells,
           IsNamed(p, d, k, c), IsNamed(p, f, l, b)
    PROVE  /\ E(p, d, k, c).no = E(p, f, l, b).no => d = f /\ k = l /\ c = b
           /\ d = f /\ E(p, d, k, c).name = E(p, f, l, b).name => k = l /\ c = b
  BY DEF NamesFit

LEMMA WalkOne ==
    ASSUME NEW p, Readable(p), NEW at, at.type = "directory", at.no \in p.inodes,
           NEW name \in Names
    PROVE  /\ OneFurther(p, at.no, name, Walk(p, at, name))
           /\ Walk(p, at, name).depth = at.depth + 1
<1> DEFINE w == Walk(p, at, name)
           d == at.no
           e == Search(p, d, name)
<1>1. name # "/" /\ Layout(p) /\ Cached(p) /\ NamesFit(p) /\ IsPart(p) /\ d \in Inodes
  BY DirAssumption DEF Readable, Layout, IsPart
<1>2. w = [no |-> e.no, type |-> e.type, parent |-> d, depth |-> at.depth + 1]
  BY DEF Walk
<1>3. w.no = e.no /\ w.type = e.type /\ w.parent = d /\ w.depth = at.depth + 1
  BY <1>2
<1> HIDE DEF w, e
<1>4. \/ /\ \A k \in Idx, c \in Cells : E(p, d, k, c).name # name
         /\ e = NoEntry
      \/ \E k \in Idx, c \in Cells : E(p, d, k, c).name = name /\ e = E(p, d, k, c)
  <2>1. d \in p.inodes
    OBVIOUS
  <2> HIDE DEF d
  <2> QED
    BY <1>1, <2>1, SearchIs DEF e
<1> HIDE DEF d
<1>5. CASE e = NoEntry /\ \A k \in Idx, c \in Cells : E(p, d, k, c).name # name
  <2>1. e.type = "unknown"
    BY <1>5 DEF NoEntry
  <2> QED
    BY <1>3, <1>5, <2>1 DEF w, d, OneFurther
<1>6. ASSUME NEW k \in Idx, NEW c \in Cells, E(p, d, k, c).name = name, e = E(p, d, k, c)
      PROVE  OneFurther(p, d, name, w)
  <2>1. e \in EntryType
    BY <1>1, <1>6, EntryTyped
  <2>2. e # NoEntry
    BY <1>6, <2>1, EntryKinds
  <2>3. /\ e = Entry(name, e.no, e.type) /\ e.type \in {"directory", "regular"}
    BY <1>6, <2>1, <2>2 DEF EntryType, Entry
  <2>4. IsNamed(p, d, k, c) /\ d \in p.inodes
    BY <1>6 DEF IsNamed, d
  <2>5. e.no \in p.inodes \ {Root} /\ (e.type = "directory" <=> IsDir(p, e.no))
    BY <1>1, <1>6, <2>4, NameLeads
  <2> QED
    BY <1>3, <1>6, <2>3, <2>5 DEF OneFurther
<1> QED
  BY <1>3, <1>4, <1>5, <1>6 DEF w, d

LEMMA RootFits ==
    ASSUME NEW p, Readable(p)
    PROVE  AtFits(p, <<>>, AtRoot)
<1>1. Len(<<>>) = 0 /\ 0 \in 0..0
  OBVIOUS
<1>2. Root \in p.inodes /\ IsDir(p, Root)
  BY DEF Readable, Layout, NamesFit
<1> QED
  BY <1>1, <1>2 DEF AtFits, AtRoot

\* Where the walk along a path ends.
LEMMA SearchFits ==
    ASSUME NEW p, Readable(p), NEW path \in Seq(Names)
    PROVE  AtFits(p, path, SearchFile(p, path))
<1> DEFINE T == {n \in Nat : \E a \in Seq(Names) :
                     Len(a) = n /\ ~ AtFits(p, a, SearchFile(p, a))}
<1>1. SUFFICES ASSUME T # {} PROVE FALSE
  <2>1. Len(path) \in Nat
    OBVIOUS
  <2> QED
    BY <1>1, <2>1
<1>2. PICK n \in T : \A m \in T : n <= m
  <2>1. T \subseteq Nat
    OBVIOUS
  <2> QED
    BY <1>1, <2>1, LeastNat
<1>3. PICK a \in Seq(Names) : Len(a) = n /\ ~ AtFits(p, a, SearchFile(p, a))
  OBVIOUS
<1>4. a # <<>>
  BY <1>3, RootFits, SearchRoot
<1> DEFINE f == Front(a)
           x == Last(a)
           up == SearchFile(p, f)
<1>5. f \in Seq(Names) /\ Len(f) = Len(a) - 1 /\ x \in Names /\ Len(a) \in Nat \ {0}
  BY <1>4, FrontFacts
<1>6. SearchFile(p, a) = Walk(p, up, x)
  BY <1>4, SearchLast
<1> HIDE DEF f, x, up
<1>7. AtFits(p, f, up)
  <2>1. Len(f) \in Nat /\ ~(n <= Len(f))
    BY <1>3, <1>5
  <2> QED
    BY <1>2, <1>5, <2>1 DEF up
<1>8. CASE up.type = "directory"
  <2>1. /\ OneFurther(p, up.no, x, Walk(p, up, x))
        /\ Walk(p, up, x).depth = up.depth + 1
    BY <1>5, <1>7, <1>8, WalkOne DEF AtFits
  <2>2. up.depth = Len(a) - 1 /\ up.no \in p.inodes /\ IsDir(p, up.no)
    BY <1>5, <1>7, <1>8 DEF AtFits
  <2>3. Walk(p, up, x).depth = Len(a) /\ Len(a) \in 0..Len(a)
    BY <1>5, <2>1, <2>2
  <2>4. AtFits(p, a, Walk(p, up, x))
    BY <2>1, <2>2, <2>3 DEF AtFits, OneFurther
  <2> QED
    BY <1>3, <1>6, <2>4
<1>9. CASE up.type # "directory"
  <2>1. Walk(p, up, x) = up
    BY <1>9 DEF Walk
  <2>2. up.depth \in 0..Len(a)
    BY <1>5, <1>7 DEF AtFits
  <2>3. AtFits(p, a, up)
    BY <1>7, <1>9, <2>2 DEF AtFits
  <2> QED
    BY <1>3, <1>6, <2>1, <2>3
<1> QED
  BY <1>8, <1>9

\* A walk that has gone through all names ends one name beyond a directory.
LEMMA SearchWhole ==
    ASSUME NEW p, Readable(p), NEW path \in Seq(Names), path # <<>>,
           SearchFile(p, path).depth = Len(path)
    PROVE  /\ LeadsToDir(p, Front(path), SearchFile(p, path).parent)
           /\ OneFurther(p, SearchFile(p, path).parent, Last(path), SearchFile(p, path))
<1> DEFINE f == Front(path)
           x == Last(path)
           up == SearchFile(p, f)
           at == SearchFile(p, path)
<1>1. f \in Seq(Names) /\ Len(f) = Len(path) - 1 /\ x \in Names /\ Len(path) \in Nat
  BY FrontFacts
<1>2. at = Walk(p, up, x)
  BY SearchLast
<1>3. AtFits(p, f, up) /\ at.depth = Len(path)
  BY <1>1, SearchFits
<1> HIDE DEF f, x, up, at
<1>4. CASE up.type = "directory"
  <2>1. OneFurther(p, up.no, x, at)
    BY <1>1, <1>2, <1>3, <1>4, WalkOne DEF AtFits
  <2>2. at.parent = up.no
    BY <2>1 DEF OneFurther
  <2> QED
    BY <1>4, <2>1, <2>2 DEF f, x, up, at, LeadsToDir
<1>5. CASE up.type # "directory"
  <2>1. at = up /\ up.depth \in 0..Len(f)
    BY <1>2, <1>3, <1>5 DEF Walk, AtFits
  <2> QED
    BY <1>1, <1>3, <2>1
<1> QED
  BY <1>4, <1>5

\* The path leads to a file or a directory.
Leads(p, path) ==
    SearchFile(p, path).type # "unknown" /\ SearchFile(p, path).depth = Len(path)

LEMMA DirLeads ==
    ASSUME NEW p, Readable(p), NEW path \in Seq(Names), NEW d, LeadsToDir(p, path, d)
    PROVE  /\ Leads(p, path) /\ SearchFile(p, path).no = d
           /\ d \in p.inodes /\ IsDir(p, d)
  BY SearchFits DEF LeadsToDir, Leads, AtFits

\* The root's is the empty path.
LEMMA RootPath ==
    ASSUME NEW p, Readable(p), NEW path \in Seq(Names), Leads(p, path)
    PROVE  SearchFile(p, path).no = Root <=> path = <<>>
<1>1. CASE path = <<>>
  BY <1>1, SearchRoot DEF AtRoot
<1>2. CASE path # <<>>
  BY <1>2, SearchWhole DEF Leads, OneFurther
<1> QED
  BY <1>1, <1>2

\* One path leads to each inode.
LEMMA PathUnique ==
    ASSUME NEW p, Readable(p), NEW a \in Seq(Names), NEW b \in Seq(Names),
           Leads(p, a), Leads(p, b), SearchFile(p, a).no = SearchFile(p, b).no
    PROVE  a = b
<1> DEFINE Twice(x, y) == /\ Leads(p, x) /\ Leads(p, y)
                          /\ SearchFile(p, x).no = SearchFile(p, y).no /\ x # y
           T == {n \in Nat : \E x, y \in Seq(Names) : Len(x) = n /\ Twice(x, y)}
<1>1. SUFFICES ASSUME T # {} PROVE FALSE
  <2>1. Len(a) \in Nat
    OBVIOUS
  <2> QED
    BY <1>1, <2>1
<1>2. PICK n \in T : \A m \in T : n <= m
  <2>1. T \subseteq Nat
    OBVIOUS
  <2> QED
    BY <1>1, <2>1, LeastNat
<1>3. PICK x \in Seq(Names), y \in Seq(Names) : Len(x) = n /\ Twice(x, y)
  OBVIOUS
<1>4. x # <<>> /\ y # <<>>
  BY <1>3, RootPath
<1> DEFINE dx == SearchFile(p, x).parent
           dy == SearchFile(p, y).parent
           no == SearchFile(p, x).no
<1>5. /\ LeadsToDir(p, Front(x), dx) /\ OneFurther(p, dx, Last(x), SearchFile(p, x))
      /\ LeadsToDir(p, Front(y), dy) /\ OneFurther(p, dy, Last(y), SearchFile(p, y))
  BY <1>3, <1>4, SearchWhole DEF Leads
<1>6. /\ Front(x) \in Seq(Names) /\ Len(Front(x)) = Len(x) - 1 /\ Last(x) \in Names
      /\ Front(y) \in Seq(Names) /\ Last(y) \in Names /\ Len(x) \in Nat \ {0}
  BY <1>4, FrontFacts
<1> HIDE DEF dx, dy, no
<1>7. PICK k \in Idx, c \in Cells : E(p, dx, k, c) = Entry(Last(x), no, SearchFile(p, x).type)
  BY <1>3, <1>5 DEF OneFurther, Leads, no
<1>8. PICK l \in Idx, b2 \in Cells : E(p, dy, l, b2) = Entry(Last(y), no, SearchFile(p, y).type)
  BY <1>3, <1>5 DEF OneFurther, Leads, no
<1>9. /\ IsNamed(p, dx, k, c) /\ E(p, dx, k, c).no = no /\ E(p, dx, k, c).name = Last(x)
      /\ IsNamed(p, dy, l, b2) /\ E(p, dy, l, b2).no = no /\ E(p, dy, l, b2).name = Last(y)
  BY <1>6, <1>7, <1>8 DEF IsNamed, Entry
<1>10. /\ Leads(p, Front(x)) /\ SearchFile(p, Front(x)).no = dx /\ dx \in p.inodes
       /\ Leads(p, Front(y)) /\ SearchFile(p, Front(y)).no = dy /\ dy \in p.inodes
  BY <1>5, <1>6, DirLeads
<1>11. dx = dy /\ k = l /\ c = b2
  BY <1>9, <1>10 DEF Readable, NamesFit
<1>12. Last(x) = Last(y)
  BY <1>9, <1>11
<1>13. Front(x) = Front(y)
  <2>1. Len(Front(x)) \in Nat /\ ~(n <= Len(Front(x)))
    BY <1>3, <1>6
  <2>2. ~Twice(Front(x), Front(y))
    BY <1>2, <1>6, <2>1
  <2> QED
    BY <1>10, <1>11, <2>2
<1> QED
  BY <1>3, <1>4, <1>12, <1>13, FrontLastSame

-----------------------------------------------------------------------------
(* q is p with one more inode, whose name is the entry e in directory d: what a *)
(* creation does, and backwards a removal.                                 *)

NewEntry(e, d, k, c) ==
    IF e.type = "directory" /\ k = 0 /\ c = 0 THEN Entry(".", e.no, "directory")
    ELSE IF e.type = "directory" /\ k = 0 /\ c = 1 THEN Entry("..", d, "directory")
    ELSE NoEntry

Grown(p, q, d, e, k0, c0) ==
    /\ d \in p.inodes /\ IsDir(p, d)
    /\ e.no \notin p.inodes /\ q.inodes = p.inodes \cup {e.no}
    /\ e.name \in Names /\ e.type \in {"directory", "regular"}
    /\ k0 \in Idx /\ c0 \in Cells
    /\ E(p, d, k0, c0) = NoEntry /\ E(q, d, k0, c0) = e
    /\ \A no \in p.inodes, k \in Idx, c \in Cells :
          ~(no = d /\ k = k0 /\ c = c0) => E(q, no, k, c) = E(p, no, k, c)
    /\ \A k \in Idx, c \in Cells : E(q, e.no, k, c) = NewEntry(e, d, k, c)

LEMMA PairSize ==
    ASSUME NEW a, NEW b, a # b
    PROVE  IsFiniteSet({a, b}) /\ Cardinality({a, b}) = 2
<1> DEFINE S == {a}
<1>1. IsFiniteSet(S) /\ Cardinality(S) = 1
  BY FS_Singleton
<1>2. b \notin S /\ {a, b} = S \cup {b}
  OBVIOUS
<1> HIDE DEF S
<1> QED
  BY <1>1, <1>2, FS_AddElement

LEMMA NoEntryName ==
    NoEntry.name = "/" /\ NoEntry.type = "unknown" /\ NoEntry.name \notin Names
  BY DirAssumption DEF NoEntry

LEMMA NoDots ==
    "/" \notin Names /\ "." \notin Names /\ ".." \notin Names
<1>1. "/" \in {"/", ".", ".."} /\ "." \in {"/", ".", ".."} /\ ".." \in {"/", ".", ".."}
  OBVIOUS
<1> QED
  BY <1>1, DirAssumption, Zenon

LEMMA NewEntryName ==
    ASSUME NEW e, NEW d, NEW k, NEW c
    PROVE  /\ NewEntry(e, d, k, c).name = "/" \/ NewEntry(e, d, k, c).name = "."
              \/ NewEntry(e, d, k, c).name = ".."
           /\ NewEntry(e, d, k, c).name \notin Names
           /\ NewEntry(e, d, k, c).name = "." => k = 0 /\ c = 0
           /\ NewEntry(e, d, k, c).name = ".." => k = 0 /\ c = 1
           /\ NewEntry(e, d, 0, 0).name = "." <=> e.type = "directory"
<1> DEFINE n == NewEntry(e, d, k, c)
<1>1. CASE e.type = "directory" /\ k = 0 /\ c = 0
  <2>1. n = Entry(".", e.no, "directory")
    BY <1>1 DEF NewEntry
  <2> QED
    BY <1>1, <2>1, NoDots DEF Entry
<1>2. CASE e.type = "directory" /\ k = 0 /\ c = 1
  <2>1. n = Entry("..", d, "directory") /\ NewEntry(e, d, 0, 0) = Entry(".", e.no, "directory")
    BY <1>2 DEF NewEntry
  <2> QED
    BY <1>2, <2>1, NoDots DEF Entry
<1>3. CASE ~(e.type = "directory" /\ k = 0 /\ (c = 0 \/ c = 1))
  <2>1. n = NoEntry
    BY <1>3 DEF NewEntry
  <2>2. NewEntry(e, d, 0, 0).name = "." <=> e.type = "directory"
    <3>1. CASE e.type = "directory"
      BY <3>1 DEF NewEntry, Entry
    <3>2. CASE e.type # "directory"
      BY <3>2, NoEntryName DEF NewEntry
    <3> QED
      BY <3>1, <3>2
  <2> QED
    BY <2>1, <2>2, NoEntryName
<1> QED
  BY <1>1, <1>2, <1>3

LEMMA GrownDirs ==
    ASSUME NEW p, NEW q, NEW d, NEW e, NEW k0, NEW c0, Grown(p, q, d, e, k0, c0)
    PROVE  /\ \A no \in p.inodes : IsDir(q, no) <=> IsDir(p, no)
           /\ IsDir(q, e.no) <=> e.type = "directory"
<1>1. 0 \in Idx /\ 0 \in Cells
  BY Sizes
<1>2. ~(k0 = 0 /\ c0 = 0)
  BY NoEntryName DEF Grown, IsDir
<1>3. \A no \in p.inodes : IsDir(q, no) <=> IsDir(p, no)
  BY <1>1, <1>2 DEF Grown, IsDir
<1>4. IsDir(q, e.no) <=> e.type = "directory"
  <2>1. E(q, e.no, 0, 0) = NewEntry(e, d, 0, 0)
    BY <1>1 DEF Grown
  <2> QED
    BY <2>1, NewEntryName DEF IsDir
<1> QED
  BY <1>3, <1>4

LEMMA GrownSearch ==
    ASSUME NEW p, NEW q, NEW d, NEW e, NEW k0, NEW c0, Grown(p, q, d, e, k0, c0),
           Readable(p), Readable(q),
           NEW m \in p.inodes, NEW x \in Names, ~(m = d /\ x = e.name)
    PROVE  Search(q, m, x) = Search(p, m, x)
<1>1. /\ m \in q.inodes /\ x # "/" /\ x # NoEntry.name
      /\ Layout(p) /\ Cached(p) /\ Layout(q) /\ Cached(q)
  BY DirAssumption, NoEntryName DEF Readable, Grown
<1>2. \/ /\ \A k \in Idx, c \in Cells : E(p, m, k, c).name # x
         /\ Search(p, m, x) = NoEntry
      \/ \E k \in Idx, c \in Cells : E(p, m, k, c).name = x /\ Search(p, m, x) = E(p, m, k, c)
  BY <1>1, SearchIs
<1>3. \/ /\ \A k \in Idx, c \in Cells : E(q, m, k, c).name # x
         /\ Search(q, m, x) = NoEntry
      \/ \E k \in Idx, c \in Cells : E(q, m, k, c).name = x /\ Search(q, m, x) = E(q, m, k, c)
  BY <1>1, SearchIs
<1>4. ASSUME NEW k \in Idx, NEW c \in Cells
      PROVE  /\ E(p, m, k, c).name = x => E(q, m, k, c) = E(p, m, k, c)
             /\ E(q, m, k, c).name = x => E(q, m, k, c) = E(p, m, k, c)
  BY <1>1 DEF Grown
<1>5. ASSUME NEW k \in Idx, NEW c \in Cells, E(q, m, k, c).name = x,
             NEW l \in Idx, NEW b \in Cells, E(q, m, l, b).name = x
      PROVE  E(q, m, k, c) = E(q, m, l, b)
  <2>1. IsNamed(q, m, k, c) /\ IsNamed(q, m, l, b) /\ NamesFit(q)
    BY <1>5 DEF IsNamed, Readable
  <2> QED
    BY <1>1, <1>5, <2>1, NameOnce
<1> QED
  BY <1>2, <1>3, <1>4, <1>5

\* t is the path of the new inode: a walk that does not come by it goes on as before.
WalksAs(p, q, e, t, a) ==
    \/ SearchFile(q, a) = SearchFile(p, a)
    \/ /\ SearchFile(p, a).type = "unknown"
       /\ SearchFile(p, a).depth = Len(a) => a = t
       /\ IF a = t
          THEN /\ SearchFile(q, a).type = e.type /\ SearchFile(q, a).no = e.no
               /\ SearchFile(q, a).depth = Len(a)
          ELSE /\ SearchFile(q, a).type # "directory"
               /\ ~Leads(q, a)

LEMMA GrownWalk ==
    ASSUME NEW p, NEW q, NEW d, NEW e, NEW k0, NEW c0, Grown(p, q, d, e, k0, c0),
           Readable(p), Readable(q),
           NEW t \in Seq(Names), t # <<>>, LeadsToDir(p, Front(t), d), Last(t) = e.name,
           \A k \in Idx, c \in Cells : E(p, d, k, c).name # e.name,
           NEW path \in Seq(Names)
    PROVE  WalksAs(p, q, e, t, path)
<1> DEFINE T == {n \in Nat : \E a \in Seq(Names) : Len(a) = n /\ ~WalksAs(p, q, e, t, a)}
<1>1. SUFFICES ASSUME T # {} PROVE FALSE
  <2>1. Len(path) \in Nat
    OBVIOUS
  <2> QED
    BY <1>1, <2>1
<1>2. PICK n \in T : \A m \in T : n <= m
  <2>1. T \subseteq Nat
    OBVIOUS
  <2> QED
    BY <1>1, <2>1, LeastNat
<1>3. PICK a \in Seq(Names) : Len(a) = n /\ ~WalksAs(p, q, e, t, a)
  OBVIOUS
<1>4. a # <<>>
  BY <1>3, SearchRoot DEF WalksAs
<1> DEFINE f == Front(a)
           x == Last(a)
           pf == SearchFile(p, f)
           qf == SearchFile(q, f)
           pa == SearchFile(p, a)
           qa == SearchFile(q, a)
<1>5. /\ f \in Seq(Names) /\ Len(f) = Len(a) - 1 /\ x \in Names /\ Len(a) \in Nat \ {0}
      /\ Front(t) \in Seq(Names)
  BY <1>4, FrontFacts
<1>6. pa = Walk(p, pf, x) /\ qa = Walk(q, qf, x)
  BY <1>4, SearchLast
<1>7. WalksAs(p, q, e, t, f)
  <2>1. Len(f) \in Nat /\ ~(n <= Len(f))
    BY <1>3, <1>5
  <2> QED
    BY <1>2, <1>5, <2>1
<1>8. AtFits(p, f, pf) /\ AtFits(q, f, qf)
  BY <1>5, SearchFits
<1>9. a = t => f = Front(t)
  OBVIOUS
<1>10. Front(t) = f /\ Last(t) = x => a = t
  BY <1>4, <1>5, FrontLastSame
<1> HIDE DEF f, x, pf, qf, pa, qa
<1>11. CASE qf = pf
  <2>1. CASE pf.type # "directory"
    BY <1>3, <1>6, <1>11, <2>1 DEF Walk, WalksAs, pa, qa
  <2>2. CASE pf.type = "directory" /\ ~(pf.no = d /\ x = e.name)
    <3>1. Search(q, pf.no, x) = Search(p, pf.no, x)
      BY <1>5, <1>8, <2>2, GrownSearch DEF AtFits
    <3> QED
      BY <1>3, <1>6, <1>11, <2>2, <3>1 DEF Walk, WalksAs, pa, qa
  <2>3. CASE pf.type = "directory" /\ pf.no = d /\ x = e.name
    <3>1. a = t
      <4>1. LeadsToDir(p, f, d)
        BY <2>3 DEF LeadsToDir, pf
      <4>2. Leads(p, f) /\ Leads(p, Front(t)) /\ SearchFile(p, f).no = SearchFile(p, Front(t)).no
        BY <1>5, <4>1, DirLeads
      <4> QED
        BY <1>5, <1>10, <2>3, <4>2, PathUnique
    <3>2. OneFurther(p, d, x, pa) /\ pa.depth = pf.depth + 1
      BY <1>5, <1>6, <1>8, <2>3, WalkOne DEF AtFits
    <3>3. OneFurther(q, d, x, qa) /\ qa.depth = pf.depth + 1
      BY <1>5, <1>6, <1>8, <1>11, <2>3, WalkOne DEF AtFits
    <3>4. pf.depth = Len(a) - 1
      BY <1>5, <1>8, <2>3 DEF AtFits
    <3>5. pa.type = "unknown"
      <4>1. ~ \E k \in Idx, c \in Cells : E(p, d, k, c) = Entry(x, pa.no, pa.type)
        BY <2>3 DEF Entry
      <4> QED
        BY <3>2, <4>1 DEF OneFurther
    <3>6. PICK k \in Idx, c \in Cells : E(q, d, k, c) = Entry(x, qa.no, qa.type)
      <4>1. ~ \A k \in Idx, c \in Cells : E(q, d, k, c).name # x
        BY <2>3 DEF Grown
      <4> QED
        BY <3>3, <4>1 DEF OneFurther
    <3>7. k = k0 /\ c = c0
      <4>1. E(q, d, k, c).name = e.name
        BY <2>3, <3>6 DEF Entry
      <4> QED
        BY <4>1 DEF Grown
    <3>8. qa.no = e.no /\ qa.type = e.type
      BY <3>6, <3>7 DEF Grown, Entry
    <3>9. qa.depth = Len(a)
      BY <1>5, <3>3, <3>4
    <3> QED
      BY <1>3, <3>1, <3>5, <3>8, <3>9 DEF WalksAs, pa, qa
  <2> QED
    BY <2>1, <2>2, <2>3
<1>12. CASE qf # pf
  <2>1. pf.type = "unknown"
    BY <1>7, <1>12 DEF WalksAs, pf, qf
  <2>2. pa = pf /\ pa.type = "unknown" /\ pa.depth # Len(a)
    BY <1>5, <1>6, <1>8, <2>1 DEF Walk, AtFits
  <2>3. a # t
    BY <1>9, <2>1 DEF LeadsToDir, pf
  <2>4. CASE qf.type # "directory"
    <3>1. qa = qf /\ qa.depth # Len(a)
      BY <1>5, <1>6, <1>8, <2>4 DEF Walk, AtFits
    <3> QED
      BY <1>3, <2>2, <2>3, <2>4, <3>1 DEF WalksAs, Leads, pa, qa
  <2>5. CASE qf.type = "directory"
    <3>1. qf.no = e.no /\ e.type = "directory"
      BY <1>7, <1>12, <2>5 DEF WalksAs, pf, qf
    <3>2. OneFurther(q, e.no, x, qa)
      BY <1>5, <1>6, <1>8, <2>5, <3>1, WalkOne DEF AtFits
    <3>3. ASSUME NEW k \in Idx, NEW c \in Cells
          PROVE  E(q, e.no, k, c).name # x
      <4>1. E(q, e.no, k, c) = NewEntry(e, d, k, c)
        BY DEF Grown
      <4>2. E(q, e.no, k, c).name \notin Names
        BY <4>1, NewEntryName
      <4> QED
        BY <1>5, <4>2
    <3>4. ~ \E k \in Idx, c \in Cells : E(q, e.no, k, c) = Entry(x, qa.no, qa.type)
      BY <3>3 DEF Entry
    <3>5. qa.type = "unknown"
      BY <3>2, <3>4 DEF OneFurther
    <3> QED
      BY <1>3, <2>2, <2>3, <3>5 DEF WalksAs, Leads, pa, qa
  <2> QED
    BY <2>4, <2>5
<1> QED
  BY <1>11, <1>12

\* The path of the new inode leads nowhere before, and every other one to where it
\* led before.
LEMMA GrownPaths ==
    ASSUME NEW p, NEW q, NEW d, NEW e, NEW k0, NEW c0, Grown(p, q, d, e, k0, c0),
           Readable(p), Readable(q),
           NEW t \in Seq(Names), t # <<>>, LeadsToDir(p, Front(t), d), Last(t) = e.name,
           \A k \in Idx, c \in Cells : E(p, d, k, c).name # e.name
    PROVE  /\ SearchFile(p, t).type = "unknown" /\ LeadsTo(p, t) = "none"
           /\ SearchFile(q, t).no = e.no /\ SearchFile(q, t).type = e.type
           /\ LeadsTo(q, t) = e.type
           /\ \A path \in Seq(Names) : path # t =>
                 /\ LeadsTo(q, path) = LeadsTo(p, path)
                 /\ \A n : LeadsToDir(q, path, n) <=> LeadsToDir(p, path, n)
<1> DEFINE f == Front(t)
           x == Last(t)
           pf == SearchFile(p, f)
           pa == SearchFile(p, t)
           qa == SearchFile(q, t)
<1>1. f \in Seq(Names) /\ x \in Names /\ x = e.name
  BY FrontFacts
<1>2. pa = Walk(p, pf, x) /\ AtFits(p, f, pf) /\ pf.type = "directory" /\ pf.no = d
  BY <1>1, SearchLast, SearchFits DEF LeadsToDir
<1> HIDE DEF f, x, pf, qa, pa
<1>3. OneFurther(p, d, x, pa)
  BY <1>1, <1>2, WalkOne DEF AtFits
<1>4. pa.type = "unknown"
  <2>1. ~ \E k \in Idx, c \in Cells : E(p, d, k, c) = Entry(x, pa.no, pa.type)
    BY <1>1 DEF Entry
  <2> QED
    BY <1>3, <2>1 DEF OneFurther
<1>5. qa.type = e.type /\ qa.no = e.no /\ qa.depth = Len(t)
  <2>1. WalksAs(p, q, e, t, t)
    BY GrownWalk
  <2>2. CASE qa # pa
    BY <2>1, <2>2 DEF WalksAs, pa, qa
  <2>3. CASE qa = pa
    <3>1. ~ WalksAs(p, q, e, t, t) \/ TRUE
      OBVIOUS
    <3>2. LeadsToDir(q, f, d)
      <4>1. WalksAs(p, q, e, t, f)
        BY <1>1, GrownWalk
      <4> QED
        BY <1>2, <4>1 DEF WalksAs, LeadsToDir, pf
    <3>3. AtFits(q, f, SearchFile(q, f)) /\ qa = Walk(q, SearchFile(q, f), x)
      BY <1>1, SearchFits, SearchLast DEF qa, f, x
    <3>4. OneFurther(q, d, x, qa)
      BY <1>1, <3>2, <3>3, WalkOne DEF AtFits, LeadsToDir
    <3>5. ~ \A k \in Idx, c \in Cells : E(q, d, k, c).name # x
      BY <1>1 DEF Grown
    <3>6. qa.type # "unknown"
      BY <3>4, <3>5 DEF OneFurther
    <3> QED
      BY <1>4, <2>3, <3>6
  <2> QED
    BY <2>2, <2>3
<1>6. ASSUME NEW path \in Seq(Names), path # t
      PROVE  /\ LeadsTo(q, path) = LeadsTo(p, path)
             /\ \A n : LeadsToDir(q, path, n) <=> LeadsToDir(p, path, n)
  <2>1. WalksAs(p, q, e, t, path)
    BY GrownWalk
  <2>2. CASE SearchFile(q, path) = SearchFile(p, path)
    BY <2>2 DEF LeadsTo, LeadsToDir
  <2>3. CASE SearchFile(q, path) # SearchFile(p, path)
    BY <1>6, <2>1, <2>3 DEF WalksAs, LeadsTo, LeadsToDir, Leads
  <2> QED
    BY <2>2, <2>3
<1>7. LeadsTo(p, t) = "none"
  BY <1>4 DEF LeadsTo, pa
<1>8. LeadsTo(q, t) = e.type
  <2>1. e.type # "unknown"
    BY DEF Grown
  <2> QED
    BY <1>5, <2>1 DEF LeadsTo, qa
<1> QED
  BY <1>4, <1>5, <1>6, <1>7, <1>8 DEF pa, qa

LEMMA PathsOfNames ==
    /\ AllPaths \subseteq Seq(Names) \ {<<>>} /\ OpenPaths \subseteq Seq(Names) \ {<<>>}
    /\ FilePaths \subseteq AllPaths /\ DirPaths \subseteq AllPaths
    /\ OpenDirPaths \subseteq Seq(Names) /\ ChdirPaths \subseteq Seq(Names)
  BY FsAssumption, FsDirsAssumption DEF AllPaths

LEMMA GrownReached ==
    ASSUME NEW p, NEW q, NEW d, NEW e, NEW k0, NEW c0, Grown(p, q, d, e, k0, c0),
           Readable(p), Readable(q),
           NEW t \in Seq(Names), t # <<>>, LeadsToDir(p, Front(t), d), Last(t) = e.name,
           \A k \in Idx, c \in Cells : E(p, d, k, c).name # e.name
    PROVE  /\ Reached(p) /\ (e.type = "directory" => t \in DirPaths) => Reached(q)
           /\ Reached(q) => Reached(p)
<1>1. /\ \A no \in p.inodes : IsDir(q, no) <=> IsDir(p, no)
      /\ IsDir(q, e.no) <=> e.type = "directory"
      /\ q.inodes = p.inodes \cup {e.no} /\ e.no \notin p.inodes
  BY GrownDirs DEF Grown
<1>2. /\ SearchFile(p, t).type = "unknown"
      /\ SearchFile(q, t).no = e.no /\ SearchFile(q, t).type = e.type
      /\ \A path \in Seq(Names) : path # t =>
            \A n : LeadsToDir(q, path, n) <=> LeadsToDir(p, path, n)
  BY GrownPaths
<1>3. DirPaths \cup {<<>>} \subseteq Seq(Names)
  <2>1. <<>> \in Seq(Names)
    OBVIOUS
  <2> QED
    BY <2>1, PathsOfNames
<1>4. ASSUME Reached(p), e.type = "directory" => t \in DirPaths
      PROVE  Reached(q)
  <2>1. ASSUME NEW n \in q.inodes, IsDir(q, n)
        PROVE  \E path \in DirPaths \cup {<<>>} : LeadsToDir(q, path, n)
    <3>1. CASE n = e.no
      <4>1. e.type = "directory" /\ t \in DirPaths /\ LeadsToDir(q, t, n)
        BY <1>1, <1>2, <1>4, <2>1, <3>1 DEF LeadsToDir
      <4> QED
        BY <4>1
    <3>2. CASE n # e.no
      <4>1. n \in p.inodes /\ IsDir(p, n)
        BY <1>1, <2>1, <3>2
      <4>2. PICK path \in DirPaths \cup {<<>>} : LeadsToDir(p, path, n)
        BY <1>4, <4>1 DEF Reached
      <4>3. path # t
        BY <1>2, <4>2 DEF LeadsToDir
      <4>4. LeadsToDir(q, path, n)
        BY <1>2, <1>3, <4>2, <4>3
      <4> QED
        BY <4>4
    <3> QED
      BY <3>1, <3>2
  <2> QED
    BY <2>1 DEF Reached
<1>5. ASSUME Reached(q)
      PROVE  Reached(p)
  <2>1. ASSUME NEW n \in p.inodes, IsDir(p, n)
        PROVE  \E path \in DirPaths \cup {<<>>} : LeadsToDir(p, path, n)
    <3>1. n \in q.inodes /\ IsDir(q, n) /\ n # e.no
      BY <1>1, <2>1
    <3>2. PICK path \in DirPaths \cup {<<>>} : LeadsToDir(q, path, n)
      BY <1>5, <3>1 DEF Reached
    <3>3. path # t
      BY <1>2, <3>1, <3>2 DEF LeadsToDir
    <3>4. LeadsToDir(p, path, n)
      BY <1>2, <1>3, <3>2, <3>3
    <3> QED
      BY <3>4
  <2> QED
    BY <2>1 DEF Reached
<1> QED
  BY <1>4, <1>5

-----------------------------------------------------------------------------
(* The entries of a partition that is grown by an inode, or shrunk.        *)

\* Cell by cell: a cell of q is the new name, of the new inode, or as it was.
LEMMA GrownCells ==
    ASSUME NEW p, NEW q, NEW d, NEW e, NEW k0, NEW c0, Grown(p, q, d, e, k0, c0),
           NEW no \in q.inodes, NEW k \in Idx, NEW c \in Cells
    PROVE  \/ no = e.no /\ no \notin p.inodes /\ E(q, no, k, c) = NewEntry(e, d, k, c)
              /\ ~IsNamed(q, no, k, c)
           \/ no = d /\ no \in p.inodes /\ k = k0 /\ c = c0 /\ E(q, no, k, c) = e
              /\ E(p, no, k, c) = NoEntry /\ IsNamed(q, no, k, c) /\ ~IsNamed(p, no, k, c)
           \/ no \in p.inodes /\ no # e.no /\ ~(no = d /\ k = k0 /\ c = c0)
              /\ E(q, no, k, c) = E(p, no, k, c)
              /\ (IsNamed(q, no, k, c) <=> IsNamed(p, no, k, c))
<1>1. CASE no = e.no
  <2>1. E(q, no, k, c) = NewEntry(e, d, k, c) /\ no \notin p.inodes
    BY <1>1 DEF Grown
  <2>2. E(q, no, k, c).name \notin Names
    BY <2>1, NewEntryName
  <2> QED
    BY <1>1, <2>1, <2>2 DEF IsNamed
<1>2. CASE no # e.no /\ no = d /\ k = k0 /\ c = c0
  BY <1>2, NoEntryName DEF Grown, IsNamed
<1>3. CASE no # e.no /\ ~(no = d /\ k = k0 /\ c = c0)
  BY <1>3 DEF Grown, IsNamed
<1> QED
  BY <1>1, <1>2, <1>3

\* The first two cells of a directory stay.
LEMMA GrownDots ==
    ASSUME NEW p, NEW q, NEW d, NEW e, NEW k0, NEW c0, Grown(p, q, d, e, k0, c0),
           NEW n \in p.inodes
    PROVE  /\ E(p, n, 0, 0).name = "." => E(q, n, 0, 0) = E(p, n, 0, 0)
           /\ E(q, n, 0, 0).name = "." => E(q, n, 0, 0) = E(p, n, 0, 0)
           /\ E(p, n, 0, 1).name = ".." => E(q, n, 0, 1) = E(p, n, 0, 1)
           /\ E(q, n, 0, 1).name = ".." => E(q, n, 0, 1) = E(p, n, 0, 1)
<1>1. 0 \in Idx /\ 0 \in Cells /\ 1 \in Cells
  BY Sizes
<1>2. ASSUME NEW k \in Idx, NEW c \in Cells, E(q, n, k, c) # E(p, n, k, c)
      PROVE  E(p, n, k, c).name = "/" /\ E(q, n, k, c).name \notin {"/", ".", ".."}
  BY <1>2, NoEntryName, DirAssumption DEF Grown
<1> QED
  BY <1>1, <1>2

LEMMA GrownNames ==
    ASSUME NEW p, NEW q, NEW d, NEW e, NEW k0, NEW c0, Grown(p, q, d, e, k0, c0),
           Root \in p.inodes, NamesFit(p),
           \A k \in Idx, c \in Cells : E(p, d, k, c).name # e.name
    PROVE  NamesFit(q)
<1>1. /\ \A no \in p.inodes : IsDir(q, no) <=> IsDir(p, no)
      /\ IsDir(q, e.no) <=> e.type = "directory"
  BY GrownDirs
<1>2. /\ q.inodes = p.inodes \cup {e.no} /\ e.no \notin p.inodes /\ d \in p.inodes
      /\ e.name \in Names /\ E(q, d, k0, c0) = e /\ k0 \in Idx /\ c0 \in Cells
      /\ e.no # Root /\ IsDir(q, d) /\ e.type \in {"directory", "regular"}
  BY <1>1 DEF Grown
<1>3. 0 \in Idx /\ 0 \in Cells /\ 1 \in Cells
  BY Sizes
<1>4. IsDir(q, Root) /\ E(q, Root, 0, 1).no = Root
  <2>1. E(p, Root, 0, 1).name = ".."
    BY DEF NamesFit
  <2> QED
    BY <1>1, <2>1, GrownDots DEF NamesFit
<1>5. ASSUME NEW n \in q.inodes, IsDir(q, n)
      PROVE  /\ E(q, n, 0, 0) = Entry(".", n, "directory")
             /\ E(q, n, 0, 1).name = ".." /\ E(q, n, 0, 1).type = "directory"
  <2>1. CASE n = e.no
    <3>1. /\ E(q, n, 0, 0) = NewEntry(e, d, 0, 0) /\ E(q, n, 0, 1) = NewEntry(e, d, 0, 1)
          /\ e.type = "directory"
      BY <1>1, <1>3, <1>5, <2>1 DEF Grown
    <3> QED
      BY <2>1, <3>1 DEF NewEntry, Entry
  <2>2. CASE n # e.no
    <3>1. n \in p.inodes /\ IsDir(p, n)
      BY <1>1, <1>2, <1>5, <2>2
    <3>2. /\ E(p, n, 0, 0) = Entry(".", n, "directory") /\ E(p, n, 0, 0).name = "."
          /\ E(p, n, 0, 1).name = ".." /\ E(p, n, 0, 1).type = "directory"
      BY <3>1 DEF NamesFit, Entry
    <3> QED
      BY <3>1, <3>2, GrownDots
  <2> QED
    BY <2>1, <2>2
<1>6. ASSUME NEW n \in q.inodes, NEW k \in Idx, NEW c \in Cells
      PROVE  /\ E(q, n, k, c).name = "." => k = 0 /\ c = 0
             /\ E(q, n, k, c).name = ".." => k = 0 /\ c = 1
  <2>1. CASE n = e.no
    <3>1. E(q, n, k, c) = NewEntry(e, d, k, c)
      BY <2>1 DEF Grown
    <3> QED
      BY <3>1, NewEntryName
  <2>2. CASE n # e.no
    <3>1. n \in p.inodes /\ (E(q, n, k, c) = e \/ E(q, n, k, c) = E(p, n, k, c))
      BY <1>2, <2>2, GrownCells
    <3> QED
      BY <1>2, <3>1, DirAssumption DEF NamesFit
  <2> QED
    BY <2>1, <2>2
<1>7. ASSUME NEW n \in q.inodes, NEW k \in Idx, NEW c \in Cells, IsNamed(q, n, k, c)
      PROVE  /\ E(q, n, k, c).no \in q.inodes \ {Root}
             /\ E(q, n, k, c).type = "directory" <=> IsDir(q, E(q, n, k, c).no)
             /\ IsDir(q, E(q, n, k, c).no) => E(q, E(q, n, k, c).no, 0, 1).no = n
  <2>1. CASE n = d /\ E(q, n, k, c) = e
    <3>1. E(q, e.no, 0, 1) = NewEntry(e, d, 0, 1)
      BY <1>3 DEF Grown
    <3>2. IsDir(q, e.no) => E(q, e.no, 0, 1).no = d
      BY <1>1, <3>1 DEF NewEntry, Entry
    <3> QED
      BY <1>1, <1>2, <2>1, <3>2
  <2>2. CASE n \in p.inodes /\ E(q, n, k, c) = E(p, n, k, c) /\ IsNamed(p, n, k, c)
    <3> DEFINE m == E(p, n, k, c).no
    <3>1. /\ m \in p.inodes \ {Root} /\ (E(p, n, k, c).type = "directory" <=> IsDir(p, m))
          /\ IsDir(p, m) => E(p, m, 0, 1).no = n /\ E(p, m, 0, 1).name = ".."
      BY <2>2 DEF NamesFit
    <3> HIDE DEF m
    <3>2. IsDir(q, m) => E(q, m, 0, 1).no = n
      BY <1>1, <3>1, GrownDots
    <3> QED
      BY <1>1, <1>2, <2>2, <3>1, <3>2 DEF m
  <2> QED
    BY <1>7, <2>1, <2>2, GrownCells
<1>8. ASSUME NEW no \in q.inodes \ {Root}
      PROVE  \E n \in q.inodes, k \in Idx, c \in Cells :
                 IsNamed(q, n, k, c) /\ E(q, n, k, c).no = no
  <2>1. CASE no = e.no
    BY <1>2, <2>1 DEF IsNamed
  <2>2. CASE no # e.no
    <3>1. no \in p.inodes \ {Root}
      BY <1>2, <2>2
    <3>2. PICK n \in p.inodes, k \in Idx, c \in Cells :
              IsNamed(p, n, k, c) /\ E(p, n, k, c).no = no
      BY <3>1 DEF NamesFit
    <3>3. n \in q.inodes /\ E(q, n, k, c) = E(p, n, k, c) /\ IsNamed(q, n, k, c)
      BY <1>2, <3>2, GrownCells
    <3> QED
      BY <3>2, <3>3
  <2> QED
    BY <2>1, <2>2
<1>9. ASSUME NEW n \in q.inodes, NEW f \in q.inodes, NEW k \in Idx, NEW l \in Idx,
             NEW c \in Cells, NEW b \in Cells, IsNamed(q, n, k, c), IsNamed(q, f, l, b)
      PROVE  /\ E(q, n, k, c).no = E(q, f, l, b).no => n = f /\ k = l /\ c = b
             /\ n = f /\ E(q, n, k, c).name = E(q, f, l, b).name => k = l /\ c = b
  <2> DEFINE isNew(m, j, a) == m = d /\ j = k0 /\ a = c0 /\ E(q, m, j, a) = e
             isOld(m, j, a) == /\ m \in p.inodes /\ E(q, m, j, a) = E(p, m, j, a)
                               /\ IsNamed(p, m, j, a) /\ E(p, m, j, a).no \in p.inodes
  <2>1. /\ isNew(n, k, c) \/ isOld(n, k, c)
        /\ isNew(f, l, b) \/ isOld(f, l, b)
    BY <1>9, GrownCells DEF NamesFit
  <2>2. CASE isOld(n, k, c) /\ isOld(f, l, b)
    BY <2>2 DEF NamesFit
  <2>3. CASE isNew(n, k, c) \/ isNew(f, l, b)
    BY <1>2, <2>1, <2>3
  <2> QED
    BY <2>1, <2>2, <2>3
<1> QED
  BY <1>4, <1>5, <1>6, <1>7, <1>8, <1>9 DEF NamesFit

LEMMA ShrunkNames ==
    ASSUME NEW p, NEW q, NEW d, NEW e, NEW k0, NEW c0, Grown(p, q, d, e, k0, c0),
           Root \in q.inodes, NamesFit(q)
    PROVE  /\ Root \in p.inodes /\ NamesFit(p)
           /\ \A k \in Idx, c \in Cells : E(p, d, k, c).name # e.name
<1>1. /\ \A no \in p.inodes : IsDir(q, no) <=> IsDir(p, no)
      /\ IsDir(q, e.no) <=> e.type = "directory"
  BY GrownDirs
<1>2. /\ q.inodes = p.inodes \cup {e.no} /\ e.no \notin p.inodes
      /\ d \in p.inodes /\ d \in q.inodes
      /\ e.name \in Names /\ E(q, d, k0, c0) = e /\ k0 \in Idx /\ c0 \in Cells
      /\ IsNamed(q, d, k0, c0)
  BY DEF Grown, IsNamed
<1>3. 0 \in Idx /\ 0 \in Cells /\ 1 \in Cells
  BY Sizes
<1>4. Root \in p.inodes /\ IsDir(p, Root) /\ E(p, Root, 0, 1).no = Root
  <2>1. e.no # Root
    BY <1>2 DEF NamesFit
  <2>2. E(q, Root, 0, 1).name = ".."
    BY DEF NamesFit
  <2> QED
    BY <1>1, <1>2, <2>1, <2>2, GrownDots DEF NamesFit
<1>5. ASSUME NEW n \in p.inodes, NEW k \in Idx, NEW c \in Cells, E(p, n, k, c) # NoEntry
      PROVE  E(q, n, k, c) = E(p, n, k, c) /\ ~(n = d /\ k = k0 /\ c = c0)
  BY <1>5 DEF Grown
<1>6. ASSUME NEW n \in p.inodes, IsDir(p, n)
      PROVE  /\ E(p, n, 0, 0) = Entry(".", n, "directory")
             /\ E(p, n, 0, 1).name = ".." /\ E(p, n, 0, 1).type = "directory"
  <2>1. /\ E(q, n, 0, 0) = Entry(".", n, "directory") /\ E(q, n, 0, 0).name = "."
        /\ E(q, n, 0, 1).name = ".." /\ E(q, n, 0, 1).type = "directory"
    BY <1>1, <1>2, <1>6 DEF NamesFit, Entry
  <2> QED
    BY <2>1, GrownDots
<1>7. ASSUME NEW n \in p.inodes, NEW k \in Idx, NEW c \in Cells
      PROVE  /\ E(p, n, k, c).name = "." => k = 0 /\ c = 0
             /\ E(p, n, k, c).name = ".." => k = 0 /\ c = 1
  <2>1. /\ E(q, n, k, c).name = "." => k = 0 /\ c = 0
        /\ E(q, n, k, c).name = ".." => k = 0 /\ c = 1
    BY <1>2 DEF NamesFit
  <2>2. CASE E(p, n, k, c) = NoEntry
    BY <2>2, NoEntryName
  <2>3. CASE E(p, n, k, c) # NoEntry
    BY <1>5, <2>1, <2>3
  <2> QED
    BY <2>2, <2>3
<1>8. ASSUME NEW n \in p.inodes, NEW k \in Idx, NEW c \in Cells, IsNamed(p, n, k, c)
      PROVE  /\ n \in q.inodes /\ IsNamed(q, n, k, c) /\ E(q, n, k, c) = E(p, n, k, c)
             /\ E(p, n, k, c).no \in p.inodes
  <2>1. n \in q.inodes /\ IsNamed(q, n, k, c) /\ E(q, n, k, c) = E(p, n, k, c)
        /\ ~(n = d /\ k = k0 /\ c = c0)
    BY <1>2, <1>5, <1>8, NoEntryName DEF IsNamed
  <2>2. E(q, n, k, c).no # e.no /\ E(q, n, k, c).no \in q.inodes
    BY <1>2, <2>1 DEF NamesFit
  <2> QED
    BY <1>2, <2>1, <2>2
<1>9. ASSUME NEW n \in p.inodes, NEW k \in Idx, NEW c \in Cells, IsNamed(p, n, k, c)
      PROVE  /\ E(p, n, k, c).no \in p.inodes \ {Root}
             /\ E(p, n, k, c).type = "directory" <=> IsDir(p, E(p, n, k, c).no)
             /\ IsDir(p, E(p, n, k, c).no) => E(p, E(p, n, k, c).no, 0, 1).no = n
  <2> DEFINE m == E(p, n, k, c).no
  <2>1. /\ n \in q.inodes /\ IsNamed(q, n, k, c) /\ E(q, n, k, c) = E(p, n, k, c)
        /\ m \in p.inodes
    BY <1>8, <1>9
  <2>2. /\ m \in q.inodes \ {Root} /\ (E(p, n, k, c).type = "directory" <=> IsDir(q, m))
        /\ IsDir(q, m) => E(q, m, 0, 1).no = n /\ E(q, m, 0, 1).name = ".."
    BY <2>1 DEF NamesFit
  <2> HIDE DEF m
  <2>3. IsDir(p, m) => E(p, m, 0, 1).no = n
    BY <1>1, <2>1, <2>2, GrownDots
  <2> QED
    BY <1>1, <2>1, <2>2, <2>3 DEF m
<1>10. ASSUME NEW no \in p.inodes \ {Root}
       PROVE  \E n \in p.inodes, k \in Idx, c \in Cells :
                  IsNamed(p, n, k, c) /\ E(p, n, k, c).no = no
  <2>1. no \in q.inodes \ {Root} /\ no # e.no
    BY <1>2
  <2>2. PICK n \in q.inodes, k \in Idx, c \in Cells :
            IsNamed(q, n, k, c) /\ E(q, n, k, c).no = no
    BY <2>1 DEF NamesFit
  <2>3. n \in p.inodes /\ E(q, n, k, c) = E(p, n, k, c) /\ IsNamed(p, n, k, c)
    BY <2>1, <2>2, GrownCells
  <2> QED
    BY <2>2, <2>3
<1>11. ASSUME NEW n \in p.inodes, NEW f \in p.inodes, NEW k \in Idx, NEW l \in Idx,
              NEW c \in Cells, NEW b \in Cells, IsNamed(p, n, k, c), IsNamed(p, f, l, b)
       PROVE  /\ E(p, n, k, c).no = E(p, f, l, b).no => n = f /\ k = l /\ c = b
              /\ n = f /\ E(p, n, k, c).name = E(p, f, l, b).name => k = l /\ c = b
  <2>1. /\ n \in q.inodes /\ IsNamed(q, n, k, c) /\ E(q, n, k, c) = E(p, n, k, c)
        /\ f \in q.inodes /\ IsNamed(q, f, l, b) /\ E(q, f, l, b) = E(p, f, l, b)
    BY <1>8, <1>11
  <2> QED
    BY <2>1 DEF NamesFit
<1>12. NamesFit(p)
  BY <1>4, <1>6, <1>7, <1>9, <1>10, <1>11 DEF NamesFit
<1>13. ASSUME NEW k \in Idx, NEW c \in Cells, E(p, d, k, c).name = e.name
       PROVE  FALSE
  <2>1. E(p, d, k, c) # NoEntry
    BY <1>2, <1>13, NoEntryName
  <2>2. E(q, d, k, c) = E(p, d, k, c) /\ ~(k = k0 /\ c = c0) /\ IsNamed(q, d, k, c)
    BY <1>2, <1>5, <1>13, <2>1 DEF IsNamed
  <2> QED
    BY <1>2, <1>13, <2>2 DEF NamesFit
<1> QED
  BY <1>4, <1>12, <1>13

-----------------------------------------------------------------------------
(* Partitions with the same entries have the same names.                   *)

SameEntries(p, q) ==
    /\ q.inodes = p.inodes
    /\ \A no \in p.inodes, k \in Idx, c \in Cells : E(q, no, k, c) = E(p, no, k, c)

LEMMA SameNames ==
    ASSUME NEW p, NEW q, SameEntries(p, q), Root \in p.inodes, NamesFit(p)
    PROVE  NamesFit(q) /\ \A no \in p.inodes : IsDir(q, no) <=> IsDir(p, no)
<1>1. 0 \in Idx /\ 0 \in Cells /\ 1 \in Cells
  BY Sizes
<1>2. \A no \in p.inodes : IsDir(q, no) <=> IsDir(p, no)
  BY <1>1 DEF SameEntries, IsDir
<1>3. \A no \in p.inodes, k \in Idx, c \in Cells : IsNamed(q, no, k, c) <=> IsNamed(p, no, k, c)
  BY DEF SameEntries, IsNamed
<1>4. q.inodes = p.inodes
      /\ \A no \in p.inodes, k \in Idx, c \in Cells : E(q, no, k, c) = E(p, no, k, c)
  BY DEF SameEntries
<1>5. IsDir(q, Root) /\ E(q, Root, 0, 1).no = Root
  BY <1>1, <1>2, <1>4 DEF NamesFit
<1>6. \A d \in q.inodes : IsDir(q, d) =>
          /\ E(q, d, 0, 0) = Entry(".", d, "directory")
          /\ E(q, d, 0, 1).name = ".." /\ E(q, d, 0, 1).type = "directory"
  BY <1>1, <1>2, <1>4 DEF NamesFit
<1>7. \A d \in q.inodes, k \in Idx, c \in Cells :
          /\ E(q, d, k, c).name = "." => k = 0 /\ c = 0
          /\ E(q, d, k, c).name = ".." => k = 0 /\ c = 1
  BY <1>4 DEF NamesFit
<1>8. \A d \in q.inodes, k \in Idx, c \in Cells : IsNamed(q, d, k, c) =>
          /\ E(q, d, k, c).no \in q.inodes \ {Root}
          /\ E(q, d, k, c).type = "directory" <=> IsDir(q, E(q, d, k, c).no)
          /\ IsDir(q, E(q, d, k, c).no) => E(q, E(q, d, k, c).no, 0, 1).no = d
  BY <1>1, <1>2, <1>3, <1>4 DEF NamesFit
<1>9. \A no \in q.inodes \ {Root} :
          \E d \in q.inodes, k \in Idx, c \in Cells :
              IsNamed(q, d, k, c) /\ E(q, d, k, c).no = no
  BY <1>3, <1>4 DEF NamesFit
<1>10. \A d, f \in q.inodes, k, l \in Idx, c, b \in Cells :
          IsNamed(q, d, k, c) /\ IsNamed(q, f, l, b) =>
              /\ E(q, d, k, c).no = E(q, f, l, b).no => d = f /\ k = l /\ c = b
              /\ d = f /\ E(q, d, k, c).name = E(q, f, l, b).name => k = l /\ c = b
  BY <1>3, <1>4 DEF NamesFit
<1> QED
  BY <1>2, <1>5, <1>6, <1>7, <1>8, <1>9, <1>10 DEF NamesFit

LEMMA SamePaths ==
    ASSUME NEW p, NEW q, SameEntries(p, q), Readable(p), Readable(q),
           NEW path \in Seq(Names)
    PROVE  SearchFile(q, path) = SearchFile(p, path)
<1> DEFINE T == {n \in Nat : \E a \in Seq(Names) :
                     Len(a) = n /\ SearchFile(q, a) # SearchFile(p, a)}
<1>1. SUFFICES ASSUME T # {} PROVE FALSE
  <2>1. Len(path) \in Nat
    OBVIOUS
  <2> QED
    BY <1>1, <2>1
<1>2. PICK n \in T : \A m \in T : n <= m
  <2>1. T \subseteq Nat
    OBVIOUS
  <2> QED
    BY <1>1, <2>1, LeastNat
<1>3. PICK a \in Seq(Names) : Len(a) = n /\ SearchFile(q, a) # SearchFile(p, a)
  OBVIOUS
<1>4. a # <<>>
  BY <1>3, SearchRoot
<1> DEFINE f == Front(a)
           x == Last(a)
           up == SearchFile(p, f)
<1>5. f \in Seq(Names) /\ Len(f) = Len(a) - 1 /\ x \in Names /\ Len(a) \in Nat \ {0}
  BY <1>4, FrontFacts
<1>6. SearchFile(q, f) = up
  <2>1. Len(f) \in Nat /\ ~(n <= Len(f))
    BY <1>3, <1>5
  <2> QED
    BY <1>2, <1>5, <2>1
<1>7. SearchFile(p, a) = Walk(p, up, x) /\ SearchFile(q, a) = Walk(q, up, x)
  BY <1>4, <1>6, SearchLast
<1>8. AtFits(p, f, up)
  BY <1>5, SearchFits
<1> HIDE DEF f, x, up
<1>9. up.type = "directory" => Search(q, up.no, x) = Search(p, up.no, x)
  <2> SUFFICES ASSUME up.type = "directory"
               PROVE  Search(q, up.no, x) = Search(p, up.no, x)
    OBVIOUS
  <2> DEFINE m == up.no
  <2>1. m \in p.inodes /\ m \in q.inodes /\ x # "/"
        /\ Layout(p) /\ Cached(p) /\ Layout(q) /\ Cached(q)
    BY <1>5, <1>8, DirAssumption DEF AtFits, SameEntries, Readable
  <2> HIDE DEF m
  <2>2. \/ /\ \A k \in Idx, c \in Cells : E(p, m, k, c).name # x
           /\ Search(p, m, x) = NoEntry
        \/ \E k \in Idx, c \in Cells :
              E(p, m, k, c).name = x /\ Search(p, m, x) = E(p, m, k, c)
    BY <2>1, SearchIs
  <2>3. \/ /\ \A k \in Idx, c \in Cells : E(q, m, k, c).name # x
           /\ Search(q, m, x) = NoEntry
        \/ \E k \in Idx, c \in Cells :
              E(q, m, k, c).name = x /\ Search(q, m, x) = E(q, m, k, c)
    BY <2>1, SearchIs
  <2>4. \A k \in Idx, c \in Cells : E(q, m, k, c) = E(p, m, k, c)
    BY <2>1 DEF SameEntries
  <2>5. ASSUME NEW k \in Idx, NEW c \in Cells, E(p, m, k, c).name = x,
               NEW l \in Idx, NEW b \in Cells, E(p, m, l, b).name = x
        PROVE  E(p, m, k, c) = E(p, m, l, b)
    <3>1. IsNamed(p, m, k, c) /\ IsNamed(p, m, l, b) /\ NamesFit(p)
      BY <1>5, <2>5 DEF IsNamed, Readable
    <3> QED
      BY <2>1, <2>5, <3>1, NameOnce
  <2> QED
    BY <2>2, <2>3, <2>4, <2>5 DEF m
<1> QED
  BY <1>3, <1>7, <1>9 DEF Walk

LEMMA SameReached ==
    ASSUME NEW p, NEW q, SameEntries(p, q), Readable(p), Readable(q), Reached(p)
    PROVE  Reached(q)
<1>1. \A no \in p.inodes : IsDir(q, no) <=> IsDir(p, no)
  BY SameNames DEF Readable, Layout
<1>2. DirPaths \cup {<<>>} \subseteq Seq(Names)
  <2>1. <<>> \in Seq(Names)
    OBVIOUS
  <2> QED
    BY <2>1, PathsOfNames
<1>3. \A path \in Seq(Names) : SearchFile(q, path) = SearchFile(p, path)
  BY SamePaths
<1> QED
  BY <1>1, <1>2, <1>3 DEF Reached, LeadsToDir, SameEntries

\* A removal changes nothing on the way to the directory of the name.
LEMMA ShrunkFront ==
    ASSUME NEW p, NEW q, NEW d, NEW e, NEW k0, NEW c0, Grown(p, q, d, e, k0, c0),
           Readable(p), Readable(q),
           NEW t \in Seq(Names), t # <<>>, LeadsToDir(q, Front(t), d)
    PROVE  LeadsToDir(p, Front(t), d)
<1> DEFINE g == Front(t)
<1>1. g \in Seq(Names) /\ Len(g) \in Nat
  BY FrontFacts
<1> HIDE DEF g
<1> DEFINE T == {n \in Nat : \E a \in Seq(Names) :
                     /\ Len(a) = n /\ Len(a) <= Len(g)
                     /\ SearchFile(q, a) # SearchFile(p, a)}
<1>2. SUFFICES ASSUME T # {} PROVE FALSE
  <2>1. T = {} => SearchFile(q, g) = SearchFile(p, g)
    BY <1>1
  <2> QED
    BY <1>2, <2>1 DEF LeadsToDir, g
<1>3. PICK n \in T : \A m \in T : n <= m
  <2>1. T \subseteq Nat
    OBVIOUS
  <2> QED
    BY <1>2, <2>1, LeastNat
<1>4. PICK a \in Seq(Names) :
          Len(a) = n /\ Len(a) <= Len(g) /\ SearchFile(q, a) # SearchFile(p, a)
  OBVIOUS
<1>5. a # <<>>
  BY <1>4, SearchRoot
<1> DEFINE f == Front(a)
           x == Last(a)
           up == SearchFile(q, f)
<1>6. f \in Seq(Names) /\ Len(f) = Len(a) - 1 /\ x \in Names /\ Len(a) \in Nat \ {0}
  BY <1>5, FrontFacts
<1>7. SearchFile(p, f) = up
  <2>1. Len(f) \in Nat /\ ~(n <= Len(f)) /\ Len(f) <= Len(g)
    BY <1>1, <1>4, <1>6
  <2> QED
    BY <1>3, <1>6, <2>1
<1>8. SearchFile(p, a) = Walk(p, up, x) /\ SearchFile(q, a) = Walk(q, up, x)
  BY <1>5, <1>7, SearchLast
<1>9. AtFits(p, f, up)
  BY <1>6, <1>7, SearchFits
<1>10. up.type = "directory" => up.no # d
  <2> SUFFICES ASSUME up.type = "directory", up.no = d PROVE FALSE
    OBVIOUS
  <2>1. LeadsToDir(q, f, d) /\ LeadsToDir(q, g, d)
    BY DEF LeadsToDir, g
  <2>2. f = g
    <3>1. /\ Leads(q, f) /\ Leads(q, g) /\ SearchFile(q, f).no = SearchFile(q, g).no
      BY <1>1, <1>6, <2>1, DirLeads
    <3> QED
      BY <1>1, <1>6, <3>1, PathUnique
  <2>3. Len(f) # Len(g)
    BY <1>1, <1>4, <1>6
  <2> QED
    BY <2>2, <2>3
<1> HIDE DEF f, x, up
<1>11. up.type = "directory" => Search(q, up.no, x) = Search(p, up.no, x)
  BY <1>6, <1>9, <1>10, GrownSearch DEF AtFits
<1> QED
  BY <1>4, <1>8, <1>11 DEF Walk

-----------------------------------------------------------------------------
(* The table of the inodes in memory.                                      *)

\* Only what is in memory differs.
SameDisk(p, q) ==
    /\ q.inodes = p.inodes /\ q.blocks = p.blocks /\ q.disk = p.disk
    /\ q.entries = p.entries /\ q.tables = p.tables

LEMMA Added ==
    ASSUME NEW f, NEW x, NEW v
    PROVE  /\ DOMAIN With(f, x, v) = DOMAIN f \cup {x} /\ With(f, x, v)[x] = v
           /\ \A y \in DOMAIN f \cup {x} : y # x => With(f, x, v)[y] = f[y]
           /\ With(f, x, v) = [y \in DOMAIN f \cup {x} |-> With(f, x, v)[y]]
<1> DEFINE g == With(f, x, v)
<1>1. g = [y \in DOMAIN f \cup {x} |-> IF y = x THEN v ELSE f[y]]
  BY DEF With
<1> HIDE DEF g
<1>2. DOMAIN g = DOMAIN f \cup {x}
  BY <1>1
<1>3. \A y \in DOMAIN f \cup {x} : g[y] = IF y = x THEN v ELSE f[y]
  BY <1>1
<1>4. g = [y \in DOMAIN f \cup {x} |-> g[y]]
  BY <1>1
<1> QED
  BY <1>2, <1>3, <1>4 DEF g

LEMMA Restricted ==
    ASSUME NEW f, NEW x
    PROVE  /\ DOMAIN Restrict(f, DOMAIN f \ {x}) = DOMAIN f \ {x}
           /\ \A y \in DOMAIN f \ {x} : Restrict(f, DOMAIN f \ {x})[y] = f[y]
           /\ Restrict(f, DOMAIN f \ {x}) =
                 [y \in DOMAIN f \ {x} |-> Restrict(f, DOMAIN f \ {x})[y]]
<1> DEFINE g == Restrict(f, DOMAIN f \ {x})
<1>1. g = [y \in DOMAIN f \ {x} |-> f[y]]
  BY DEF Restrict
<1> HIDE DEF g
<1> QED
  BY <1>1 DEF g

\* The parts of a partition, and one that differs in memory only.
LEMMA PartMade ==
    ASSUME NEW p, IsPart(p), NEW o
    PROVE  /\ [p EXCEPT !.open = o].open = o
           /\ SameDisk(p, [p EXCEPT !.open = o])
           /\ DOMAIN o \subseteq Inodes /\ o \in [DOMAIN o -> OpenType]
                 => IsPart([p EXCEPT !.open = o])
<1> DEFINE q == [p EXCEPT !.open = o]
<1>1. p = [inodes |-> p.inodes, blocks |-> p.blocks, disk |-> p.disk, open |-> p.open,
           entries |-> p.entries, tables |-> p.tables]
  BY DEF IsPart
<1>2. q = [inodes |-> p.inodes, blocks |-> p.blocks, disk |-> p.disk, open |-> o,
           entries |-> p.entries, tables |-> p.tables]
  BY <1>1
<1>3. /\ q.open = o /\ q.inodes = p.inodes /\ q.blocks = p.blocks /\ q.disk = p.disk
      /\ q.entries = p.entries /\ q.tables = p.tables
  BY <1>2
<1> HIDE DEF q
<1>4. SameDisk(p, q)
  BY <1>3 DEF SameDisk
<1>5. DOMAIN o \subseteq Inodes /\ o \in [DOMAIN o -> OpenType] => IsPart(q)
  BY <1>2, <1>3 DEF IsPart
<1> QED
  BY <1>3, <1>4, <1>5 DEF q

LEMMA OpenTyped ==
    ASSUME NEW p, IsPart(p)
    PROVE  /\ \A m \in DOMAIN p.open :
                 /\ m \in Inodes /\ p.open[m] \in OpenType
                 /\ p.open[m].count \in Nat /\ p.open[m].count >= 1
                 /\ p.open[m].inode \in InodeType /\ p.open[m].deny \in BOOLEAN
           /\ \A m \in Inodes : p.disk[m] \in InodeType
           /\ p.open = [m \in DOMAIN p.open |-> p.open[m]]
<1>1. /\ DOMAIN p.open \subseteq Inodes /\ p.open \in [DOMAIN p.open -> OpenType]
      /\ p.disk \in [Inodes -> InodeType]
  BY DEF IsPart
<1>2. \A m \in DOMAIN p.open : p.open[m] \in OpenType
  BY <1>1
<1> QED
  BY <1>1, <1>2 DEF OpenType

LEMMA InodeOpenIs ==
    ASSUME NEW p, IsPart(p), NEW no \in Inodes
    PROVE  /\ IsPart(InodeOpen(p, no)) /\ SameDisk(p, InodeOpen(p, no))
           /\ DOMAIN InodeOpen(p, no).open = DOMAIN p.open \cup {no}
           /\ Count(InodeOpen(p, no), no) = Count(p, no) + 1
           /\ \A m \in Inodes \ {no} : Count(InodeOpen(p, no), m) = Count(p, m)
           /\ \A m \in DOMAIN InodeOpen(p, no).open : InodeOpen(p, no).open[m].inode = Inode(p, m)
<1> DEFINE q == InodeOpen(p, no)
<1>1. /\ \A m \in DOMAIN p.open :
            /\ m \in Inodes /\ p.open[m] \in OpenType
            /\ p.open[m].count \in Nat /\ p.open[m].count >= 1
            /\ p.open[m].inode \in InodeType /\ p.open[m].deny \in BOOLEAN
      /\ \A m \in Inodes : p.disk[m] \in InodeType
      /\ p.open = [m \in DOMAIN p.open |-> p.open[m]]
  BY OpenTyped
<1>2. \E o : /\ q = [p EXCEPT !.open = o] /\ o = [m \in DOMAIN o |-> o[m]]
             /\ DOMAIN o = DOMAIN p.open \cup {no}
             /\ \A m \in DOMAIN p.open \ {no} : o[m] = p.open[m]
             /\ o[no] \in OpenType /\ o[no].inode = Inode(p, no)
             /\ o[no].count = Count(p, no) + 1
  <2>1. CASE no \in DOMAIN p.open
    <3> DEFINE o == [p.open EXCEPT ![no].count = @ + 1]
    <3>1. q = [p EXCEPT !.open = o]
      BY <2>1 DEF InodeOpen
    <3>2. DOMAIN o = DOMAIN p.open /\ o = [m \in DOMAIN o |-> o[m]]
      BY <1>1
    <3>3. o[no] = [p.open[no] EXCEPT !.count = @ + 1]
      BY <1>1, <2>1
    <3>4. \A m \in DOMAIN p.open \ {no} : o[m] = p.open[m]
      BY <1>1
    <3> HIDE DEF o
    <3>5. o[no] = [count |-> p.open[no].count + 1, deny |-> p.open[no].deny,
                   inode |-> p.open[no].inode]
      BY <1>1, <2>1, <3>3 DEF OpenType
    <3>6. p.open[no].count + 1 \in Nat \ {0}
      BY <1>1, <2>1
    <3>7. o[no] \in OpenType
      BY <1>1, <2>1, <3>5, <3>6 DEF OpenType
    <3>8. o[no].inode = Inode(p, no) /\ o[no].count = Count(p, no) + 1
      BY <2>1, <3>5 DEF Inode, Count
    <3> QED
      BY <2>1, <3>1, <3>2, <3>4, <3>7, <3>8
  <2>2. CASE no \notin DOMAIN p.open
    <3> DEFINE v == [count |-> 1, deny |-> FALSE, inode |-> p.disk[no]]
               o == With(p.open, no, v)
    <3>1. q = [p EXCEPT !.open = o]
      BY <2>2 DEF InodeOpen
    <3>3. v \in OpenType
      BY <1>1 DEF OpenType
    <3>4. v.inode = Inode(p, no) /\ v.count = Count(p, no) + 1
      BY <2>2 DEF Inode, Count
    <3> HIDE DEF v
    <3>5. o = [m \in DOMAIN p.open \cup {no} |-> IF m = no THEN v ELSE p.open[m]]
      BY DEF With
    <3> HIDE DEF o
    <3>2. /\ DOMAIN o = DOMAIN p.open \cup {no} /\ o[no] = v
          /\ \A m \in DOMAIN p.open \cup {no} : m # no => o[m] = p.open[m]
          /\ o = [m \in DOMAIN p.open \cup {no} |-> o[m]]
      BY <3>5
    <3> QED
      BY <3>1, <3>2, <3>3, <3>4
  <2> QED
    BY <2>1, <2>2
<1>3. PICK o : /\ q = [p EXCEPT !.open = o] /\ o = [m \in DOMAIN o |-> o[m]]
               /\ DOMAIN o = DOMAIN p.open \cup {no}
               /\ \A m \in DOMAIN p.open \ {no} : o[m] = p.open[m]
               /\ o[no] \in OpenType /\ o[no].inode = Inode(p, no)
               /\ o[no].count = Count(p, no) + 1
  BY <1>2
<1>4. \A m \in DOMAIN p.open : p.open[m] \in OpenType
  BY <1>1
<1>5. \A m \in DOMAIN o : o[m] \in OpenType
  BY <1>3, <1>4
<1>6. DOMAIN o \subseteq Inodes /\ o \in [DOMAIN o -> OpenType]
  BY <1>1, <1>3, <1>5
<1>7. q.open = o /\ SameDisk(p, q) /\ IsPart(q)
  BY <1>3, <1>6, PartMade
<1> HIDE DEF q
<1>8. \A m \in DOMAIN q.open : q.open[m].inode = Inode(p, m)
  BY <1>3, <1>7 DEF Inode
<1>9. Count(q, no) = Count(p, no) + 1
  BY <1>3, <1>7 DEF Count
<1>10. \A m \in Inodes \ {no} : Count(q, m) = Count(p, m)
  BY <1>3, <1>7 DEF Count
<1> QED
  BY <1>3, <1>7, <1>8, <1>9, <1>10 DEF q

LEMMA InodeCloseIs ==
    ASSUME NEW p, IsPart(p), NEW no \in DOMAIN p.open
    PROVE  /\ IsPart(InodeClose(p, no)) /\ SameDisk(p, InodeClose(p, no))
           /\ DOMAIN InodeClose(p, no).open =
                 IF Count(p, no) > 1 THEN DOMAIN p.open ELSE DOMAIN p.open \ {no}
           /\ Count(InodeClose(p, no), no) = Count(p, no) - 1
           /\ \A m \in Inodes \ {no} : Count(InodeClose(p, no), m) = Count(p, m)
           /\ \A m \in DOMAIN InodeClose(p, no).open :
                 InodeClose(p, no).open[m].inode = p.open[m].inode
<1> DEFINE q == InodeClose(p, no)
<1>1. /\ \A m \in DOMAIN p.open :
            /\ m \in Inodes /\ p.open[m] \in OpenType
            /\ p.open[m].count \in Nat /\ p.open[m].count >= 1
            /\ p.open[m].inode \in InodeType /\ p.open[m].deny \in BOOLEAN
      /\ p.open = [m \in DOMAIN p.open |-> p.open[m]]
  BY OpenTyped
<1>2. Count(p, no) = p.open[no].count /\ no \in Inodes
  BY <1>1 DEF Count
<1>3. \A m \in DOMAIN p.open : p.open[m] \in OpenType
  BY <1>1
<1>4. CASE p.open[no].count > 1
  <2> DEFINE o == [p.open EXCEPT ![no].count = @ - 1]
  <2>1. q = [p EXCEPT !.open = o]
    BY <1>4 DEF InodeClose
  <2>2. DOMAIN o = DOMAIN p.open /\ o = [m \in DOMAIN o |-> o[m]]
    BY <1>1
  <2>3. o[no] = [p.open[no] EXCEPT !.count = @ - 1]
    BY <1>1
  <2>4. \A m \in DOMAIN p.open \ {no} : o[m] = p.open[m]
    BY <1>1
  <2> HIDE DEF o
  <2>5. o[no] = [count |-> p.open[no].count - 1, deny |-> p.open[no].deny,
                 inode |-> p.open[no].inode]
    BY <1>1, <2>3 DEF OpenType
  <2>6. p.open[no].count - 1 \in Nat \ {0}
    BY <1>1, <1>4
  <2>7. o[no] \in OpenType
    BY <1>1, <2>5, <2>6 DEF OpenType
  <2>8. DOMAIN o \subseteq Inodes /\ o \in [DOMAIN o -> OpenType]
    BY <1>1, <1>3, <2>2, <2>4, <2>7
  <2>9. q.open = o /\ SameDisk(p, q) /\ IsPart(q)
    BY <2>1, <2>8, PartMade
  <2> HIDE DEF q
  <2>10. \A m \in DOMAIN q.open : q.open[m].inode = p.open[m].inode
    BY <2>2, <2>4, <2>5, <2>9
  <2>11. Count(q, no) = Count(p, no) - 1 /\ \A m \in Inodes \ {no} : Count(q, m) = Count(p, m)
    BY <1>2, <2>2, <2>4, <2>5, <2>9 DEF Count
  <2> QED
    BY <1>2, <1>4, <2>2, <2>9, <2>10, <2>11 DEF q
<1>5. CASE ~(p.open[no].count > 1)
  <2> DEFINE o == Restrict(p.open, DOMAIN p.open \ {no})
  <2>1. q = [p EXCEPT !.open = o]
    BY <1>5 DEF InodeClose
  <2>2. /\ DOMAIN o = DOMAIN p.open \ {no}
        /\ \A m \in DOMAIN p.open \ {no} : o[m] = p.open[m]
        /\ o = [m \in DOMAIN p.open \ {no} |-> o[m]]
    BY Restricted
  <2> HIDE DEF o
  <2>3. DOMAIN o \subseteq Inodes /\ o \in [DOMAIN o -> OpenType]
    BY <1>1, <1>3, <2>2
  <2>4. q.open = o /\ SameDisk(p, q) /\ IsPart(q)
    BY <2>1, <2>3, PartMade
  <2> HIDE DEF q
  <2>5. \A m \in DOMAIN q.open : q.open[m].inode = p.open[m].inode
    BY <2>2, <2>4
  <2>6. p.open[no].count = 1
    BY <1>1, <1>5
  <2>7. Count(q, no) = Count(p, no) - 1 /\ \A m \in Inodes \ {no} : Count(q, m) = Count(p, m)
    BY <1>2, <2>2, <2>4, <2>6 DEF Count
  <2> QED
    BY <1>2, <1>5, <2>2, <2>4, <2>5, <2>7 DEF q
<1> QED
  BY <1>4, <1>5

LEMMA DirOpenIs ==
    ASSUME NEW p, IsPart(p), Root \in DOMAIN p.open, NEW d \in Inodes
    PROVE  /\ IsPart(DirOpen(p, d)) /\ SameDisk(p, DirOpen(p, d))
           /\ DOMAIN DirOpen(p, d).open = DOMAIN p.open \cup {d}
           /\ \A m \in Inodes \ {Root} :
                 Count(DirOpen(p, d), m) = Count(p, m) + (IF m = d THEN 1 ELSE 0)
           /\ \A m \in DOMAIN DirOpen(p, d).open : DirOpen(p, d).open[m].inode = Inode(p, m)
<1>1. CASE d = Root
  <2>1. DirOpen(p, d) = p
    BY <1>1 DEF DirOpen
  <2>2. \A m \in Inodes : Count(p, m) \in Nat
    BY OpenTyped DEF Count
  <2> QED
    BY <1>1, <2>1, <2>2 DEF SameDisk, Inode
<1>2. CASE d # Root
  <2>1. DirOpen(p, d) = InodeOpen(p, d)
    BY <1>2 DEF DirOpen
  <2>2. \A m \in Inodes : Count(p, m) \in Nat
    BY OpenTyped DEF Count
  <2>3. /\ IsPart(InodeOpen(p, d)) /\ SameDisk(p, InodeOpen(p, d))
        /\ DOMAIN InodeOpen(p, d).open = DOMAIN p.open \cup {d}
        /\ Count(InodeOpen(p, d), d) = Count(p, d) + 1
        /\ \A m \in Inodes \ {d} : Count(InodeOpen(p, d), m) = Count(p, m)
        /\ \A m \in DOMAIN InodeOpen(p, d).open : InodeOpen(p, d).open[m].inode = Inode(p, m)
    BY InodeOpenIs
  <2> QED
    BY <1>2, <2>1, <2>2, <2>3
<1> QED
  BY <1>1, <1>2

LEMMA DirCloseIs ==
    ASSUME NEW p, IsPart(p), Root \in DOMAIN p.open, NEW d \in DOMAIN p.open
    PROVE  /\ IsPart(DirClose(p, d)) /\ SameDisk(p, DirClose(p, d))
           /\ DOMAIN DirClose(p, d).open \subseteq DOMAIN p.open
           /\ Root \in DOMAIN DirClose(p, d).open
           /\ \A m \in Inodes \ {Root} :
                 Count(DirClose(p, d), m) = Count(p, m) - (IF m = d THEN 1 ELSE 0)
           /\ \A m \in DOMAIN DirClose(p, d).open :
                 DirClose(p, d).open[m].inode = p.open[m].inode
<1>1. CASE d = Root
  <2>1. DirClose(p, d) = p
    BY <1>1 DEF DirClose
  <2>2. \A m \in Inodes : Count(p, m) \in Nat
    BY OpenTyped DEF Count
  <2> QED
    BY <1>1, <2>1, <2>2 DEF SameDisk
<1>2. CASE d # Root
  <2>1. DirClose(p, d) = InodeClose(p, d)
    BY <1>2 DEF DirClose
  <2>2. \A m \in Inodes : Count(p, m) \in Nat
    BY OpenTyped DEF Count
  <2>3. /\ IsPart(InodeClose(p, d)) /\ SameDisk(p, InodeClose(p, d))
        /\ DOMAIN InodeClose(p, d).open =
              IF Count(p, d) > 1 THEN DOMAIN p.open ELSE DOMAIN p.open \ {d}
        /\ Count(InodeClose(p, d), d) = Count(p, d) - 1
        /\ \A m \in Inodes \ {d} : Count(InodeClose(p, d), m) = Count(p, m)
        /\ \A m \in DOMAIN InodeClose(p, d).open :
              InodeClose(p, d).open[m].inode = p.open[m].inode
    BY InodeCloseIs
  <2> QED
    BY <1>2, <2>1, <2>2, <2>3
<1> QED
  BY <1>1, <1>2

LEMMA SameDiskEntries ==
    ASSUME NEW p, NEW q, SameDisk(p, q)
    PROVE  /\ \A no, k : Sec(q, no, k) = Sec(p, no, k)
           /\ \A no, k, c : E(q, no, k, c) = E(p, no, k, c)
           /\ \A no : IsDir(q, no) <=> IsDir(p, no)
           /\ \A no : FilledAt(q, no) = FilledAt(p, no)
<1>1. \A no, k : Sec(q, no, k) = Sec(p, no, k)
  BY DEF SameDisk, Sec
<1>2. \A no, k, c : E(q, no, k, c) = E(p, no, k, c)
  BY <1>1 DEF SameDisk, E
<1>3. \A no : FilledAt(q, no) = FilledAt(p, no)
  BY <1>2 DEF FilledAt
<1> QED
  BY <1>1, <1>2, <1>3 DEF IsDir

LEMMA SameDiskFits ==
    ASSUME NEW p, NEW q, SameDisk(p, q), IsPart(q), Layout(p)
    PROVE  /\ Layout(q)
           /\ SizesFit(p) => SizesFit(q)
           /\ NamesFit(p) => NamesFit(q)
<1>1. /\ \A no, k : Sec(q, no, k) = Sec(p, no, k)
      /\ \A no, k, c : E(q, no, k, c) = E(p, no, k, c)
      /\ \A no : IsDir(q, no) <=> IsDir(p, no)
      /\ \A no : FilledAt(q, no) = FilledAt(p, no)
      /\ q.inodes = p.inodes /\ q.blocks = p.blocks /\ q.disk = p.disk
      /\ q.entries = p.entries
  BY SameDiskEntries DEF SameDisk
<1>2. Layout(q)
  BY <1>1 DEF Layout
<1>3. SizesFit(p) => SizesFit(q)
  BY <1>1 DEF SizesFit
<1>4. NamesFit(p) => NamesFit(q)
  BY <1>1, SameNames DEF SameEntries, Layout
<1> QED
  BY <1>2, <1>3, <1>4

\* What is read into memory or leaves it changes nothing for the callers.
LEMMA MemoryOnly ==
    ASSUME NEW p, NEW q, SameDisk(p, q), IsPart(q), Cached(q), PartFits(p)
    PROVE  /\ PartFits(q)
           /\ \A path \in Seq(Names) : SearchFile(q, path) = SearchFile(p, path)
<1>1. Layout(q) /\ SizesFit(q) /\ NamesFit(q)
  BY SameDiskFits DEF PartFits
<1>2. Readable(p) /\ Readable(q)
  BY <1>1 DEF PartFits, Readable
<1>3. SameEntries(p, q)
  BY SameDiskEntries DEF SameEntries, SameDisk
<1>4. \A path \in Seq(Names) : SearchFile(q, path) = SearchFile(p, path)
  BY <1>2, <1>3, SamePaths
<1>5. Reached(q)
  BY <1>2, <1>3, SameReached DEF PartFits
<1> QED
  BY <1>1, <1>4, <1>5 DEF PartFits

-----------------------------------------------------------------------------
(* How many slots and handles an inode has.                                *)

LEMMA AtAdded ==
    ASSUME NEW f, IsFiniteSet(DOMAIN f), NEW x, x \notin DOMAIN f, NEW v, NEW no
    PROVE  Cardinality(At(With(f, x, v), no)) =
              Cardinality(At(f, no)) + (IF v.no = no THEN 1 ELSE 0)
<1> DEFINE g == With(f, x, v)
<1>1. g = [y \in DOMAIN f \cup {x} |-> IF y = x THEN v ELSE f[y]]
  BY DEF With
<1> HIDE DEF g
<1>2. At(g, no) = IF v.no = no THEN At(f, no) \cup {x} ELSE At(f, no)
  BY <1>1 DEF At
<1>3. IsFiniteSet(At(f, no)) /\ x \notin At(f, no)
  <2>1. At(f, no) \subseteq DOMAIN f
    BY DEF At
  <2> QED
    BY <2>1, FS_Subset
<1>4. Cardinality(At(f, no)) \in Nat
  BY <1>3, FS_CardinalityType
<1>5. Cardinality(At(f, no) \cup {x}) = Cardinality(At(f, no)) + 1
  BY <1>3, FS_AddElement
<1>6. CASE v.no = no
  BY <1>2, <1>5, <1>6 DEF g
<1>7. CASE v.no # no
  BY <1>2, <1>4, <1>7 DEF g
<1> QED
  BY <1>6, <1>7

LEMMA AtRemoved ==
    ASSUME NEW f, IsFiniteSet(DOMAIN f), NEW x \in DOMAIN f, NEW no
    PROVE  Cardinality(At(Restrict(f, DOMAIN f \ {x}), no)) =
              Cardinality(At(f, no)) - (IF f[x].no = no THEN 1 ELSE 0)
<1> DEFINE g == Restrict(f, DOMAIN f \ {x})
<1>1. g = [y \in DOMAIN f \ {x} |-> f[y]]
  BY DEF Restrict
<1> HIDE DEF g
<1>2. At(g, no) = At(f, no) \ {x}
  BY <1>1 DEF At
<1>3. IsFiniteSet(At(f, no)) /\ (f[x].no = no <=> x \in At(f, no))
  <2>1. At(f, no) \subseteq DOMAIN f
    BY DEF At
  <2> QED
    BY <2>1, FS_Subset DEF At
<1>4. Cardinality(At(f, no)) \in Nat
  BY <1>3, FS_CardinalityType
<1>5. CASE f[x].no = no
  <2>1. Cardinality(At(f, no) \ {x}) = Cardinality(At(f, no)) - 1
    BY <1>3, <1>5, FS_RemoveElement
  <2> QED
    BY <1>2, <1>5, <2>1 DEF g
<1>6. CASE f[x].no # no
  <2>1. At(f, no) \ {x} = At(f, no)
    BY <1>3, <1>6
  <2>2. Cardinality(At(g, no)) = Cardinality(At(f, no))
    BY <1>2, <2>1
  <2>3. Cardinality(At(f, no)) - 0 = Cardinality(At(f, no))
    BY <1>4
  <2> QED
    BY <1>6, <2>2, <2>3 DEF g
<1> QED
  BY <1>5, <1>6

LEMMA HandlesFinite ==
    ASSUME NEW p, NEW files, NEW fds, NEW handles, NEW work,
           HandlesFit(p, files, fds, handles, work)
    PROVE  /\ IsFiniteSet(DOMAIN files) /\ IsFiniteSet(DOMAIN handles)
           /\ \A no : /\ IsFiniteSet(At(files, no)) /\ Cardinality(At(files, no)) \in Nat
                      /\ IsFiniteSet(At(handles, no)) /\ Cardinality(At(handles, no)) \in Nat
                      /\ Cardinality(At(files, no)) = 0 <=> At(files, no) = {}
                      /\ Cardinality(At(handles, no)) = 0 <=> At(handles, no) = {}
<1>1. IsFiniteSet(FileSlots) /\ IsFiniteSet(Handles)
  <2>1. SlotCount \in Int /\ HandleCount \in Int /\ 1 \in Int
    BY FsAssumption, FsDirsAssumption
  <2> QED
    BY <2>1, FS_Interval DEF FileSlots, Handles
<1>2. IsFiniteSet({RootHandle} \cup Handles)
  BY <1>1, FS_AddElement
<1>3. DOMAIN files \subseteq FileSlots /\ DOMAIN handles \subseteq {RootHandle} \cup Handles
  BY DEF HandlesFit
<1>4. IsFiniteSet(DOMAIN files) /\ IsFiniteSet(DOMAIN handles)
  BY <1>1, <1>2, <1>3, FS_Subset
<1>5. ASSUME NEW no
      PROVE  /\ IsFiniteSet(At(files, no)) /\ Cardinality(At(files, no)) \in Nat
             /\ IsFiniteSet(At(handles, no)) /\ Cardinality(At(handles, no)) \in Nat
             /\ Cardinality(At(files, no)) = 0 <=> At(files, no) = {}
             /\ Cardinality(At(handles, no)) = 0 <=> At(handles, no) = {}
  <2>1. At(files, no) \subseteq DOMAIN files /\ At(handles, no) \subseteq DOMAIN handles
    BY DEF At
  <2>2. IsFiniteSet(At(files, no)) /\ IsFiniteSet(At(handles, no))
    BY <1>4, <2>1, FS_Subset
  <2> QED
    BY <2>2, FS_CardinalityType, FS_EmptySet
<1> QED
  BY <1>4, <1>5

\* An inode in memory but the root's is that of a slot or of a handle.
LEMMA OpenUsed ==
    ASSUME NEW p, NEW files, NEW fds, NEW handles, NEW work, IsPart(p),
           HandlesFit(p, files, fds, handles, work)
    PROVE  /\ \A x \in DOMAIN files : files[x].no \in DOMAIN p.open
           /\ \A x \in DOMAIN handles : handles[x].no \in DOMAIN p.open
           /\ \A no \in DOMAIN p.open \ {Root} :
                 (\E x \in DOMAIN files : files[x].no = no)
                     \/ (\E x \in DOMAIN handles : handles[x].no = no)
<1>1. \A no : /\ Cardinality(At(files, no)) \in Nat /\ Cardinality(At(handles, no)) \in Nat
              /\ Cardinality(At(files, no)) = 0 <=> At(files, no) = {}
              /\ Cardinality(At(handles, no)) = 0 <=> At(handles, no) = {}
  BY HandlesFinite
<1>2. /\ Root \in DOMAIN p.open
      /\ \A no \in Inodes \ {Root} :
            Count(p, no) = Cardinality(At(files, no)) + Cardinality(At(handles, no))
      /\ \A x \in DOMAIN files : files[x].no \in Inodes
      /\ \A x \in DOMAIN handles : handles[x].no \in Inodes
  BY DEF HandlesFit
<1>3. \A no \in DOMAIN p.open : no \in Inodes /\ Count(p, no) \in Nat /\ Count(p, no) >= 1
  BY OpenTyped DEF Count
<1>4. \A no \in Inodes : no \notin DOMAIN p.open => Count(p, no) = 0
  BY DEF Count
<1>5. ASSUME NEW no \in Inodes \ {Root}
      PROVE  no \in DOMAIN p.open <=> At(files, no) # {} \/ At(handles, no) # {}
  BY <1>1, <1>2, <1>3, <1>4
<1>6. ASSUME NEW x \in DOMAIN files
      PROVE  files[x].no \in DOMAIN p.open
  <2>1. x \in At(files, files[x].no)
    BY DEF At
  <2> QED
    BY <1>2, <1>5, <2>1
<1>7. ASSUME NEW x \in DOMAIN handles
      PROVE  handles[x].no \in DOMAIN p.open
  <2>1. x \in At(handles, handles[x].no)
    BY DEF At
  <2> QED
    BY <1>2, <1>5, <2>1
<1>8. ASSUME NEW no \in DOMAIN p.open \ {Root}
      PROVE  (\E x \in DOMAIN files : files[x].no = no)
                 \/ (\E x \in DOMAIN handles : handles[x].no = no)
  <2>1. At(files, no) # {} \/ At(handles, no) # {}
    BY <1>3, <1>5
  <2> QED
    BY <2>1 DEF At
<1> QED
  BY <1>6, <1>7, <1>8

-----------------------------------------------------------------------------
(* Where sync_dir_entry puts an entry.                                     *)

\* q is p with the entry e in a free cell of the directory d, in a block that d has
\* or in a free one that d gets.
Placed(p, q, d, e, k0, c0, b) ==
    /\ k0 \in Idx /\ c0 \in Cells /\ b \in DataBlocks
    /\ Sec(p, d, k0) = b \/ (Sec(p, d, k0) = Nil /\ b \notin p.blocks)
    /\ q.blocks = p.blocks \cup {b}
    /\ \A no \in Inodes \ {d} : q.disk[no] = p.disk[no]
    /\ q.disk[d].size = p.disk[d].size + 1
    /\ \A k \in 0..Direct : Sec(q, d, k) = IF k = k0 THEN b ELSE Sec(p, d, k)
    /\ p.entries[b][c0] = NoEntry
    /\ \A x \in DataBlocks, c \in Cells :
          q.entries[x][c] = IF x = b /\ c = c0 THEN e ELSE p.entries[x][c]

\* Of the inodes in memory that of no follows the disk.
Followed(p, q, no) ==
    /\ DOMAIN q.open = DOMAIN p.open
    /\ \A m \in DOMAIN p.open :
          /\ q.open[m].count = p.open[m].count
          /\ q.open[m].inode = IF m = no THEN q.disk[no] ELSE p.open[m].inode

Free(p, no) == {k \in Idx : \E c \in Cells : E(p, no, k, c) = NoEntry}

\* The place is the first index with a free cell, and a direct one if there is one.
LEMMA PlaceIs ==
    ASSUME NEW p, IsPart(p), NEW d \in Inodes, Inode(p, d) = p.disk[d], Free(p, d) # {},
           NEW k, k = Place(p, p.disk[d])
    PROVE  /\ k \in Idx
           /\ Sec(p, d, k) = Nil => PlaceNeeds(p, d) = 1
           /\ Sec(p, d, k) # Nil => /\ PlaceNeeds(p, d) = 0
                                    /\ \E c \in Cells : p.entries[Sec(p, d, k)][c] = NoEntry
<1> DEFINE S == {i \in 0..MaxBlocks - 1 :
                    \/ i >= Direct
                    \/ p.disk[d].sectors[i] = Nil
                    \/ \E c \in Cells : p.entries[p.disk[d].sectors[i]][c] = NoEntry}
<1>1. k = Min(S)
  BY DEF Place
<1>2. PICK i \in Idx : \E c \in Cells : E(p, d, i, c) = NoEntry
  BY DEF Free
<1>3. i \in S
  <2>1. i \in 0..MaxBlocks - 1
    BY <1>2, Sizes DEF Idx, MaxBlocks
  <2> QED
    BY <1>2, <2>1 DEF E, Sec
<1>4. S \subseteq Nat /\ S # {}
  <2>1. S \subseteq 0..MaxBlocks - 1
    OBVIOUS
  <2>2. 0..MaxBlocks - 1 \subseteq Nat
    BY Sizes DEF MaxBlocks
  <2> QED
    BY <1>3, <2>1, <2>2
<1>5. k \in S /\ k <= i
  <2> HIDE DEF S
  <2> QED
    BY <1>1, <1>3, <1>4, MinLemma
<1>6. k \in Idx /\ ~(k >= Direct)
  <2>1. k \in Nat /\ k <= i
    BY <1>4, <1>5
  <2>2. i \in Nat /\ i <= Direct - 1 /\ Direct \in Nat
    BY <1>2, Sizes DEF Idx
  <2> HIDE DEF S
  <2> QED
    BY <2>1, <2>2 DEF Idx
<1>7. Sec(p, d, k) = Nil \/ \E c \in Cells : p.entries[Sec(p, d, k)][c] = NoEntry
  BY <1>5, <1>6 DEF Sec
<1>8. PlaceNeeds(p, d) = IF Sec(p, d, k) = Nil THEN 1 ELSE 0
  <2> HIDE DEF S
  <2> QED
    BY <1>6 DEF PlaceNeeds, Sec
<1> QED
  BY <1>6, <1>7, <1>8

\* An inode in memory, the bitmap and the blocks change, and inode_sync follows.
Synced(p, d, g, B, x) ==
    InodeSync([p EXCEPT !.blocks = B, !.entries = x, !.open[d].inode = g], d, g)

BlocksTyped(B, x) == B \subseteq DataBlocks /\ x \in [DataBlocks -> [Cells -> EntryType]]

LEMMA SyncedIs ==
    ASSUME SmallNumbers, NEW p, IsPart(p), NEW d \in DOMAIN p.open, NEW g \in InodeType,
           NEW B, NEW x, BlocksTyped(B, x),
           NEW q, q = Synced(p, d, g, B, x)
    PROVE  /\ IsPart(q) /\ q.inodes = p.inodes /\ q.tables = p.tables
           /\ q.blocks = B /\ q.entries = x
           /\ q.disk[d] = g /\ \A m \in Inodes \ {d} : q.disk[m] = p.disk[m]
           /\ Followed(p, q, d)
<1> DEFINE o == [p.open EXCEPT ![d].inode = g]
           k == [p.disk EXCEPT ![d] = g]
<1>1. /\ p = [inodes |-> p.inodes, blocks |-> p.blocks, disk |-> p.disk, open |-> p.open,
              entries |-> p.entries, tables |-> p.tables]
      /\ p.inodes \subseteq Inodes /\ p.disk \in [Inodes -> InodeType]
      /\ DOMAIN p.open \subseteq Inodes /\ p.open \in [DOMAIN p.open -> OpenType]
      /\ p.tables \in [DataBlocks -> Tables]
  BY DEF IsPart
<1>2. d \in Inodes /\ d % 256 = d
  <2>1. d \in Inodes
    BY <1>1
  <2>2. d \in Nat /\ d < 256
    BY <2>1, Sizes DEF Inodes, SmallNumbers
  <2> QED
    BY <2>1, <2>2
<1>3. q = [inodes |-> p.inodes, blocks |-> B, disk |-> k, open |-> o,
           entries |-> x, tables |-> p.tables]
  BY <1>1, <1>2 DEF InodeSync, Synced
<1>4. /\ q.inodes = p.inodes /\ q.blocks = B /\ q.disk = k /\ q.open = o
      /\ q.entries = x /\ q.tables = p.tables
  BY <1>3
<1>5. /\ k \in [Inodes -> InodeType] /\ k[d] = g
      /\ \A m \in Inodes \ {d} : k[m] = p.disk[m]
  BY <1>1, <1>2
<1>6. /\ DOMAIN o = DOMAIN p.open /\ o \in [DOMAIN o -> OpenType]
      /\ \A m \in DOMAIN p.open :
            /\ o[m].count = p.open[m].count
            /\ o[m].inode = IF m = d THEN g ELSE p.open[m].inode
  <2>1. DOMAIN o = DOMAIN p.open
    OBVIOUS
  <2>2. ASSUME NEW m \in DOMAIN p.open
        PROVE  /\ o[m] \in OpenType
               /\ o[m].count = p.open[m].count
               /\ o[m].inode = IF m = d THEN g ELSE p.open[m].inode
    <3>1. p.open[m] \in OpenType
      BY <1>1
    <3>2. CASE m = d
      BY <3>1, <3>2 DEF OpenType
    <3>3. CASE m # d
      BY <3>1, <3>3
    <3> QED
      BY <3>2, <3>3
  <2> QED
    BY <2>1, <2>2
<1> HIDE DEF o, k
<1>7. IsPart(q)
  BY <1>1, <1>3, <1>4, <1>5, <1>6 DEF IsPart, BlocksTyped
<1>8. Followed(p, q, d)
  BY <1>4, <1>5, <1>6 DEF Followed
<1> QED
  BY <1>4, <1>5, <1>7, <1>8

\* What sync_dir_entry does to a directory that has a place for the entry.
LEMMA SyncDirEntryIs ==
    ASSUME SmallNumbers, NEW p, IsPart(p), NEW d \in DOMAIN p.open, NEW e \in EntryType,
           Inode(p, d) = p.disk[d], Free(p, d) # {},
           \A b \in DataBlocks \ p.blocks, c \in Cells : p.entries[b][c] = NoEntry,
           \A k \in Idx : Sec(p, d, k) \in p.blocks \cup {Nil},
           PlaceNeeds(p, d) <= Cardinality(FreeBlocks(p.blocks)),
           NEW q, q = SyncDirEntry(p, d, e)
    PROVE  /\ IsPart(q) /\ q.inodes = p.inodes /\ q.tables = p.tables
           /\ Followed(p, q, d)
           /\ \E k0, c0, b : Placed(p, q, d, e, k0, c0, b)
<1> DEFINE inode == p.open[d].inode
           k == Place(p, inode)
           s == inode.sectors[k]
           b == NthFree(p.blocks, 1)
           cell == Min({j \in Cells : p.entries[s][j] = NoEntry})
           g == [size |-> inode.size + 1, sectors |-> inode.sectors]
           h == [size |-> inode.size + 1,
                 sectors |-> [inode.sectors EXCEPT ![Min({k, Direct})] = b]]
           fresh == [NoEntries EXCEPT ![0] = e]
           c2 == NthFree(p.blocks, 2)
           grown == [size |-> inode.size + 1,
                     sectors |-> IF PlaceNeeds(p, d) = 0 THEN inode.sectors
                                 ELSE [inode.sectors EXCEPT ![Min({k, Direct})] = b]]
           written == CASE PlaceNeeds(p, d) = 0 -> [p EXCEPT !.entries[s][cell] = e]
                        [] PlaceNeeds(p, d) = 1 ->
                             [p EXCEPT !.blocks = @ \cup {b}, !.entries[b] = fresh]
                        [] OTHER ->
                             [p EXCEPT !.blocks = @ \cup {b, c2},
                                       !.entries[c2] = [NoEntries EXCEPT ![0] = e],
                                       !.tables[b] = [NoTable EXCEPT ![0] = c2]]
<1>a. q = InodeSync([written EXCEPT !.open[d].inode = grown], d, grown)
  BY DEF SyncDirEntry
<1>1. PlaceNeeds(p, d) = 0 =>
          q = InodeSync([[p EXCEPT !.entries[s][cell] = e] EXCEPT !.open[d].inode = g], d, g)
  <2>1. PlaceNeeds(p, d) = 0 => grown = g /\ written = [p EXCEPT !.entries[s][cell] = e]
    <3> HIDE DEF s, cell, b, c2, k
    <3> QED
      OBVIOUS
  <2> QED
    <3> HIDE DEF grown, written, g, s, cell
    <3> QED
      BY <1>a, <2>1
<1>2. PlaceNeeds(p, d) = 1 =>
          q = InodeSync([[p EXCEPT !.blocks = @ \cup {b}, !.entries[b] = fresh]
                         EXCEPT !.open[d].inode = h], d, h)
  <2>1. PlaceNeeds(p, d) = 1 =>
            /\ grown = h
            /\ written = [p EXCEPT !.blocks = @ \cup {b}, !.entries[b] = fresh]
    <3> HIDE DEF s, cell, b, c2, k
    <3> QED
      OBVIOUS
  <2> QED
    <3> HIDE DEF grown, written, h, b, fresh
    <3> QED
      BY <1>a, <2>1
<1>3. cell = Min({j \in Cells : p.entries[s][j] = NoEntry}) /\ b = NthFree(p.blocks, 1)
  OBVIOUS
<1>4. d \in Inodes /\ inode \in InodeType /\ inode = p.disk[d]
  BY OpenTyped DEF Inode
<1>5. /\ k \in Idx
      /\ Sec(p, d, k) = Nil => PlaceNeeds(p, d) = 1
      /\ Sec(p, d, k) # Nil => /\ PlaceNeeds(p, d) = 0
                               /\ \E c \in Cells : p.entries[Sec(p, d, k)][c] = NoEntry
  BY <1>4, PlaceIs
<1>6. s = Sec(p, d, k)
  BY <1>4 DEF Sec
<1> HIDE DEF k, cell, b
<1>7. /\ inode.size \in Nat /\ inode.sectors \in [0..Direct -> DataBlocks \cup {Nil}]
      /\ k \in 0..Direct /\ Min({k, Direct}) = k
  <2>1. k \in 0..Direct /\ k < Direct
    BY <1>5, Sizes DEF Idx
  <2>2. {k, Direct} \subseteq Nat /\ {k, Direct} # {}
    BY <2>1, Sizes
  <2>3. Min({k, Direct}) \in {k, Direct} /\ Min({k, Direct}) <= k
    BY <2>2, MinLemma
  <2> QED
    BY <1>4, <2>1, <2>3, Sizes DEF InodeType, Sectors
<1>8. /\ p.entries \in [DataBlocks -> [Cells -> EntryType]] /\ p.blocks \subseteq DataBlocks
      /\ p = [inodes |-> p.inodes, blocks |-> p.blocks, disk |-> p.disk, open |-> p.open,
              entries |-> p.entries, tables |-> p.tables]
  BY DEF IsPart
<1>9. CASE s # Nil
  <2>1. cell \in Cells /\ p.entries[s][cell] = NoEntry
    <3>1. /\ {j \in Cells : p.entries[s][j] = NoEntry} \subseteq Nat
          /\ {j \in Cells : p.entries[s][j] = NoEntry} # {}
      BY <1>5, <1>6, <1>9, Sizes
    <3> QED
      BY <1>3, <3>1, MinLemma
  <2>2. s \in p.blocks /\ s \in DataBlocks
    BY <1>5, <1>6, <1>8, <1>9
  <2> DEFINE x == [p.entries EXCEPT ![s][cell] = e]
  <2>3. q = Synced(p, d, g, p.blocks, x)
    BY <1>1, <1>5, <1>6, <1>8, <1>9 DEF Synced
  <2>4. g \in InodeType /\ g.size = inode.size + 1 /\ g.sectors = inode.sectors
    BY <1>7 DEF InodeType, Sectors
  <2>5. /\ x \in [DataBlocks -> [Cells -> EntryType]]
        /\ \A y \in DataBlocks, c \in Cells :
              x[y][c] = IF y = s /\ c = cell THEN e ELSE p.entries[y][c]
    BY <1>8, <2>1, <2>2
  <2> HIDE DEF g, x
  <2>6. /\ IsPart(q) /\ q.inodes = p.inodes /\ q.tables = p.tables
        /\ q.blocks = p.blocks /\ q.entries = x
        /\ q.disk[d] = g /\ \A m \in Inodes \ {d} : q.disk[m] = p.disk[m]
        /\ Followed(p, q, d)
    <3>1. g \in InodeType
      BY <2>4
    <3>2. BlocksTyped(p.blocks, x)
      BY <1>8, <2>5 DEF BlocksTyped
    <3> HIDE DEF s, inode
    <3> QED
      BY <2>3, <3>1, <3>2, SyncedIs
  <2>7. \A i \in 0..Direct : Sec(q, d, i) = IF i = k THEN s ELSE Sec(p, d, i)
    BY <1>4, <1>6, <2>4, <2>6 DEF Sec
  <2>8. q.disk[d].size = p.disk[d].size + 1
    BY <1>4, <2>4, <2>6
  <2>9. Placed(p, q, d, e, k, cell, s)
    <3> HIDE DEF s, inode
    <3> QED
      BY <1>5, <1>6, <2>1, <2>2, <2>5, <2>6, <2>7, <2>8 DEF Placed
  <2> QED
    BY <2>6, <2>9
<1>10. CASE s = Nil
  <2>1. b \in DataBlocks \ p.blocks
    <3> DEFINE T == p.blocks
    <3>1. 1 <= Cardinality(FreeBlocks(T))
      BY <1>5, <1>6, <1>10
    <3> HIDE DEF T, s, inode, g, h, fresh, c2, grown, written
    <3>2. NthFree(T, 1) \in FreeBlocks(T)
      BY <3>1, NthFreeLemma
    <3> QED
      BY <1>3, <3>2 DEF FreeBlocks, T
  <2>2. p.entries[b] = NoEntries
    BY <1>8, <2>1 DEF NoEntries
  <2> DEFINE x == [p.entries EXCEPT ![b] = fresh]
             B == p.blocks \cup {b}
  <2>3. q = Synced(p, d, h, B, x)
    BY <1>2, <1>5, <1>6, <1>8, <1>10 DEF Synced
  <2>4. /\ h \in InodeType /\ h.size = inode.size + 1
        /\ \A i \in 0..Direct : h.sectors[i] = IF i = k THEN b ELSE inode.sectors[i]
    <3> DEFINE t == [inode.sectors EXCEPT ![k] = b]
    <3>1. h = [size |-> inode.size + 1, sectors |-> t]
      BY <1>7
    <3>2. /\ t \in [0..Direct -> DataBlocks \cup {Nil}]
          /\ \A i \in 0..Direct : t[i] = IF i = k THEN b ELSE inode.sectors[i]
      BY <1>7, <2>1
    <3>3. inode.size + 1 \in Nat
      BY <1>7
    <3> HIDE DEF t, h, inode
    <3> QED
      BY <3>1, <3>2, <3>3 DEF InodeType, Sectors
  <2>5. /\ x \in [DataBlocks -> [Cells -> EntryType]]
        /\ \A y \in DataBlocks, c \in Cells :
              x[y][c] = IF y = b /\ c = 0 THEN e ELSE p.entries[y][c]
    BY <1>8, <2>1, <2>2, Sizes DEF NoEntries
  <2> HIDE DEF h, x
  <2>6. /\ IsPart(q) /\ q.inodes = p.inodes /\ q.tables = p.tables
        /\ q.blocks = B /\ q.entries = x
        /\ q.disk[d] = h /\ \A m \in Inodes \ {d} : q.disk[m] = p.disk[m]
        /\ Followed(p, q, d)
    <3>1. h \in InodeType
      BY <2>4
    <3>2. BlocksTyped(B, x)
      BY <1>8, <2>1, <2>5 DEF BlocksTyped
    <3> HIDE DEF s, inode, B
    <3> QED
      BY <2>3, <3>1, <3>2, SyncedIs
  <2>7. \A i \in 0..Direct : Sec(q, d, i) = IF i = k THEN b ELSE Sec(p, d, i)
    BY <1>4, <1>6, <2>4, <2>6 DEF Sec
  <2>8. q.disk[d].size = p.disk[d].size + 1
    BY <1>4, <2>4, <2>6
  <2>9. p.entries[b][0] = NoEntry
    BY <2>1, Sizes
  <2>10. Placed(p, q, d, e, k, 0, b)
    <3> HIDE DEF s, inode
    <3> QED
      BY <1>5, <1>6, <1>10, <2>1, <2>5, <2>6, <2>7, <2>8, <2>9, Sizes DEF Placed
  <2> QED
    BY <2>6, <2>10
<1> QED
  BY <1>9, <1>10

\* While an inode is free a directory has a place: each entry has its own inode.
LEMMA FreePlace ==
    ASSUME ShortDirs, NEW p, IsPart(p), Root \in p.inodes, NamesFit(p),
           NEW d \in p.inodes, IsDir(p, d), NEW n \in Inodes \ p.inodes
    PROVE  Free(p, d) # {}
<1> SUFFICES ASSUME \A k \in Idx, c \in Cells : E(p, d, k, c) # NoEntry PROVE FALSE
  BY DEF Free
<1> DEFINE f == [at \in Idx \X Cells |->
                    IF at[1] = 0 /\ at[2] = 0 THEN Root
                    ELSE IF at[1] = 0 /\ at[2] = 1 THEN n
                    ELSE E(p, d, at[1], at[2]).no]
<1>1. d \in Inodes /\ n \in Inodes /\ Root \in Inodes /\ n # Root
  BY Sizes DEF IsPart
<1>2. ASSUME NEW k \in Idx, NEW c \in Cells, ~(k = 0 /\ c = 0), ~(k = 0 /\ c = 1)
      PROVE  /\ IsNamed(p, d, k, c)
             /\ E(p, d, k, c).no \in p.inodes \ {Root}
             /\ E(p, d, k, c).no \in Inodes \ {Root, n}
  <2>1. E(p, d, k, c) \in EntryType /\ E(p, d, k, c) # NoEntry
    BY <1>1, EntryTyped
  <2>2. /\ E(p, d, k, c).name = "." => k = 0 /\ c = 0
        /\ E(p, d, k, c).name = ".." => k = 0 /\ c = 1
    BY DEF NamesFit
  <2>3. IsNamed(p, d, k, c)
    BY <1>2, <2>1, <2>2, EntryKinds DEF IsNamed
  <2>4. E(p, d, k, c).no \in p.inodes \ {Root}
    BY <2>3, NameLeads
  <2> QED
    BY <2>3, <2>4 DEF IsPart
<1>3. f \in [Idx \X Cells -> Inodes]
  <2> SUFFICES ASSUME NEW at \in Idx \X Cells PROVE f[at] \in Inodes
    OBVIOUS
  <2>1. at[1] \in Idx /\ at[2] \in Cells
    OBVIOUS
  <2> QED
    BY <1>1, <1>2, <2>1
<1>4. PICK x, y \in Idx \X Cells : x # y /\ f[x] = f[y]
  <2>1. Cardinality(Inodes) < Cardinality(Idx \X Cells)
    BY FiniteParts DEF ShortDirs
  <2> HIDE DEF f
  <2> QED
    BY <1>3, <2>1, FiniteParts, FS_PigeonHole
<1>5. PICK k \in Idx, c \in Cells, l \in Idx, b \in Cells : x = <<k, c>> /\ y = <<l, b>>
  BY SMT
<1>6. /\ f[<<k, c>>] = IF k = 0 /\ c = 0 THEN Root ELSE IF k = 0 /\ c = 1 THEN n
                       ELSE E(p, d, k, c).no
      /\ f[<<l, b>>] = IF l = 0 /\ b = 0 THEN Root ELSE IF l = 0 /\ b = 1 THEN n
                       ELSE E(p, d, l, b).no
  BY <1>5
<1>7. f[<<k, c>>] = f[<<l, b>>] /\ ~(k = l /\ c = b)
  BY <1>4, <1>5
<1> HIDE DEF f
<1>8. /\ ~(k = 0 /\ c = 0) /\ ~(k = 0 /\ c = 1)
      /\ ~(l = 0 /\ b = 0) /\ ~(l = 0 /\ b = 1)
      /\ E(p, d, k, c).no = E(p, d, l, b).no
  <2>1. /\ ~(k = 0 /\ c = 0) /\ ~(k = 0 /\ c = 1) => E(p, d, k, c).no \in Inodes \ {Root, n}
        /\ ~(l = 0 /\ b = 0) /\ ~(l = 0 /\ b = 1) => E(p, d, l, b).no \in Inodes \ {Root, n}
    BY <1>2
  <2> QED
    BY <1>1, <1>6, <1>7, <2>1
<1> QED
  BY <1>2, <1>7, <1>8, NameOnce

-----------------------------------------------------------------------------
(* One entry more, or one less.                                            *)

LEMMA PlacedCells ==
    ASSUME NEW p, NEW q, NEW d \in Inodes, NEW e, NEW k0, NEW c0, NEW b,
           Placed(p, q, d, e, k0, c0, b), IsPart(p), p.inodes = q.inodes,
           \A m \in p.inodes, k \in Idx : Sec(q, m, k) = b => m = d /\ k = k0,
           b \notin p.blocks => \A c \in Cells : p.entries[b][c] = NoEntry
    PROVE  /\ \A m \in p.inodes, k \in Idx, c \in Cells :
                 E(q, m, k, c) = IF m = d /\ k = k0 /\ c = c0 THEN e ELSE E(p, m, k, c)
           /\ E(p, d, k0, c0) = NoEntry
<1>1. b \in DataBlocks /\ b # Nil /\ k0 \in Idx /\ c0 \in Cells
  BY Sizes DEF Placed
<1>2. ASSUME NEW m \in p.inodes, NEW k \in Idx, NEW c \in Cells
      PROVE  E(q, m, k, c) = IF m = d /\ k = k0 /\ c = c0 THEN e ELSE E(p, m, k, c)
  <2>1. m \in Inodes /\ k \in 0..Direct
    BY Sizes DEF IsPart
  <2>2. \A x \in DataBlocks : q.entries[x][c] = IF x = b /\ c = c0 THEN e ELSE p.entries[x][c]
    BY DEF Placed
  <2>3. CASE m = d /\ k = k0
    <3>1. Sec(q, m, k) = b /\ (Sec(p, d, k0) = b \/ (Sec(p, d, k0) = Nil /\ b \notin p.blocks))
      BY <2>1, <2>3 DEF Placed
    <3> QED
      BY <1>1, <2>2, <2>3, <3>1 DEF E
  <2>4. CASE ~(m = d /\ k = k0)
    <3>1. Sec(q, m, k) = Sec(p, m, k) /\ Sec(q, m, k) # b
      BY <2>1, <2>4 DEF Placed, Sec
    <3>2. Sec(p, m, k) \in DataBlocks \cup {Nil}
      BY <2>1, EntryTyped
    <3> QED
      BY <2>2, <2>4, <3>1, <3>2 DEF E
  <2> QED
    BY <2>3, <2>4
<1>3. E(p, d, k0, c0) = NoEntry
  <2>1. Sec(p, d, k0) = b \/ Sec(p, d, k0) = Nil
    BY DEF Placed
  <2>2. p.entries[b][c0] = NoEntry
    BY DEF Placed
  <2> QED
    BY <1>1, <2>1, <2>2 DEF E
<1> QED
  BY <1>2, <1>3

LEMMA PlacedLayout ==
    ASSUME NEW p, NEW q, NEW d \in p.inodes, NEW e, NEW k0, NEW c0, NEW b,
           Placed(p, q, d, e, k0, c0, b), IsPart(q), p.inodes = q.inodes, Layout(p)
    PROVE  /\ Layout(q)
           /\ \A m \in p.inodes, k \in Idx, c \in Cells :
                 E(q, m, k, c) = IF m = d /\ k = k0 /\ c = c0 THEN e ELSE E(p, m, k, c)
           /\ E(p, d, k0, c0) = NoEntry
<1>1. /\ IsPart(p) /\ Root \in p.inodes /\ Sec(p, Root, 0) = 1
      /\ \A no \in p.inodes : Sec(p, no, Direct) = Nil
      /\ \A x \in DataBlocks :
            x \in p.blocks <=> \E no \in p.inodes, k \in Idx : Sec(p, no, k) = x
      /\ \A no, m \in p.inodes, j, k \in Idx :
            Sec(p, no, j) # Nil /\ Sec(p, no, j) = Sec(p, m, k) => no = m /\ j = k
      /\ \A x \in DataBlocks \ p.blocks, c \in Cells : p.entries[x][c] = NoEntry
  BY DEF Layout
<1>2. p.inodes \subseteq Inodes /\ d \in Inodes
  BY <1>1 DEF IsPart
<1>3. /\ k0 \in Idx /\ c0 \in Cells /\ b \in DataBlocks /\ b # Nil
      /\ Sec(p, d, k0) = b \/ (Sec(p, d, k0) = Nil /\ b \notin p.blocks)
      /\ q.blocks = p.blocks \cup {b}
      /\ \A x \in DataBlocks, c \in Cells :
            q.entries[x][c] = IF x = b /\ c = c0 THEN e ELSE p.entries[x][c]
  BY Sizes DEF Placed
<1>4. \A m \in p.inodes, k \in 0..Direct :
          Sec(q, m, k) = IF m = d /\ k = k0 THEN b ELSE Sec(p, m, k)
  BY <1>2 DEF Placed, Sec
<1>5. \A m \in p.inodes, k \in Idx : Sec(p, m, k) = b => m = d /\ k = k0
  <2>1. b \notin p.blocks => ~ \E m \in p.inodes, k \in Idx : Sec(p, m, k) = b
    BY <1>1, <1>3
  <2> QED
    BY <1>1, <1>3, <2>1
<1>6. \A m \in p.inodes, k \in Idx : Sec(q, m, k) = b => m = d /\ k = k0
  BY <1>4, <1>5, Sizes
<1>7. /\ \A m \in p.inodes, k \in Idx, c \in Cells :
            E(q, m, k, c) = IF m = d /\ k = k0 /\ c = c0 THEN e ELSE E(p, m, k, c)
      /\ E(p, d, k0, c0) = NoEntry
  BY <1>1, <1>2, <1>3, <1>6, PlacedCells
<1>8. Layout(q)
  <2>1. Root \in q.inodes /\ Sec(q, Root, 0) = 1
    <3>1. Sec(q, Root, 0) = IF Root = d /\ 0 = k0 THEN b ELSE 1
      BY <1>1, <1>4, Sizes
    <3>2. Root = d /\ 0 = k0 => b = 1
      BY <1>1, <1>3, Sizes DEF Nil
    <3> QED
      BY <1>1, <3>1, <3>2
  <2>2. \A no \in q.inodes : Sec(q, no, Direct) = Nil
    BY <1>1, <1>3, <1>4, Sizes
  <2>3. ASSUME NEW x \in DataBlocks
        PROVE  x \in q.blocks <=> \E no \in q.inodes, k \in Idx : Sec(q, no, k) = x
    <3>1. CASE x = b
      BY <1>3, <1>4, <3>1, Sizes
    <3>2. CASE x # b
      <4>1. x \in q.blocks <=> \E no \in p.inodes, k \in Idx : Sec(p, no, k) = x
        BY <1>1, <1>3, <3>2
      <4>2. \A no \in p.inodes, k \in Idx : Sec(q, no, k) = x <=> Sec(p, no, k) = x
        <5>1. x # Nil
          BY Sizes
        <5> QED
          BY <1>3, <1>4, <3>2, <5>1, Sizes
      <4> QED
        BY <4>1, <4>2
    <3> QED
      BY <3>1, <3>2
  <2>4. ASSUME NEW no \in q.inodes, NEW m \in q.inodes, NEW j \in Idx, NEW k \in Idx,
               Sec(q, no, j) # Nil, Sec(q, no, j) = Sec(q, m, k)
        PROVE  no = m /\ j = k
    <3>1. j \in 0..Direct /\ k \in 0..Direct /\ no \in p.inodes /\ m \in p.inodes
      BY Sizes
    <3>2. CASE Sec(q, no, j) = b
      <4>1. Sec(q, m, k) = b
        BY <2>4, <3>2
      <4> QED
        BY <1>6, <3>1, <3>2, <4>1
    <3>3. CASE Sec(q, no, j) # b
      <4>1. Sec(q, no, j) = Sec(p, no, j) /\ Sec(q, m, k) = Sec(p, m, k)
        BY <1>4, <2>4, <3>1, <3>3
      <4>2. Sec(p, no, j) # Nil /\ Sec(p, no, j) = Sec(p, m, k)
        BY <2>4, <4>1
      <4> QED
        BY <1>1, <3>1, <4>2
    <3> QED
      BY <3>2, <3>3
  <2>5. \A x \in DataBlocks \ q.blocks, c \in Cells : q.entries[x][c] = NoEntry
    BY <1>1, <1>3
  <2> QED
    BY <2>1, <2>2, <2>3, <2>4, <2>5 DEF Layout
<1> QED
  BY <1>7, <1>8

\* The blocks of a file stay when others come and go.
LEMMA BlocksFitMoved ==
    ASSUME DirectOnly, NEW z, NEW s, NEW T, BlocksFit(z, s, T), NEW U, U \subseteq DataBlocks,
           1 \in U, \A i \in Idx : s[i] # Nil => s[i] \in U
    PROVE  BlocksFit(z, s, U)
<1>1. z \in 0..MaxSize /\ T \subseteq DataBlocks
  BY DEF BlocksFit
<1>2. UsedBlocks(z) <= Direct /\ UsedBlocks(z) \in Nat /\ Direct \in Nat
  BY <1>1, UsedFacts, Sizes
<1>3. ASSUME NEW i \in 0..Direct, i < UsedIn(z, s)
      PROVE  s[i] \in U \ {1}
  <2>1. s[i] \in T \ {1} /\ s[i] # Nil
    BY <1>1, <1>3, Sizes DEF BlocksFit
  <2>2. UsedIn(z, s) <= Direct /\ UsedIn(z, s) \in Nat
    BY <1>2 DEF UsedIn
  <2>3. i \in Idx
    BY <1>2, <1>3, <2>2 DEF Idx
  <2> QED
    BY <2>1, <2>3
<1> QED
  BY <1>3 DEF BlocksFit

LEMMA FilledFinite ==
    ASSUME NEW p, NEW no
    PROVE  IsFiniteSet(FilledAt(p, no)) /\ Cardinality(FilledAt(p, no)) \in Nat
<1>1. FilledAt(p, no) \subseteq Idx \X Cells
  BY DEF FilledAt
<1> QED
  BY <1>1, FiniteParts, FS_Subset, FS_CardinalityType

\* The places with an entry, when there is one more.
LEMMA FilledMore ==
    ASSUME NEW p, NEW q, NEW d, NEW k0 \in Idx, NEW c0 \in Cells, NEW e, e # NoEntry,
           \A k \in Idx, c \in Cells :
               E(q, d, k, c) = IF k = k0 /\ c = c0 THEN e ELSE E(p, d, k, c),
           E(p, d, k0, c0) = NoEntry
    PROVE  /\ FilledAt(q, d) = FilledAt(p, d) \cup {<<k0, c0>>}
           /\ Cardinality(FilledAt(q, d)) = Cardinality(FilledAt(p, d)) + 1
<1>1. <<k0, c0>> \notin FilledAt(p, d)
  BY DEF FilledAt
<1>2. FilledAt(q, d) = FilledAt(p, d) \cup {<<k0, c0>>}
  <2>1. ASSUME NEW at \in Idx \X Cells
        PROVE  at \in FilledAt(q, d) <=> at \in FilledAt(p, d) \cup {<<k0, c0>>}
    <3>1. at[1] \in Idx /\ at[2] \in Cells /\ at = <<at[1], at[2]>>
      OBVIOUS
    <3>2. CASE at[1] = k0 /\ at[2] = c0
      BY <3>1, <3>2 DEF FilledAt
    <3>3. CASE ~(at[1] = k0 /\ at[2] = c0)
      <4>1. at # <<k0, c0>>
        BY <3>3
      <4> QED
        BY <3>1, <3>3, <4>1 DEF FilledAt
    <3> QED
      BY <3>2, <3>3
  <2>2. FilledAt(q, d) \subseteq Idx \X Cells /\ FilledAt(p, d) \subseteq Idx \X Cells
    BY DEF FilledAt
  <2> QED
    BY <2>1, <2>2
<1> QED
  BY <1>1, <1>2, FilledFinite, FS_AddElement

LEMMA FilledSame ==
    ASSUME NEW p, NEW q, NEW d,
           \A k \in Idx, c \in Cells : E(q, d, k, c) = E(p, d, k, c)
    PROVE  FilledAt(q, d) = FilledAt(p, d)
<1>1. \A at \in Idx \X Cells : E(q, d, at[1], at[2]) = E(p, d, at[1], at[2])
  BY SMT
<1> QED
  BY <1>1 DEF FilledAt

LEMMA PlacedSizes ==
    ASSUME DirectOnly, NEW p, NEW q, NEW d \in p.inodes, NEW e, NEW k0, NEW c0, NEW b,
           Placed(p, q, d, e, k0, c0, b), IsPart(q), p.inodes = q.inodes, Layout(p),
           IsDir(p, d), e # NoEntry, SizesFit(p)
    PROVE  SizesFit(q)
<1>1. /\ Layout(q)
      /\ \A m \in p.inodes, k \in Idx, c \in Cells :
            E(q, m, k, c) = IF m = d /\ k = k0 /\ c = c0 THEN e ELSE E(p, m, k, c)
      /\ E(p, d, k0, c0) = NoEntry
  BY PlacedLayout
<1>2. /\ k0 \in Idx /\ c0 \in Cells /\ q.disk[d].size = p.disk[d].size + 1
      /\ \A no \in Inodes \ {d} : q.disk[no] = p.disk[no]
      /\ \A k \in Idx : Sec(q, d, k) = IF k = k0 THEN b ELSE Sec(p, d, k)
  BY Sizes DEF Placed
<1>3. p.inodes \subseteq Inodes
  BY DEF Layout, IsPart
<1>4. \A m \in p.inodes : IsDir(q, m) <=> IsDir(p, m)
  <2>1. E(p, d, 0, 0) # NoEntry
    BY NoEntryName DEF IsDir
  <2> QED
    BY <1>1, <2>1, Sizes DEF IsDir
<1>5. ASSUME NEW m \in p.inodes, IsDir(q, m)
      PROVE  /\ q.disk[m].size = Cardinality(FilledAt(q, m))
             /\ \A k \in Idx \ {0} :
                   Sec(q, m, k) # Nil => \E c \in Cells : E(q, m, k, c) # NoEntry
  <2>1. /\ p.disk[m].size = Cardinality(FilledAt(p, m))
        /\ \A k \in Idx \ {0} :
              Sec(p, m, k) # Nil => \E c \in Cells : E(p, m, k, c) # NoEntry
    BY <1>4, <1>5 DEF SizesFit
  <2>2. CASE m = d
    <3>1. q.disk[m].size = Cardinality(FilledAt(q, m))
      BY <1>1, <1>2, <2>1, <2>2, FilledMore
    <3>2. ASSUME NEW k \in Idx \ {0}, Sec(q, m, k) # Nil
          PROVE  \E c \in Cells : E(q, m, k, c) # NoEntry
      <4>1. CASE k = k0
        BY <1>1, <1>2, <2>2, <4>1
      <4>2. CASE k # k0
        BY <1>1, <1>2, <2>1, <2>2, <3>2, <4>2
      <4> QED
        BY <4>1, <4>2
    <3> QED
      BY <3>1, <3>2
  <2>3. CASE m # d
    <3>1. \A k \in Idx, c \in Cells : E(q, m, k, c) = E(p, m, k, c)
      BY <1>1, <2>3
    <3>2. q.disk[m] = p.disk[m]
      BY <1>2, <1>3, <2>3
    <3>3. \A k : Sec(q, m, k) = Sec(p, m, k)
      BY <3>2 DEF Sec
    <3> QED
      BY <2>1, <3>1, <3>2, <3>3, FilledSame
  <2> QED
    BY <2>2, <2>3
<1>6. ASSUME NEW m \in p.inodes, ~IsDir(q, m)
      PROVE  /\ BlocksFit(q.disk[m].size, q.disk[m].sectors, q.blocks)
             /\ \A k \in Idx, c \in Cells : E(q, m, k, c) = NoEntry
  <2>1. m # d /\ m \in Inodes /\ ~IsDir(p, m)
    BY <1>3, <1>4, <1>6
  <2>2. q.disk[m] = p.disk[m]
    BY <1>2, <2>1
  <2>3. /\ BlocksFit(p.disk[m].size, p.disk[m].sectors, p.blocks)
        /\ \A k \in Idx, c \in Cells : E(p, m, k, c) = NoEntry
    BY <2>1 DEF SizesFit
  <2>4. /\ q.blocks \subseteq DataBlocks
        /\ p.blocks \subseteq q.blocks
    BY <1>1 DEF Layout, IsPart, Placed
  <2>5. 1 \in p.blocks /\ \A i \in Idx : p.disk[m].sectors[i] # Nil
                              => p.disk[m].sectors[i] \in p.blocks
    <3>1. \A x \in DataBlocks :
              x \in p.blocks <=> \E no \in p.inodes, k \in Idx : Sec(p, no, k) = x
      BY DEF Layout
    <3>2. Root \in p.inodes /\ Sec(p, Root, 0) = 1 /\ IsPart(p)
      BY DEF Layout
    <3>3. \A i \in Idx : Sec(p, m, i) \in DataBlocks \cup {Nil}
      BY <2>1, <3>2, EntryTyped, Sizes
    <3> QED
      BY <3>1, <3>2, <3>3, Sizes DEF Sec
  <2>6. BlocksFit(p.disk[m].size, p.disk[m].sectors, q.blocks)
    BY <2>3, <2>4, <2>5, BlocksFitMoved
  <2> QED
    BY <1>1, <2>1, <2>2, <2>3, <2>6
<1> QED
  BY <1>5, <1>6 DEF SizesFit

-----------------------------------------------------------------------------
(* A new inode, before it has a name.                                      *)

\* The blocks of an inode are marked.
LEMMA Marked ==
    ASSUME NEW p, Layout(p), NEW no \in p.inodes
    PROVE  /\ \A k \in Idx : Sec(p, no, k) \in p.blocks \cup {Nil}
           /\ 1 \in p.blocks /\ p.blocks \subseteq DataBlocks
<1>1. /\ IsPart(p) /\ no \in Inodes
      /\ \A x \in DataBlocks :
            x \in p.blocks <=> \E m \in p.inodes, k \in Idx : Sec(p, m, k) = x
      /\ Root \in p.inodes /\ Sec(p, Root, 0) = 1
  BY DEF Layout, IsPart
<1>2. \A k \in Idx : Sec(p, no, k) \in DataBlocks \cup {Nil}
  BY <1>1, EntryTyped, Sizes
<1> QED
  BY <1>1, <1>2, Sizes DEF IsPart

Born(p, q, d, e, b) ==
    /\ e.no \in Inodes \ p.inodes /\ q.inodes = p.inodes \cup {e.no}
    /\ \A m \in Inodes \ {e.no} : q.disk[m] = p.disk[m]
    /\ IF e.type = "directory"
       THEN /\ b \in DataBlocks \ p.blocks /\ q.blocks = p.blocks \cup {b}
            /\ q.disk[e.no] = NewDir(b)
            /\ \A x \in DataBlocks :
                  q.entries[x] = IF x = b THEN Dots(e.no, d) ELSE p.entries[x]
       ELSE /\ q.blocks = p.blocks /\ q.disk[e.no] = EmptyInode /\ q.entries = p.entries

LEMMA DotsAre ==
    ASSUME NEW no, NEW d, NEW c \in Cells
    PROVE  Dots(no, d)[c] = IF c = 0 THEN Entry(".", no, "directory")
                            ELSE IF c = 1 THEN Entry("..", d, "directory") ELSE NoEntry
  BY Sizes DEF Dots, NoEntries

\* The blocks and the cells of the new inode.
LEMMA BornOne ==
    ASSUME NEW p, NEW q, NEW d, NEW e, NEW b, Born(p, q, d, e, b)
    PROVE  /\ \A k \in 0..Direct :
                 Sec(q, e.no, k) = IF e.type = "directory" /\ k = 0 THEN b ELSE Nil
           /\ \A k \in Idx, c \in Cells : E(q, e.no, k, c) = NewEntry(e, d, k, c)
<1>1. CASE e.type = "directory"
  <2>1. q.disk[e.no].sectors = [NoSectors EXCEPT ![0] = b] /\ b \in DataBlocks /\ b # Nil
    <3>1. q.disk[e.no] = NewDir(b) /\ b \in DataBlocks
      BY <1>1 DEF Born
    <3>2. NewDir(b).sectors = [NoSectors EXCEPT ![0] = b]
      BY DEF NewDir
    <3> QED
      BY <3>1, <3>2, Sizes
  <2>2. \A k \in 0..Direct : Sec(q, e.no, k) = IF k = 0 THEN b ELSE Nil
    BY <2>1, Sizes DEF Sec, NoSectors
  <2>3. q.entries[b] = Dots(e.no, d)
    BY <1>1, <2>1 DEF Born
  <2>4. \A k \in Idx, c \in Cells : E(q, e.no, k, c) = NewEntry(e, d, k, c)
    BY <1>1, <2>1, <2>2, <2>3, DotsAre, Sizes DEF E, NewEntry
  <2> QED
    BY <1>1, <2>2, <2>4
<1>2. CASE e.type # "directory"
  <2>1. q.disk[e.no].sectors = NoSectors
    BY <1>2 DEF Born, EmptyInode
  <2>2. \A k \in 0..Direct : Sec(q, e.no, k) = Nil
    BY <2>1 DEF Sec, NoSectors
  <2>3. \A k \in Idx, c \in Cells : E(q, e.no, k, c) = NewEntry(e, d, k, c)
    BY <1>2, <2>2, Sizes DEF E, NewEntry
  <2> QED
    BY <1>2, <2>2, <2>3
<1> QED
  BY <1>1, <1>2

LEMMA BornLayout ==
    ASSUME NEW p, NEW q, NEW d, NEW e, NEW b, Born(p, q, d, e, b), IsPart(q), Layout(p)
    PROVE  /\ Layout(q)
           /\ \A m \in p.inodes, k \in Idx, c \in Cells : E(q, m, k, c) = E(p, m, k, c)
           /\ \A k \in Idx, c \in Cells : E(q, e.no, k, c) = NewEntry(e, d, k, c)
<1>1. /\ IsPart(p) /\ Root \in p.inodes /\ Sec(p, Root, 0) = 1
      /\ \A no \in p.inodes : Sec(p, no, Direct) = Nil
      /\ \A x \in DataBlocks :
            x \in p.blocks <=> \E no \in p.inodes, k \in Idx : Sec(p, no, k) = x
      /\ \A no, m \in p.inodes, j, k \in Idx :
            Sec(p, no, j) # Nil /\ Sec(p, no, j) = Sec(p, m, k) => no = m /\ j = k
      /\ \A x \in DataBlocks \ p.blocks, c \in Cells : p.entries[x][c] = NoEntry
  BY DEF Layout
<1>2. /\ p.inodes \subseteq Inodes /\ e.no \in Inodes \ p.inodes
      /\ q.inodes = p.inodes \cup {e.no}
  BY <1>1 DEF IsPart, Born
<1>3. \A m \in p.inodes : q.disk[m] = p.disk[m] /\ \A k : Sec(q, m, k) = Sec(p, m, k)
  BY <1>2 DEF Born, Sec
<1>4. \A k \in 0..Direct :
          Sec(q, e.no, k) = IF e.type = "directory" /\ k = 0 THEN b ELSE Nil
  BY BornOne
<1>5. /\ e.type = "directory" => b \in DataBlocks \ p.blocks
      /\ q.blocks = IF e.type = "directory" THEN p.blocks \cup {b} ELSE p.blocks
      /\ \A x \in DataBlocks : ~(e.type = "directory" /\ x = b) => q.entries[x] = p.entries[x]
  BY DEF Born
<1>6. ASSUME NEW m \in p.inodes, NEW k \in Idx
      PROVE  /\ Sec(p, m, k) \in DataBlocks \cup {Nil}
             /\ e.type = "directory" => Sec(p, m, k) # b
             /\ \A c \in Cells : E(q, m, k, c) = E(p, m, k, c)
  <2>1. Sec(p, m, k) \in p.blocks \cup {Nil} /\ p.blocks \subseteq DataBlocks
    BY Marked
  <2>2. e.type = "directory" => Sec(p, m, k) # b
    BY <1>5, <2>1, Sizes
  <2> QED
    BY <1>3, <1>5, <2>1, <2>2 DEF E
<1>7. Layout(q)
  <2>1. Root \in q.inodes /\ Sec(q, Root, 0) = 1
    BY <1>1, <1>2, <1>3
  <2>2. \A no \in q.inodes : Sec(q, no, Direct) = Nil
    BY <1>1, <1>2, <1>3, <1>4, Sizes
  <2>3. ASSUME NEW x \in DataBlocks
        PROVE  x \in q.blocks <=> \E no \in q.inodes, k \in Idx : Sec(q, no, k) = x
    <3>1. (\E no \in q.inodes, k \in Idx : Sec(q, no, k) = x)
              <=> \/ \E no \in p.inodes, k \in Idx : Sec(p, no, k) = x
                  \/ e.type = "directory" /\ x = b
      <4>1. (\E k \in Idx : Sec(q, e.no, k) = x) <=> e.type = "directory" /\ x = b
        BY <1>4, Sizes
      <4> QED
        BY <1>2, <1>3, <4>1
    <3> QED
      BY <1>1, <1>5, <3>1
  <2>4. ASSUME NEW no \in q.inodes, NEW m \in q.inodes, NEW j \in Idx, NEW k \in Idx,
               Sec(q, no, j) # Nil, Sec(q, no, j) = Sec(q, m, k)
        PROVE  no = m /\ j = k
    <3>1. Sec(q, e.no, j) \in {b, Nil} /\ Sec(q, e.no, k) \in {b, Nil}
      BY <1>4, Sizes
    <3>2. CASE no \in p.inodes /\ m \in p.inodes
      <4>1. Sec(p, no, j) # Nil /\ Sec(p, no, j) = Sec(p, m, k)
        BY <1>3, <2>4, <3>2
      <4> QED
        BY <1>1, <3>2, <4>1
    <3>3. CASE no \notin p.inodes /\ m \notin p.inodes
      <4>1. no = e.no /\ m = e.no
        BY <1>2, <3>3
      <4> QED
        BY <1>4, <2>4, <4>1, Sizes
    <3>4. CASE no \in p.inodes /\ m \notin p.inodes
      <4>1. m = e.no /\ Sec(q, no, j) = Sec(p, no, j)
        BY <1>2, <1>3, <3>4
      <4>2. Sec(q, m, k) = b /\ e.type = "directory"
        BY <1>4, <2>4, <4>1, Sizes
      <4> QED
        BY <1>6, <2>4, <3>4, <4>1, <4>2
    <3>5. CASE no \notin p.inodes /\ m \in p.inodes
      <4>1. no = e.no /\ Sec(q, m, k) = Sec(p, m, k)
        BY <1>2, <1>3, <3>5
      <4>2. Sec(q, no, j) = b /\ e.type = "directory"
        BY <1>4, <2>4, <4>1, Sizes
      <4> QED
        BY <1>6, <2>4, <3>5, <4>1, <4>2
    <3> QED
      BY <3>2, <3>3, <3>4, <3>5
  <2>5. \A x \in DataBlocks \ q.blocks, c \in Cells : q.entries[x][c] = NoEntry
    BY <1>1, <1>5
  <2> QED
    BY <2>1, <2>2, <2>3, <2>4, <2>5 DEF Layout
<1> QED
  BY <1>6, <1>7, BornOne

LEMMA BornSizes ==
    ASSUME DirectOnly, NEW p, NEW q, NEW d, NEW e, NEW b, Born(p, q, d, e, b),
           IsPart(q), Layout(p), SizesFit(p)
    PROVE  SizesFit(q)
<1>1. /\ Layout(q)
      /\ \A m \in p.inodes, k \in Idx, c \in Cells : E(q, m, k, c) = E(p, m, k, c)
      /\ \A k \in Idx, c \in Cells : E(q, e.no, k, c) = NewEntry(e, d, k, c)
  BY BornLayout
<1>2. /\ p.inodes \subseteq Inodes /\ e.no \in Inodes \ p.inodes
      /\ q.inodes = p.inodes \cup {e.no}
  BY DEF Layout, IsPart, Born
<1>3. \A m \in p.inodes : q.disk[m] = p.disk[m] /\ \A k : Sec(q, m, k) = Sec(p, m, k)
  BY <1>2 DEF Born, Sec
<1>4. 1 \in p.blocks /\ p.blocks \subseteq q.blocks /\ q.blocks \subseteq DataBlocks
  <2>1. Root \in p.inodes
    BY DEF Layout
  <2>2. 1 \in p.blocks
    BY <2>1, Marked
  <2> QED
    BY <2>2 DEF Born, IsPart
<1>5. ASSUME NEW m \in p.inodes
      PROVE  IF IsDir(q, m)
             THEN /\ q.disk[m].size = Cardinality(FilledAt(q, m))
                  /\ \A k \in Idx \ {0} :
                        Sec(q, m, k) # Nil => \E c \in Cells : E(q, m, k, c) # NoEntry
             ELSE /\ BlocksFit(q.disk[m].size, q.disk[m].sectors, q.blocks)
                  /\ \A k \in Idx, c \in Cells : E(q, m, k, c) = NoEntry
  <2>1. /\ FilledAt(q, m) = FilledAt(p, m)
        /\ IsDir(q, m) <=> IsDir(p, m)
        /\ \A k \in Idx, c \in Cells : E(q, m, k, c) = E(p, m, k, c)
    BY <1>1, FilledSame, Sizes DEF IsDir
  <2>2. CASE IsDir(p, m)
    <3>1. /\ p.disk[m].size = Cardinality(FilledAt(p, m))
          /\ \A k \in Idx \ {0} :
                Sec(p, m, k) # Nil => \E c \in Cells : E(p, m, k, c) # NoEntry
      BY <2>2 DEF SizesFit
    <3> QED
      BY <1>3, <2>1, <2>2, <3>1
  <2>3. CASE ~IsDir(p, m)
    <3>1. /\ BlocksFit(p.disk[m].size, p.disk[m].sectors, p.blocks)
          /\ \A k \in Idx, c \in Cells : E(p, m, k, c) = NoEntry
      BY <2>3 DEF SizesFit
    <3>2. \A i \in Idx : p.disk[m].sectors[i] # Nil => p.disk[m].sectors[i] \in q.blocks
      BY <1>4, Marked DEF Sec
    <3>3. BlocksFit(p.disk[m].size, p.disk[m].sectors, q.blocks)
      BY <1>4, <3>1, <3>2, BlocksFitMoved
    <3>4. ~IsDir(q, m)
      BY <2>1, <2>3
    <3>6. q.disk[m] = p.disk[m]
      BY <1>3
    <3>5. \A k \in Idx, c \in Cells : E(q, m, k, c) = NoEntry
      BY <2>1, <3>1
    <3> QED
      BY <3>3, <3>4, <3>5, <3>6
  <2> QED
    BY <2>2, <2>3
<1>6. CASE e.type = "directory"
  <2>1. \A k \in Idx, c \in Cells :
            E(q, e.no, k, c) # NoEntry <=> k = 0 /\ c \in {0, 1}
    BY <1>1, <1>6, NoEntryName DEF NewEntry, Entry
  <2>2. FilledAt(q, e.no) = {<<0, 0>>} \cup {<<0, 1>>}
    <3>1. ASSUME NEW at \in Idx \X Cells
          PROVE  at \in FilledAt(q, e.no) <=> at \in {<<0, 0>>} \cup {<<0, 1>>}
      <4>1. at[1] \in Idx /\ at[2] \in Cells /\ at = <<at[1], at[2]>>
        OBVIOUS
      <4> QED
        BY <2>1, <4>1 DEF FilledAt
    <3>2. <<0, 0>> \in Idx \X Cells /\ <<0, 1>> \in Idx \X Cells
      BY Sizes
    <3> QED
      BY <3>1, <3>2 DEF FilledAt
  <2>3. Cardinality(FilledAt(q, e.no)) = 2
    <3>1. <<0, 1>> # <<0, 0>>
      OBVIOUS
    <3>2. Cardinality({<<0, 0>>, <<0, 1>>}) = 2
      BY <3>1, PairSize
    <3>3. {<<0, 0>>} \cup {<<0, 1>>} = {<<0, 0>>, <<0, 1>>}
      OBVIOUS
    <3> QED
      BY <2>2, <3>2, <3>3
  <2>4. q.disk[e.no].size = 2
    BY <1>6 DEF Born, NewDir
  <2>5. \A k \in Idx \ {0} : Sec(q, e.no, k) = Nil
    BY BornOne, Sizes
  <2>6. IsDir(q, e.no)
    BY <1>1, <1>6, Sizes DEF IsDir, NewEntry, Entry
  <2> QED
    BY <1>2, <1>5, <2>3, <2>4, <2>5, <2>6 DEF SizesFit
<1>7. CASE e.type # "directory"
  <2>1. \A k \in Idx, c \in Cells : E(q, e.no, k, c) = NoEntry
    BY <1>1, <1>7 DEF NewEntry
  <2>2. ~IsDir(q, e.no)
    BY <2>1, NoEntryName, Sizes DEF IsDir
  <2>3. BlocksFit(q.disk[e.no].size, q.disk[e.no].sectors, q.blocks)
    <3>1. q.disk[e.no].size = 0 /\ q.disk[e.no].sectors = NoSectors
      BY <1>7 DEF Born, EmptyInode
    <3>2. /\ NoSectors \in Sectors /\ NoSectors[0] = Nil
          /\ \A i \in 0..Direct : NoSectors[i] = Nil
      BY Sizes DEF NoSectors, Sectors
    <3>3. UsedIn(0, NoSectors) = 0 /\ 0 \in 0..MaxSize
      BY <3>2, FileBlocksAssumption DEF UsedIn
    <3> QED
      BY <1>4, <3>1, <3>2, <3>3 DEF BlocksFit
  <2> QED
    BY <1>2, <1>5, <2>1, <2>2, <2>3 DEF SizesFit
<1> QED
  BY <1>6, <1>7

\* A creation: a new inode, and an entry for it where its path says.
Created(p, r, q, d, e, b, k0, c0, x, t) ==
    /\ PartFits(p) /\ IsPart(r) /\ IsPart(q) /\ Cached(q)
    /\ e.name \in Names /\ e.type \in {"directory", "regular"}
    /\ Born(p, r, d, e, b)
    /\ Placed(r, q, d, e, k0, c0, x) /\ q.inodes = r.inodes
    /\ t \in Seq(Names) /\ t # <<>>
    /\ e.type = "directory" => t \in DirPaths
    /\ LeadsToDir(p, Front(t), d) /\ Last(t) = e.name
    /\ \A k \in Idx, c \in Cells : E(p, d, k, c).name # e.name

LEMMA CreatedFits ==
    ASSUME DirectOnly, NEW p, NEW r, NEW q, NEW d, NEW e, NEW b, NEW k0, NEW c0, NEW x, NEW t,
           Created(p, r, q, d, e, b, k0, c0, x, t)
    PROVE  /\ PartFits(q) /\ Grown(p, q, d, e, k0, c0)
           /\ LeadsTo(p, t) = "none" /\ LeadsTo(q, t) = e.type
           /\ \A path \in Seq(Names) : path # t => LeadsTo(q, path) = LeadsTo(p, path)
<1> USE DEF Created
<1>1. Layout(p) /\ SizesFit(p) /\ NamesFit(p) /\ Reached(p) /\ Cached(p)
  BY DEF PartFits
<1>2. /\ Front(t) \in Seq(Names)
      /\ d \in p.inodes /\ IsDir(p, d) /\ Readable(p)
  <2>1. Front(t) \in Seq(Names)
    BY FrontFacts
  <2>2. Readable(p)
    BY <1>1 DEF Readable
  <2> QED
    BY <2>1, <2>2, DirLeads
<1>3. /\ Layout(r) /\ SizesFit(r)
      /\ \A m \in p.inodes, k \in Idx, c \in Cells : E(r, m, k, c) = E(p, m, k, c)
      /\ \A k \in Idx, c \in Cells : E(r, e.no, k, c) = NewEntry(e, d, k, c)
  BY <1>1, BornLayout, BornSizes
<1>4. e.no \in Inodes \ p.inodes /\ r.inodes = p.inodes \cup {e.no}
  BY DEF Born
<1>5. d \in r.inodes /\ d # e.no
  BY <1>2, <1>4
<1>6. IsDir(r, d)
  BY <1>2, <1>3, Sizes DEF IsDir
<1>7. e # NoEntry
  BY NoEntryName
<1>8. /\ Layout(q)
      /\ \A m \in r.inodes, k \in Idx, c \in Cells :
            E(q, m, k, c) = IF m = d /\ k = k0 /\ c = c0 THEN e ELSE E(r, m, k, c)
      /\ E(r, d, k0, c0) = NoEntry
  BY <1>3, <1>5, PlacedLayout
<1>9. SizesFit(q)
  BY <1>3, <1>5, <1>6, <1>7, PlacedSizes
<1>10. k0 \in Idx /\ c0 \in Cells
  BY DEF Placed
<1>11. Grown(p, q, d, e, k0, c0)
  <2>1. E(p, d, k0, c0) = NoEntry /\ E(q, d, k0, c0) = e
    BY <1>2, <1>3, <1>5, <1>8, <1>10
  <2>2. \A no \in p.inodes, k \in Idx, c \in Cells :
            ~(no = d /\ k = k0 /\ c = c0) => E(q, no, k, c) = E(p, no, k, c)
    BY <1>3, <1>4, <1>8
  <2>3. \A k \in Idx, c \in Cells : E(q, e.no, k, c) = NewEntry(e, d, k, c)
    BY <1>3, <1>4, <1>5, <1>8
  <2> QED
    BY <1>2, <1>4, <1>10, <2>1, <2>2, <2>3 DEF Grown
<1>12. NamesFit(q)
  <2>1. Root \in p.inodes
    BY <1>1 DEF Layout
  <2> QED
    BY <1>1, <1>11, <2>1, GrownNames
<1>13. Readable(q)
  BY <1>8, <1>12 DEF Readable
<1>14. Reached(q)
  BY <1>1, <1>2, <1>11, <1>13, GrownReached
<1>15. PartFits(q)
  BY <1>8, <1>9, <1>12, <1>14 DEF PartFits
<1> QED
  BY <1>2, <1>11, <1>13, <1>15, GrownPaths

\* The bitmap and the inode table get a new inode, and the inodes in memory change.
Listed(p, no, g, o) == [p EXCEPT !.inodes = @ \cup {no}, !.disk[no] = g, !.open = o]
OpenMade(o) == DOMAIN o \subseteq Inodes /\ o \in [DOMAIN o -> OpenType]

LEMMA ListedIs ==
    ASSUME NEW p, IsPart(p), NEW no \in Inodes, NEW g \in InodeType, NEW o, OpenMade(o),
           NEW q, q = Listed(p, no, g, o)
    PROVE  /\ IsPart(q) /\ q.inodes = p.inodes \cup {no} /\ q.blocks = p.blocks
           /\ q.entries = p.entries /\ q.tables = p.tables /\ q.open = o
           /\ q.disk[no] = g /\ \A m \in Inodes \ {no} : q.disk[m] = p.disk[m]
<1> DEFINE k == [p.disk EXCEPT ![no] = g]
<1>1. /\ p = [inodes |-> p.inodes, blocks |-> p.blocks, disk |-> p.disk, open |-> p.open,
              entries |-> p.entries, tables |-> p.tables]
      /\ p.inodes \subseteq Inodes /\ p.blocks \subseteq DataBlocks
      /\ p.disk \in [Inodes -> InodeType]
      /\ p.entries \in [DataBlocks -> [Cells -> EntryType]]
      /\ p.tables \in [DataBlocks -> Tables]
  BY DEF IsPart
<1>2. q = [inodes |-> p.inodes \cup {no}, blocks |-> p.blocks, disk |-> k, open |-> o,
           entries |-> p.entries, tables |-> p.tables]
  BY <1>1 DEF Listed
<1>3. /\ q.inodes = p.inodes \cup {no} /\ q.blocks = p.blocks /\ q.disk = k /\ q.open = o
      /\ q.entries = p.entries /\ q.tables = p.tables
  BY <1>2
<1>4. /\ k \in [Inodes -> InodeType] /\ k[no] = g
      /\ \A m \in Inodes \ {no} : k[m] = p.disk[m]
  BY <1>1
<1> HIDE DEF k
<1>5. IsPart(q)
  BY <1>1, <1>2, <1>3, <1>4 DEF IsPart, OpenMade
<1> QED
  BY <1>3, <1>4, <1>5

LEMMA NewInodes ==
    /\ EmptyInode \in InodeType
    /\ \A b \in DataBlocks : NewDir(b) \in InodeType
<1>1. NoSectors \in [0..Direct -> DataBlocks \cup {Nil}]
  BY DEF NoSectors
<1>2. \A b \in DataBlocks : [NoSectors EXCEPT ![0] = b] \in [0..Direct -> DataBlocks \cup {Nil}]
  BY <1>1, Sizes
<1> QED
  BY <1>1, <1>2 DEF EmptyInode, NewDir, InodeType, Sectors

\* Where the place is and how many blocks it takes is a matter of the blocks that
\* the directory has.
LEMMA PlaceSame ==
    ASSUME NEW p, NEW q, NEW d, Inode(q, d) = Inode(p, d),
           \A k \in 0..MaxBlocks - 1 :
               k < Direct /\ Inode(p, d).sectors[k] # Nil =>
                   q.entries[Inode(p, d).sectors[k]] = p.entries[Inode(p, d).sectors[k]]
    PROVE  PlaceNeeds(q, d) = PlaceNeeds(p, d)
<1> DEFINE inode == Inode(p, d)
           S(x) == {k \in 0..MaxBlocks - 1 :
                       \/ k >= Direct
                       \/ inode.sectors[k] = Nil
                       \/ \E c \in Cells : x.entries[inode.sectors[k]][c] = NoEntry}
<1>1. S(q) = S(p)
  <2>1. ASSUME NEW k \in 0..MaxBlocks - 1
        PROVE  k \in S(q) <=> k \in S(p)
    <3>1. k \in Int /\ Direct \in Int
      BY Sizes DEF MaxBlocks
    <3>2. CASE k >= Direct
      BY <3>2
    <3>3. CASE k < Direct
      BY <3>3
    <3> QED
      BY <3>1, <3>2, <3>3
  <2> QED
    BY <2>1
<1>2. Place(q, inode) = Min(S(q)) /\ Place(p, inode) = Min(S(p))
  BY DEF Place
<1>3. Place(q, inode) = Place(p, inode)
  <2> HIDE DEF S, inode
  <2> QED
    BY <1>1, <1>2
<1> QED
  BY <1>3 DEF PlaceNeeds

\* The directory of a new name is open, and a new directory has its block.
Begun(p, q, d, e, b, g) ==
    /\ IsPart(q) /\ q.inodes = p.inodes /\ q.disk = p.disk
    /\ IF e.type = "directory"
       THEN /\ b \in DataBlocks \ p.blocks /\ q.blocks = p.blocks \cup {b} /\ g = NewDir(b)
            /\ \A x \in DataBlocks :
                  q.entries[x] = IF x = b THEN Dots(e.no, d) ELSE p.entries[x]
       ELSE q.blocks = p.blocks /\ g = EmptyInode /\ q.entries = p.entries

LEMMA CreationSynced ==
    ASSUME SmallNumbers, ShortDirs, NEW p, PartFits(p), NEW d \in p.inodes, IsDir(p, d),
           NEW e \in EntryType, e.no \in Inodes \ p.inodes, NEW q, NEW b, NEW g,
           Begun(p, q, d, e, b, g), d \in DOMAIN q.open, q.open[d].inode = q.disk[d],
           PlaceNeeds(q, d) <= Cardinality(FreeBlocks(q.blocks)),
           NEW n, n = SyncDirEntry(q, d, e)
    PROVE  /\ IsPart(n) /\ n.inodes = p.inodes
           /\ Followed(q, n, d)
           /\ \E k0, c0, x : Placed(q, n, d, e, k0, c0, x)
<1>1. /\ IsPart(p) /\ Root \in p.inodes /\ Layout(p) /\ NamesFit(p)
      /\ \A x \in DataBlocks \ p.blocks, c \in Cells : p.entries[x][c] = NoEntry
  BY DEF PartFits, Layout
<1>2. IsPart(q) /\ q.inodes = p.inodes /\ q.disk = p.disk
  BY DEF Begun
<1>3. \A k : Sec(q, d, k) = Sec(p, d, k)
  BY <1>2 DEF Sec
<1>4. /\ \A k \in Idx : Sec(p, d, k) \in p.blocks \cup {Nil}
      /\ p.blocks \subseteq DataBlocks /\ p.blocks \subseteq q.blocks
  BY <1>1, Marked DEF Begun
<1>5. \A k \in Idx, c \in Cells : E(q, d, k, c) = E(p, d, k, c)
  <2> SUFFICES ASSUME NEW k \in Idx, NEW c \in Cells, Sec(p, d, k) # Nil
               PROVE  q.entries[Sec(p, d, k)][c] = p.entries[Sec(p, d, k)][c]
    BY <1>3 DEF E
  <2> QED
    BY <1>4 DEF Begun
<1>6. Free(q, d) # {}
  <2>1. Free(p, d) # {}
    BY <1>1, FreePlace
  <2> QED
    BY <1>5, <2>1 DEF Free
<1>7. \A x \in DataBlocks \ q.blocks, c \in Cells : q.entries[x][c] = NoEntry
  BY <1>1 DEF Begun
<1>8. Inode(q, d) = q.disk[d]
  BY DEF Inode
<1>9. \A k \in Idx : Sec(q, d, k) \in q.blocks \cup {Nil}
  BY <1>3, <1>4
<1>10. /\ IsPart(n) /\ n.inodes = q.inodes
       /\ Followed(q, n, d)
       /\ \E k0, c0, x : Placed(q, n, d, e, k0, c0, x)
  BY <1>2, <1>6, <1>7, <1>8, <1>9, SyncDirEntryIs
<1> QED
  BY <1>2, <1>10

Creates(p, p2, m, q, d, e, b, g, o, t) ==
    /\ PartFits(p) /\ e \in EntryType /\ e.name \in Names /\ e.no \in Inodes \ p.inodes
    /\ Begun(p, p2, d, e, b, g) /\ d \in DOMAIN p2.open /\ p2.open[d].inode = p2.disk[d]
    /\ PlaceNeeds(p2, d) <= Cardinality(FreeBlocks(p2.blocks))
    /\ OpenMade(o) /\ m = Listed(SyncDirEntry(p2, d, e), e.no, g, o)
    /\ SameDisk(m, q) /\ IsPart(q) /\ Cached(q)
    /\ t \in Seq(Names) /\ t # <<>>
    /\ e.type = "directory" => t \in DirPaths
    /\ LeadsToDir(p, Front(t), d) /\ Last(t) = e.name
    /\ \A k \in Idx, c \in Cells : E(p, d, k, c).name # e.name

LEMMA CreationFits ==
    ASSUME DirectOnly, SmallNumbers, ShortDirs,
           NEW p, NEW p2, NEW m, NEW q, NEW d, NEW e, NEW b, NEW g, NEW o, NEW t,
           Creates(p, p2, m, q, d, e, b, g, o, t)
    PROVE  /\ PartFits(q)
           /\ LeadsTo(p, t) = "none" /\ LeadsTo(q, t) = e.type
           /\ \A path \in Seq(Names) : path # t => LeadsTo(q, path) = LeadsTo(p, path)
           /\ q.inodes = p.inodes \cup {e.no}
           /\ \A x \in p.inodes : IsDir(q, x) <=> IsDir(p, x)
           /\ IsDir(q, e.no) <=> e.type = "directory"
<1>0. /\ PartFits(p) /\ e \in EntryType /\ e.name \in Names /\ e.no \in Inodes \ p.inodes
      /\ Begun(p, p2, d, e, b, g) /\ d \in DOMAIN p2.open /\ p2.open[d].inode = p2.disk[d]
      /\ PlaceNeeds(p2, d) <= Cardinality(FreeBlocks(p2.blocks))
      /\ OpenMade(o) /\ m = Listed(SyncDirEntry(p2, d, e), e.no, g, o)
      /\ SameDisk(m, q) /\ IsPart(q) /\ Cached(q)
      /\ t \in Seq(Names) /\ t # <<>>
      /\ e.type = "directory" => t \in DirPaths
      /\ LeadsToDir(p, Front(t), d) /\ Last(t) = e.name
      /\ \A k \in Idx, c \in Cells : E(p, d, k, c).name # e.name
  BY DEF Creates
<1> USE <1>0
<1>1. d \in p.inodes /\ IsDir(p, d) /\ d \in Inodes /\ d # e.no
  <2>1. Front(t) \in Seq(Names)
    BY FrontFacts
  <2>2. Readable(p)
    BY DEF Readable, PartFits
  <2>3. d \in p.inodes /\ IsDir(p, d)
    BY <2>1, <2>2, DirLeads
  <2> QED
    BY <2>3 DEF PartFits, Layout, IsPart
<1> DEFINE n == SyncDirEntry(p2, d, e)
           r == Listed(p2, e.no, g, p2.open)
<1>2. /\ IsPart(n) /\ n.inodes = p.inodes
      /\ Followed(p2, n, d)
      /\ \E k0, c0, x : Placed(p2, n, d, e, k0, c0, x)
  BY <1>1, CreationSynced
<1>3. PICK k0, c0, x : Placed(p2, n, d, e, k0, c0, x)
  BY <1>2
<1>4. g \in InodeType
  BY NewInodes DEF Begun
<1>5. IsPart(p2) /\ p2.inodes = p.inodes /\ p2.disk = p.disk /\ OpenMade(p2.open)
  BY DEF Begun, IsPart, OpenMade
<1> HIDE DEF n
<1>6. /\ IsPart(r) /\ r.inodes = p2.inodes \cup {e.no} /\ r.blocks = p2.blocks
      /\ r.entries = p2.entries
      /\ r.disk[e.no] = g /\ \A i \in Inodes \ {e.no} : r.disk[i] = p2.disk[i]
  BY <1>4, <1>5, ListedIs
<1>7. /\ IsPart(m) /\ m.inodes = n.inodes \cup {e.no} /\ m.blocks = n.blocks
      /\ m.entries = n.entries
      /\ m.disk[e.no] = g /\ \A i \in Inodes \ {e.no} : m.disk[i] = n.disk[i]
  BY <1>2, <1>4, ListedIs DEF n
<1> HIDE DEF r
<1>8. Born(p, r, d, e, b)
  BY <1>5, <1>6 DEF Born, Begun
<1>9. Placed(r, q, d, e, k0, c0, x)
  <2>1. q.inodes = m.inodes /\ q.blocks = m.blocks /\ q.disk = m.disk /\ q.entries = m.entries
    BY DEF SameDisk
  <2>2. /\ k0 \in Idx /\ c0 \in Cells /\ x \in DataBlocks
        /\ Sec(p2, d, k0) = x \/ (Sec(p2, d, k0) = Nil /\ x \notin p2.blocks)
        /\ n.blocks = p2.blocks \cup {x}
        /\ \A no \in Inodes \ {d} : n.disk[no] = p2.disk[no]
        /\ n.disk[d].size = p2.disk[d].size + 1
        /\ \A k \in 0..Direct : Sec(n, d, k) = IF k = k0 THEN x ELSE Sec(p2, d, k)
        /\ p2.entries[x][c0] = NoEntry
        /\ \A y \in DataBlocks, c \in Cells :
              n.entries[y][c] = IF y = x /\ c = c0 THEN e ELSE p2.entries[y][c]
    BY <1>3 DEF Placed
  <2>3. q.disk[d] = n.disk[d] /\ r.disk[d] = p2.disk[d]
    BY <1>1, <1>6, <1>7, <2>1
  <2>4. \A k : Sec(q, d, k) = Sec(n, d, k) /\ Sec(r, d, k) = Sec(p2, d, k)
    BY <2>3 DEF Sec
  <2>5. \A no \in Inodes \ {d} : q.disk[no] = r.disk[no]
    BY <1>6, <1>7, <2>1, <2>2
  <2> QED
    BY <1>6, <1>7, <2>1, <2>2, <2>3, <2>4, <2>5 DEF Placed
<1>10. q.inodes = r.inodes
  BY <1>2, <1>5, <1>6, <1>7 DEF SameDisk
<1>11. e.type \in {"directory", "regular"}
  BY EntryKinds
<1>12. /\ PartFits(q) /\ Grown(p, q, d, e, k0, c0)
       /\ LeadsTo(p, t) = "none" /\ LeadsTo(q, t) = e.type
       /\ \A path \in Seq(Names) : path # t => LeadsTo(q, path) = LeadsTo(p, path)
  <2>1. Created(p, r, q, d, e, b, k0, c0, x, t)
    BY <1>6, <1>8, <1>9, <1>10, <1>11 DEF Created
  <2> QED
    BY <2>1, CreatedFits
<1> QED
  BY <1>5, <1>6, <1>10, <1>12, GrownDirs

-----------------------------------------------------------------------------
(* Slots, descriptors and handles that come and go.                        *)

\* To the handles of one partition another looks the same.
SameDirs(p, q, files, handles, work) ==
    /\ Root \in DOMAIN q.open /\ work \in q.inodes
    /\ \A x \in p.inodes : x \in q.inodes => (IsDir(q, x) <=> IsDir(p, x))
    /\ \A x \in DOMAIN files : files[x].no \in p.inodes \cap q.inodes
    /\ \A x \in DOMAIN handles : handles[x].no \in p.inodes \cap q.inodes
    /\ work \in p.inodes

LEMMA HandlesMoved ==
    ASSUME NEW p, NEW files, NEW fds, NEW handles, NEW work,
           HandlesFit(p, files, fds, handles, work),
           NEW q, SameDirs(p, q, files, handles, work),
           \A no \in Inodes \ {Root} : Count(q, no) = Count(p, no)
    PROVE  HandlesFit(q, files, fds, handles, work)
<1>1. /\ \A slot \in DOMAIN files : ~IsDir(q, files[slot].no)
      /\ \A h \in DOMAIN handles : IsDir(q, handles[h].no)
      /\ work \in q.inodes /\ IsDir(q, work) /\ Root \in DOMAIN q.open
  BY DEF SameDirs, HandlesFit
<1>2. \A no \in Inodes \ {Root} :
          Count(q, no) = Cardinality(At(files, no)) + Cardinality(At(handles, no))
  BY DEF HandlesFit
<1> QED
  BY <1>1, <1>2 DEF HandlesFit

\* A slot, and a descriptor for it if there is one.
LEMMA SlotTaken ==
    ASSUME NEW p, NEW files, NEW fds, NEW handles, NEW work,
           HandlesFit(p, files, fds, handles, work),
           NEW q, SameDirs(p, q, files, handles, work),
           NEW slot \in FileSlots \ DOMAIN files, NEW v \in [no : Inodes, writes : BOOLEAN],
           ~IsDir(q, v.no),
           \A no \in Inodes \ {Root} : Count(q, no) = Count(p, no) + (IF no = v.no THEN 1 ELSE 0),
           NEW fds2, fds2 = fds \/ \E f \in Fds \ DOMAIN fds : fds2 = With(fds, f, slot)
    PROVE  HandlesFit(q, With(files, slot, v), fds2, handles, work)
<1> DEFINE files2 == With(files, slot, v)
<1>1. /\ DOMAIN files \subseteq FileSlots
      /\ files \in [DOMAIN files -> [no : Inodes, writes : BOOLEAN]]
      /\ \A x \in DOMAIN files : ~IsDir(p, files[x].no)
      /\ DOMAIN fds \subseteq Fds /\ fds \in [DOMAIN fds -> DOMAIN files]
      /\ \A f, g \in DOMAIN fds : fds[f] = fds[g] => f = g
  BY DEF HandlesFit
<1>a. files2 = [x \in DOMAIN files \cup {slot} |-> IF x = slot THEN v ELSE files[x]]
  BY DEF With
<1> HIDE DEF files2
<1>2. /\ DOMAIN files2 = DOMAIN files \cup {slot} /\ files2[slot] = v
      /\ \A x \in DOMAIN files : files2[x] = files[x]
      /\ files2 = [x \in DOMAIN files \cup {slot} |-> files2[x]]
  BY <1>a
<1>3. /\ DOMAIN files2 \subseteq FileSlots
      /\ files2 \in [DOMAIN files2 -> [no : Inodes, writes : BOOLEAN]]
  BY <1>1, <1>2
<1>4. \A x \in DOMAIN files2 : ~IsDir(q, files2[x].no)
  BY <1>1, <1>2 DEF SameDirs
<1>5. /\ DOMAIN fds2 \subseteq Fds /\ fds2 \in [DOMAIN fds2 -> DOMAIN files2]
      /\ \A f, g \in DOMAIN fds2 : fds2[f] = fds2[g] => f = g
  <2>1. CASE fds2 = fds
    BY <1>1, <1>2, <2>1
  <2>2. ASSUME NEW f \in Fds \ DOMAIN fds, fds2 = With(fds, f, slot)
        PROVE  /\ DOMAIN fds2 \subseteq Fds /\ fds2 \in [DOMAIN fds2 -> DOMAIN files2]
               /\ \A h, g \in DOMAIN fds2 : fds2[h] = fds2[g] => h = g
    <3>a. fds2 = [x \in DOMAIN fds \cup {f} |-> IF x = f THEN slot ELSE fds[x]]
      BY <2>2 DEF With
    <3>1. /\ DOMAIN fds2 = DOMAIN fds \cup {f} /\ fds2[f] = slot
          /\ \A x \in DOMAIN fds : fds2[x] = fds[x]
          /\ fds2 = [x \in DOMAIN fds \cup {f} |-> fds2[x]]
      BY <3>a
    <3>2. \A x \in DOMAIN fds : fds[x] # slot
      BY <1>1
    <3> QED
      BY <1>1, <1>2, <3>1, <3>2
  <2> QED
    BY <2>1, <2>2
<1>6. \A no \in Inodes \ {Root} :
          Count(q, no) = Cardinality(At(files2, no)) + Cardinality(At(handles, no))
  <2> SUFFICES ASSUME NEW no \in Inodes \ {Root}
               PROVE  Count(q, no) = Cardinality(At(files2, no)) + Cardinality(At(handles, no))
    OBVIOUS
  <2>1. Count(p, no) = Cardinality(At(files, no)) + Cardinality(At(handles, no))
    BY DEF HandlesFit
  <2>2. /\ IsFiniteSet(DOMAIN files)
        /\ Cardinality(At(files, no)) \in Nat /\ Cardinality(At(handles, no)) \in Nat
    BY HandlesFinite
  <2>3. Cardinality(At(files2, no)) = Cardinality(At(files, no)) + (IF v.no = no THEN 1 ELSE 0)
    BY <2>2, AtAdded DEF files2
  <2> QED
    BY <2>1, <2>2, <2>3
<1>7. /\ \A h \in DOMAIN handles : IsDir(q, handles[h].no)
      /\ work \in q.inodes /\ IsDir(q, work) /\ Root \in DOMAIN q.open
  BY DEF SameDirs, HandlesFit
<1>8. HandlesFit(q, files2, fds2, handles, work)
  BY <1>3, <1>4, <1>5, <1>6, <1>7 DEF HandlesFit
<1> QED
  BY <1>8 DEF files2

\* A descriptor and its slot.
LEMMA SlotLeft ==
    ASSUME NEW p, NEW files, NEW fds, NEW handles, NEW work,
           HandlesFit(p, files, fds, handles, work),
           NEW q, SameDirs(p, q, files, handles, work),
           NEW fd \in DOMAIN fds, NEW slot, slot = fds[fd],
           \A no \in Inodes \ {Root} :
               Count(q, no) = Count(p, no) - (IF no = files[slot].no THEN 1 ELSE 0)
    PROVE  HandlesFit(q, Restrict(files, DOMAIN files \ {slot}),
                      Restrict(fds, DOMAIN fds \ {fd}), handles, work)
<1> DEFINE files2 == Restrict(files, DOMAIN files \ {slot})
           fds2 == Restrict(fds, DOMAIN fds \ {fd})
<1>1. /\ DOMAIN files \subseteq FileSlots
      /\ files \in [DOMAIN files -> [no : Inodes, writes : BOOLEAN]]
      /\ \A x \in DOMAIN files : ~IsDir(p, files[x].no)
      /\ DOMAIN fds \subseteq Fds /\ fds \in [DOMAIN fds -> DOMAIN files]
      /\ \A f, g \in DOMAIN fds : fds[f] = fds[g] => f = g
  BY DEF HandlesFit
<1>a. /\ files2 = [x \in DOMAIN files \ {slot} |-> files[x]]
      /\ fds2 = [x \in DOMAIN fds \ {fd} |-> fds[x]]
  BY DEF Restrict
<1> HIDE DEF files2, fds2
<1>2. /\ DOMAIN files2 = DOMAIN files \ {slot}
      /\ \A x \in DOMAIN files \ {slot} : files2[x] = files[x]
      /\ files2 = [x \in DOMAIN files \ {slot} |-> files2[x]]
      /\ DOMAIN fds2 = DOMAIN fds \ {fd}
      /\ \A x \in DOMAIN fds \ {fd} : fds2[x] = fds[x]
      /\ fds2 = [x \in DOMAIN fds \ {fd} |-> fds2[x]]
  BY <1>a
<1>3. /\ DOMAIN files2 \subseteq FileSlots
      /\ files2 \in [DOMAIN files2 -> [no : Inodes, writes : BOOLEAN]]
  BY <1>1, <1>2
<1>4. \A x \in DOMAIN files2 : ~IsDir(q, files2[x].no)
  BY <1>1, <1>2 DEF SameDirs
<1>5. /\ DOMAIN fds2 \subseteq Fds /\ fds2 \in [DOMAIN fds2 -> DOMAIN files2]
      /\ \A f, g \in DOMAIN fds2 : fds2[f] = fds2[g] => f = g
  BY <1>1, <1>2
<1>6. \A no \in Inodes \ {Root} :
          Count(q, no) = Cardinality(At(files2, no)) + Cardinality(At(handles, no))
  <2> SUFFICES ASSUME NEW no \in Inodes \ {Root}
               PROVE  Count(q, no) = Cardinality(At(files2, no)) + Cardinality(At(handles, no))
    OBVIOUS
  <2>1. Count(p, no) = Cardinality(At(files, no)) + Cardinality(At(handles, no))
    BY DEF HandlesFit
  <2>2. /\ IsFiniteSet(DOMAIN files)
        /\ Cardinality(At(files, no)) \in Nat /\ Cardinality(At(handles, no)) \in Nat
    BY HandlesFinite
  <2>3. slot \in DOMAIN files
    BY <1>1
  <2>4. Cardinality(At(files2, no)) =
            Cardinality(At(files, no)) - (IF files[slot].no = no THEN 1 ELSE 0)
    BY <2>2, <2>3, AtRemoved DEF files2
  <2> QED
    BY <2>1, <2>2, <2>4
<1>7. /\ \A h \in DOMAIN handles : IsDir(q, handles[h].no)
      /\ work \in q.inodes /\ IsDir(q, work) /\ Root \in DOMAIN q.open
  BY DEF SameDirs, HandlesFit
<1>8. HandlesFit(q, files2, fds2, handles, work)
  BY <1>3, <1>4, <1>5, <1>6, <1>7 DEF HandlesFit
<1> QED
  BY <1>8 DEF files2, fds2

\* A directory handle that is taken, left, or moved on.
LEMMA HandleTaken ==
    ASSUME NEW p, NEW files, NEW fds, NEW handles, NEW work,
           HandlesFit(p, files, fds, handles, work),
           NEW q, SameDirs(p, q, files, handles, work),
           NEW h \in Handles \ DOMAIN handles, NEW v \in [no : Inodes, pos : Nat],
           IsDir(q, v.no), v.no # Root,
           \A no \in Inodes \ {Root} : Count(q, no) = Count(p, no) + (IF no = v.no THEN 1 ELSE 0)
    PROVE  HandlesFit(q, files, fds, With(handles, h, v), work)
<1> DEFINE handles2 == With(handles, h, v)
<1>1. /\ DOMAIN handles \subseteq {RootHandle} \cup Handles
      /\ handles \in [DOMAIN handles -> [no : Inodes, pos : Nat]]
      /\ \A x \in DOMAIN handles :
            IsDir(p, handles[x].no) /\ (x # RootHandle => handles[x].no # Root)
  BY DEF HandlesFit
<1>a. handles2 = [x \in DOMAIN handles \cup {h} |-> IF x = h THEN v ELSE handles[x]]
  BY DEF With
<1> HIDE DEF handles2
<1>2. /\ DOMAIN handles2 = DOMAIN handles \cup {h} /\ handles2[h] = v
      /\ \A x \in DOMAIN handles : handles2[x] = handles[x]
      /\ handles2 = [x \in DOMAIN handles \cup {h} |-> handles2[x]]
  BY <1>a
<1>3. /\ DOMAIN handles2 \subseteq {RootHandle} \cup Handles
      /\ handles2 \in [DOMAIN handles2 -> [no : Inodes, pos : Nat]]
  BY <1>1, <1>2
<1>4. \A x \in DOMAIN handles2 :
          IsDir(q, handles2[x].no) /\ (x # RootHandle => handles2[x].no # Root)
  BY <1>1, <1>2 DEF SameDirs
<1>5. \A no \in Inodes \ {Root} :
          Count(q, no) = Cardinality(At(files, no)) + Cardinality(At(handles2, no))
  <2> SUFFICES ASSUME NEW no \in Inodes \ {Root}
               PROVE  Count(q, no) = Cardinality(At(files, no)) + Cardinality(At(handles2, no))
    OBVIOUS
  <2>1. Count(p, no) = Cardinality(At(files, no)) + Cardinality(At(handles, no))
    BY DEF HandlesFit
  <2>2. /\ IsFiniteSet(DOMAIN handles)
        /\ Cardinality(At(files, no)) \in Nat /\ Cardinality(At(handles, no)) \in Nat
    BY HandlesFinite
  <2>3. Cardinality(At(handles2, no)) =
            Cardinality(At(handles, no)) + (IF v.no = no THEN 1 ELSE 0)
    BY <2>2, AtAdded DEF handles2
  <2> QED
    BY <2>1, <2>2, <2>3
<1>6. /\ \A x \in DOMAIN files : ~IsDir(q, files[x].no)
      /\ work \in q.inodes /\ IsDir(q, work) /\ Root \in DOMAIN q.open
  BY DEF SameDirs, HandlesFit
<1>7. HandlesFit(q, files, fds, handles2, work)
  BY <1>3, <1>4, <1>5, <1>6 DEF HandlesFit
<1> QED
  BY <1>7 DEF handles2

LEMMA HandleLeft ==
    ASSUME NEW p, NEW files, NEW fds, NEW handles, NEW work,
           HandlesFit(p, files, fds, handles, work),
           NEW q, SameDirs(p, q, files, handles, work),
           NEW h \in DOMAIN handles, NEW left, left = handles[h].no,
           \A no \in Inodes \ {Root} : Count(q, no) = Count(p, no) - (IF no = left THEN 1 ELSE 0)
    PROVE  HandlesFit(q, files, fds, Restrict(handles, DOMAIN handles \ {h}), work)
<1> DEFINE handles2 == Restrict(handles, DOMAIN handles \ {h})
<1>1. /\ DOMAIN handles \subseteq {RootHandle} \cup Handles
      /\ handles \in [DOMAIN handles -> [no : Inodes, pos : Nat]]
      /\ \A x \in DOMAIN handles :
            IsDir(p, handles[x].no) /\ (x # RootHandle => handles[x].no # Root)
  BY DEF HandlesFit
<1>a. handles2 = [x \in DOMAIN handles \ {h} |-> handles[x]]
  BY DEF Restrict
<1> HIDE DEF handles2
<1>2. /\ DOMAIN handles2 = DOMAIN handles \ {h}
      /\ \A x \in DOMAIN handles \ {h} : handles2[x] = handles[x]
      /\ handles2 = [x \in DOMAIN handles \ {h} |-> handles2[x]]
  BY <1>a
<1>3. /\ DOMAIN handles2 \subseteq {RootHandle} \cup Handles
      /\ handles2 \in [DOMAIN handles2 -> [no : Inodes, pos : Nat]]
  BY <1>1, <1>2
<1>4. \A x \in DOMAIN handles2 :
          IsDir(q, handles2[x].no) /\ (x # RootHandle => handles2[x].no # Root)
  BY <1>1, <1>2 DEF SameDirs
<1>5. \A no \in Inodes \ {Root} :
          Count(q, no) = Cardinality(At(files, no)) + Cardinality(At(handles2, no))
  <2> SUFFICES ASSUME NEW no \in Inodes \ {Root}
               PROVE  Count(q, no) = Cardinality(At(files, no)) + Cardinality(At(handles2, no))
    OBVIOUS
  <2>1. Count(p, no) = Cardinality(At(files, no)) + Cardinality(At(handles, no))
    BY DEF HandlesFit
  <2>2. /\ IsFiniteSet(DOMAIN handles)
        /\ Cardinality(At(files, no)) \in Nat /\ Cardinality(At(handles, no)) \in Nat
    BY HandlesFinite
  <2>3. Cardinality(At(handles2, no)) =
            Cardinality(At(handles, no)) - (IF handles[h].no = no THEN 1 ELSE 0)
    BY <2>2, AtRemoved DEF handles2
  <2> QED
    BY <2>1, <2>2, <2>3
<1>6. /\ \A x \in DOMAIN files : ~IsDir(q, files[x].no)
      /\ work \in q.inodes /\ IsDir(q, work) /\ Root \in DOMAIN q.open
  BY DEF SameDirs, HandlesFit
<1>7. HandlesFit(q, files, fds, handles2, work)
  BY <1>3, <1>4, <1>5, <1>6 DEF HandlesFit
<1> QED
  BY <1>7 DEF handles2

LEMMA HandleMoved ==
    ASSUME NEW p, NEW files, NEW fds, NEW handles, NEW work,
           HandlesFit(p, files, fds, handles, work),
           NEW h \in DOMAIN handles, NEW n \in Nat,
           NEW handles2, handles2 = [handles EXCEPT ![h].pos = n]
    PROVE  HandlesFit(p, files, fds, handles2, work)
<1>1. /\ DOMAIN handles \subseteq {RootHandle} \cup Handles
      /\ handles \in [DOMAIN handles -> [no : Inodes, pos : Nat]]
      /\ \A x \in DOMAIN handles :
            IsDir(p, handles[x].no) /\ (x # RootHandle => handles[x].no # Root)
  BY DEF HandlesFit
<1>2. /\ DOMAIN handles2 = DOMAIN handles
      /\ handles2 \in [DOMAIN handles2 -> [no : Inodes, pos : Nat]]
      /\ \A x \in DOMAIN handles : handles2[x].no = handles[x].no
  BY <1>1
<1>3. \A no : At(handles2, no) = At(handles, no)
  BY <1>2 DEF At
<1> QED
  BY <1>1, <1>2, <1>3 DEF HandlesFit

-----------------------------------------------------------------------------
(* The calls.                                                              *)

\* The inodes in memory after a file is created, or a directory.
NewOpen(o, no, g, type) ==
    IF type = "regular" THEN With(o, no, [count |-> 1, deny |-> FALSE, inode |-> g]) ELSE o

\* What stays in memory after a creation.
Remembered(p, p2, n, m, q, d, no, g, type, o) ==
    /\ IsPart(p) /\ Cached(p) /\ Root \in DOMAIN p.open /\ d \in p.inodes
    /\ no \in Inodes \ p.inodes /\ IsPart(p2) /\ p2.inodes = p.inodes
    /\ p2.open = DirOpen(p, d).open /\ p2.disk = p.disk
    /\ IsPart(n) /\ n.inodes = p.inodes /\ Followed(p2, n, d)
    /\ \A x \in Inodes \ {d} : n.disk[x] = p2.disk[x]
    /\ g \in InodeType
    /\ o = NewOpen(n.open, no, g, type)
    /\ m = Listed(n, no, g, o) /\ q = DirClose(m, d)

LEMMA CreationMemory ==
    ASSUME NEW p, NEW p2, NEW n, NEW m, NEW q, NEW d, NEW no, NEW g, NEW type, NEW o,
           Remembered(p, p2, n, m, q, d, no, g, type, o)
    PROVE  /\ OpenMade(o) /\ SameDisk(m, q) /\ IsPart(q) /\ Cached(q)
           /\ Root \in DOMAIN q.open
           /\ \A x \in Inodes \ {Root} :
                 Count(q, x) = Count(p, x) + (IF x = no /\ type = "regular" THEN 1 ELSE 0)
<1>0. /\ IsPart(p) /\ Cached(p) /\ Root \in DOMAIN p.open /\ d \in p.inodes
      /\ no \in Inodes \ p.inodes /\ IsPart(p2) /\ p2.inodes = p.inodes
      /\ p2.open = DirOpen(p, d).open /\ p2.disk = p.disk
      /\ IsPart(n) /\ n.inodes = p.inodes /\ Followed(p2, n, d)
      /\ \A x \in Inodes \ {d} : n.disk[x] = p2.disk[x]
      /\ g \in InodeType
      /\ o = NewOpen(n.open, no, g, type)
      /\ m = Listed(n, no, g, o) /\ q = DirClose(m, d)
  BY DEF Remembered
<1> USE <1>0
<1>1. p.inodes \subseteq Inodes /\ d \in Inodes /\ d # no /\ DOMAIN p.open \subseteq p.inodes
  BY DEF IsPart, Cached
<1>2. /\ DOMAIN p2.open = DOMAIN p.open \cup {d}
      /\ \A x \in Inodes \ {Root} :
            Count(p2, x) = Count(p, x) + (IF x = d THEN 1 ELSE 0)
      /\ \A x \in DOMAIN p2.open : p2.open[x].inode = p2.disk[x]
  <2>1. /\ DOMAIN p2.open = DOMAIN p.open \cup {d}
        /\ \A x \in Inodes \ {Root} :
              Count(DirOpen(p, d), x) = Count(p, x) + (IF x = d THEN 1 ELSE 0)
        /\ \A x \in DOMAIN p2.open : p2.open[x].inode = Inode(p, x)
    BY <1>1, DirOpenIs
  <2>2. \A x : Count(p2, x) = Count(DirOpen(p, d), x)
    BY DEF Count
  <2>3. \A x : Inode(p, x) = p.disk[x]
    BY DEF Inode, Cached
  <2> QED
    BY <2>1, <2>2, <2>3
<1>3. /\ DOMAIN n.open = DOMAIN p2.open
      /\ \A x \in DOMAIN n.open : n.open[x].inode = n.disk[x]
      /\ \A x : Count(n, x) = Count(p2, x)
  <2>1. DOMAIN n.open = DOMAIN p2.open
    BY DEF Followed
  <2>2. ASSUME NEW x \in DOMAIN n.open
        PROVE  n.open[x].inode = n.disk[x] /\ n.open[x].count = p2.open[x].count
    <3>1. x \in Inodes
      BY <1>1, <1>2, <2>1
    <3>2. /\ n.open[x].inode = IF x = d THEN n.disk[d] ELSE p2.open[x].inode
          /\ n.open[x].count = p2.open[x].count
      BY <2>1 DEF Followed
    <3> QED
      BY <1>2, <2>1, <3>1, <3>2
  <2> QED
    BY <2>1, <2>2 DEF Count
<1>4. no \notin DOMAIN n.open /\ no # Root
  <2>1. Root \in p.inodes
    BY DEF Cached
  <2> QED
    BY <1>1, <1>2, <1>3, <2>1
<1>5. /\ OpenMade(o)
      /\ DOMAIN o = IF type = "regular" THEN DOMAIN n.open \cup {no} ELSE DOMAIN n.open
      /\ \A x \in DOMAIN n.open : o[x] = n.open[x]
      /\ type = "regular" => o[no].count = 1 /\ o[no].inode = g
  <2>1. DOMAIN n.open \subseteq Inodes /\ n.open \in [DOMAIN n.open -> OpenType]
    BY DEF IsPart
  <2>2. CASE type = "regular"
    <3> DEFINE v == [count |-> 1, deny |-> FALSE, inode |-> g]
    <3>1. v \in OpenType /\ v.count = 1 /\ v.inode = g
      BY DEF OpenType
    <3> HIDE DEF v
    <3>2. o = [x \in DOMAIN n.open \cup {no} |-> IF x = no THEN v ELSE n.open[x]]
      BY <2>2 DEF With, NewOpen, v
    <3> QED
      BY <1>4, <2>1, <2>2, <3>1, <3>2 DEF OpenMade
  <2>3. CASE type # "regular"
    <3>1. o = n.open
      BY <2>3 DEF NewOpen
    <3> QED
      BY <2>1, <2>3, <3>1 DEF OpenMade
  <2> QED
    BY <2>2, <2>3
<1>6. /\ IsPart(m) /\ m.inodes = p.inodes \cup {no} /\ m.open = o
      /\ m.disk[no] = g /\ \A i \in Inodes \ {no} : m.disk[i] = n.disk[i]
  <2>1. OpenMade(o)
    BY <1>5
  <2> QED
    BY <2>1, ListedIs
<1>7. /\ \A x \in DOMAIN m.open : m.open[x].inode = m.disk[x] /\ x \in m.inodes
      /\ Root \in DOMAIN m.open /\ d \in DOMAIN m.open
      /\ \A x \in Inodes : Count(m, x) = IF x = no THEN (IF type = "regular" THEN 1 ELSE 0) ELSE Count(n, x)
  <2>1. ASSUME NEW x \in DOMAIN n.open
        PROVE  m.open[x].inode = m.disk[x] /\ x \in m.inodes
    <3>1. x \in p.inodes /\ x # no
      BY <1>1, <1>2, <1>3, <1>4
    <3> QED
      BY <1>1, <1>3, <1>5, <1>6, <3>1
  <2>2. ASSUME NEW x \in DOMAIN m.open
        PROVE  m.open[x].inode = m.disk[x] /\ x \in m.inodes
    <3>1. x \in DOMAIN n.open \/ (x = no /\ type = "regular")
      BY <1>5, <1>6
    <3>2. CASE x = no /\ type = "regular"
      BY <1>5, <1>6, <3>2
    <3> QED
      BY <2>1, <3>1, <3>2
  <2>3. Root \in DOMAIN m.open /\ d \in DOMAIN m.open
    BY <1>2, <1>3, <1>5, <1>6
  <2>4. ASSUME NEW x \in Inodes
        PROVE  Count(m, x) = IF x = no THEN (IF type = "regular" THEN 1 ELSE 0) ELSE Count(n, x)
    BY <1>4, <1>5, <1>6 DEF Count
  <2> QED
    BY <2>2, <2>3, <2>4
<1>8. /\ IsPart(q) /\ SameDisk(m, q)
      /\ DOMAIN q.open \subseteq DOMAIN m.open
      /\ Root \in DOMAIN q.open
      /\ \A x \in Inodes \ {Root} : Count(q, x) = Count(m, x) - (IF x = d THEN 1 ELSE 0)
      /\ \A x \in DOMAIN q.open : q.open[x].inode = m.open[x].inode
  <2>1. IsPart(m) /\ Root \in DOMAIN m.open /\ d \in DOMAIN m.open
    BY <1>6, <1>7
  <2> QED
    BY <2>1, DirCloseIs
<1>9. Cached(q)
  <2>1. q.inodes = m.inodes /\ q.disk = m.disk
    BY <1>8 DEF SameDisk
  <2> QED
    BY <1>7, <1>8, <2>1 DEF Cached
<1>10. ASSUME NEW x \in Inodes \ {Root}
       PROVE  Count(q, x) = Count(p, x) + (IF x = no /\ type = "regular" THEN 1 ELSE 0)
  <2>1. Count(p, x) \in Nat
    BY OpenTyped DEF Count
  <2>2. x = no => Count(p, x) = 0
    BY <1>1 DEF Count
  <2>3. Count(n, x) = Count(p, x) + (IF x = d THEN 1 ELSE 0)
    BY <1>2, <1>3
  <2>4. Count(m, x) = IF x = no THEN (IF type = "regular" THEN 1 ELSE 0) ELSE Count(n, x)
    BY <1>7
  <2>5. Count(q, x) = Count(m, x) - (IF x = d THEN 1 ELSE 0)
    BY <1>8
  <2> QED
    BY <1>1, <2>1, <2>2, <2>3, <2>4, <2>5
<1> QED
  BY <1>5, <1>8, <1>9, <1>10

\* What a call leaves fits again, when the parts do.
LEMMA InvNext ==
    ASSUME PartFits(part'), HandlesFit(part', file_table', fd_table', dirs', cwd'),
           failed' \in {"none", "inodes", "blocks", "size"},
           names' = [path \in AllPaths |-> LeadsTo(part', path)]
    PROVE  FsInv'
<1>1. IsPart(part')
  BY DEF PartFits, Layout
<1>2. /\ DOMAIN file_table' \subseteq FileSlots
      /\ file_table' \in [DOMAIN file_table' -> [no : Inodes, writes : BOOLEAN]]
      /\ DOMAIN fd_table' \subseteq Fds /\ fd_table' \in [DOMAIN fd_table' -> DOMAIN file_table']
  BY DEF HandlesFit
<1>3. AssertsHold' /\ failed' \in {"none", "inodes", "blocks", "size", "sectors", "loop"}
  BY DEF AssertsHold
<1>4. FsTypeOK'
  BY <1>1, <1>2, <1>3 DEF FsTypeOK
<1> QED
  BY <1>3, <1>4 DEF FsInv

LEMMA InvParts ==
    ASSUME FsInv
    PROVE  /\ IsPart(part) /\ Layout(part) /\ PartFits(part) /\ Cached(part) /\ Readable(part)
           /\ Root \in part.inodes /\ part.inodes \subseteq Inodes
           /\ Root \in DOMAIN part.open /\ DOMAIN part.open \subseteq part.inodes
           /\ HandlesFit(part, file_table, fd_table, dirs, cwd)
           /\ \A x \in DOMAIN file_table : file_table[x].no \in DOMAIN part.open
           /\ \A x \in DOMAIN dirs : dirs[x].no \in DOMAIN part.open
           /\ cwd \in part.inodes
           /\ \A no : Inode(part, no) = part.disk[no]
<1>1. /\ IsPart(part) /\ Layout(part) /\ PartFits(part) /\ Cached(part) /\ Readable(part)
      /\ HandlesFit(part, file_table, fd_table, dirs, cwd)
  BY DEF FsInv, PartFits, Layout, Readable
<1>2. /\ Root \in part.inodes /\ part.inodes \subseteq Inodes
      /\ DOMAIN part.open \subseteq part.inodes
  BY <1>1 DEF Layout, IsPart, Cached
<1>3. Root \in DOMAIN part.open /\ cwd \in part.inodes
  BY <1>1 DEF HandlesFit
<1>4. \A no : Inode(part, no) = part.disk[no]
  BY <1>1 DEF Inode, Cached
<1> QED
  BY <1>1, <1>2, <1>3, <1>4, OpenUsed

\* An ASSERT that fails leaves everything as it was.
LEMMA PanicStep ==
    ASSUME FsInv, NEW why \in {"inodes", "blocks", "size"}, FsPanics(why),
           UNCHANGED <<dirs, cwd>>, names' = [path \in AllPaths |-> LeadsTo(part', path)]
    PROVE  FsInv' /\ UNCHANGED names
<1>1. /\ part' = part /\ file_table' = file_table /\ fd_table' = fd_table /\ failed' = why
      /\ dirs' = dirs /\ cwd' = cwd
  BY DEF FsPanics
<1>2. PartFits(part') /\ HandlesFit(part', file_table', fd_table', dirs', cwd')
  BY <1>1, InvParts
<1>3. names' = names
  BY <1>1 DEF FsInv
<1> QED
  BY <1>1, <1>2, <1>3, InvNext

\* In the tree of names.
LEMMA TreeMade ==
    ASSUME PathsClosed, FsInv, names' = [path \in AllPaths |-> LeadsTo(part', path)],
           NEW t \in AllPaths, NEW d, LeadsToDir(part, Front(t), d),
           LeadsTo(part, t) = "none", NEW type, LeadsTo(part', t) = type,
           \A path \in Seq(Names) : path # t => LeadsTo(part', path) = LeadsTo(part, path)
    PROVE  Tree!Make(t, type)
<1>1. AllPaths \subseteq Seq(Names) \ {<<>>}
  BY PathsOfNames
<1>2. names = [path \in AllPaths |-> LeadsTo(part, path)]
  BY DEF FsInv
<1>3. names' = [names EXCEPT ![t] = type]
  BY <1>1, <1>2
<1>4. names[t] = "none"
  BY <1>2
<1>5. Tree!IsDirectory(Front(t))
  <2>1. t \in Seq(Names) /\ t # <<>> /\ Front(t) \in Seq(Names) /\ Len(Front(t)) = Len(t) - 1
    BY <1>1, FrontFacts
  <2>2. CASE Len(t) > 1
    <3>1. Front(t) \in DirPaths /\ DirPaths \subseteq AllPaths
      BY <2>2, PathsOfNames DEF PathsClosed
    <3>2. Leads(part, Front(t)) /\ SearchFile(part, Front(t)).type = "directory"
      BY <2>1, InvParts, DirLeads DEF LeadsToDir
    <3>3. LeadsTo(part, Front(t)) = "directory"
      BY <3>2 DEF Leads, LeadsTo
    <3> QED
      BY <1>2, <3>1, <3>3 DEF Tree!IsDirectory
  <2>3. CASE ~(Len(t) > 1)
    <3>1. Len(t) \in Nat /\ Len(t) > 0
      BY <2>1
    <3>2. Front(t) = <<>>
      BY <2>1, <2>3, <3>1
    <3> QED
      BY <3>2 DEF Tree!IsDirectory
  <2> QED
    BY <2>2, <2>3
<1>6. Tree!Front(t) = Front(t)
  BY DEF Front, Tree!Front
<1> QED
  BY <1>3, <1>4, <1>5, <1>6 DEF Tree!Make

\* A new name: where the walk ends, and the number it gets.
LEMMA NewNames ==
    ASSUME FsInv, NEW t \in AllPaths, New(SearchFile(part, t), t)
    PROVE  LET d == SearchFile(part, t).parent IN
           /\ t \in Seq(Names) /\ t # <<>> /\ Last(t) \in Names
           /\ LeadsToDir(part, Front(t), d)
           /\ d \in part.inodes /\ IsDir(part, d)
           /\ \A k \in Idx, c \in Cells : E(part, d, k, c).name # Last(t)
<1>1. t \in Seq(Names) /\ t # <<>> /\ Last(t) \in Names /\ Front(t) \in Seq(Names)
  BY PathsOfNames, FrontFacts
<1>2. SearchFile(part, t).type = "unknown" /\ SearchFile(part, t).depth = Len(t)
  BY DEF New
<1>3. /\ LeadsToDir(part, Front(t), SearchFile(part, t).parent)
      /\ OneFurther(part, SearchFile(part, t).parent, Last(t), SearchFile(part, t))
  BY <1>1, <1>2, InvParts, SearchWhole
<1>4. /\ SearchFile(part, t).parent \in part.inodes
      /\ IsDir(part, SearchFile(part, t).parent)
  BY <1>1, <1>3, InvParts, DirLeads
<1> QED
  BY <1>1, <1>2, <1>3, <1>4 DEF OneFurther

LEMMA NewInodeIs ==
    ASSUME ~NoInode
    PROVE  NewInode \in Inodes \ part.inodes
<1>1. Inodes \ part.inodes \subseteq Nat /\ Inodes \ part.inodes # {}
  BY Sizes DEF NoInode
<1> QED
  BY <1>1, MinLemma DEF NewInode

LEMMA SlotFree ==
    ASSUME FreeSlots # {}
    PROVE  Min(FreeSlots) \in FileSlots \ DOMAIN file_table
<1>1. FreeSlots \subseteq Nat
  BY FsAssumption DEF FreeSlots, FileSlots
<1> QED
  BY <1>1, MinLemma DEF FreeSlots

LEMMA Installed ==
    ASSUME NEW slot, FdInstall(slot)
    PROVE  fd_table' = fd_table
              \/ \E f \in Fds \ DOMAIN fd_table : fd_table' = With(fd_table, f, slot)
<1>1. CASE Fds \ DOMAIN fd_table = {}
  BY <1>1 DEF FdInstall
<1>2. CASE Fds \ DOMAIN fd_table # {}
  <2>1. Fds \ DOMAIN fd_table \subseteq Nat
    BY FsAssumption DEF Fds
  <2>2. Min(Fds \ DOMAIN fd_table) \in Fds \ DOMAIN fd_table
    BY <1>2, <2>1, MinLemma
  <2>3. fd_table' = With(fd_table, Min(Fds \ DOMAIN fd_table), slot)
    BY <1>2 DEF FdInstall
  <2> QED
    BY <2>2, <2>3
<1> QED
  BY <1>1, <1>2

LEMMA CreateStep ==
    ASSUME FsBounds, FsInv, NEW t \in FilePaths, NEW writes \in BOOLEAN, Create(t, writes),
           UNCHANGED <<dirs, cwd>>, names' = [path \in AllPaths |-> LeadsTo(part', path)]
    PROVE  FsInv' /\ (Tree!Make(t, "regular") \/ UNCHANGED names)
<1> DEFINE d == SearchFile(part, t).parent
           slot == Min(FreeSlots)
           no == NewInode
           e == Entry(Last(t), no, "regular")
           p1 == DirOpen(part, d)
           n == SyncDirEntry(p1, d, e)
           new == [count |-> 1, deny |-> FALSE, inode |-> EmptyInode]
           made == [InodeSync(n, no, EmptyInode) EXCEPT
                       !.inodes = @ \cup {no}, !.open = With(@, no, new)]
<1>1. CASE NoInode
  <2>1. FsPanics("inodes")
    BY <1>1 DEF Create
  <2> QED
    BY <2>1, PanicStep
<1>2. CASE ~NoInode /\ NoBlocks(PlaceNeeds(part, d))
  <2>1. FsPanics("blocks")
    BY <1>2 DEF Create
  <2> QED
    BY <2>1, PanicStep
<1>3. CASE ~NoInode /\ ~NoBlocks(PlaceNeeds(part, d))
  <2>1. /\ New(SearchFile(part, t), t) /\ FreeSlots # {} /\ failed = "none"
        /\ part' = DirClose(made, d)
        /\ file_table' = With(file_table, slot, [no |-> no, writes |-> writes])
        /\ FdInstall(slot)
        /\ UNCHANGED failed
    BY <1>3 DEF Create
  <2>2. /\ t \in Seq(Names) /\ t # <<>> /\ Last(t) \in Names
        /\ LeadsToDir(part, Front(t), d)
        /\ d \in part.inodes /\ IsDir(part, d)
        /\ \A k \in Idx, c \in Cells : E(part, d, k, c).name # Last(t)
    BY <2>1, PathsOfNames, NewNames
  <2> HIDE DEF d
  <2>3. no \in Inodes \ part.inodes
    BY <1>3, NewInodeIs
  <2>4. d \in Inodes /\ IsPart(part) /\ Root \in DOMAIN part.open
    BY <2>2, InvParts
  <2> HIDE DEF no
  <2>5. e \in EntryType /\ e.name = Last(t) /\ e.no = no /\ e.type = "regular"
    BY <2>2, <2>3 DEF Entry, EntryType
  <2> HIDE DEF e
  <2>6. /\ IsPart(p1) /\ SameDisk(part, p1)
        /\ DOMAIN p1.open = DOMAIN part.open \cup {d}
        /\ \A x \in DOMAIN p1.open : p1.open[x].inode = Inode(part, x)
    BY <2>4, DirOpenIs
  <2> HIDE DEF p1
  <2>7. Begun(part, p1, d, e, 0, EmptyInode) /\ p1.inodes = part.inodes /\ p1.disk = part.disk
    BY <2>5, <2>6 DEF Begun, SameDisk
  <2>8. d \in DOMAIN p1.open /\ p1.open[d].inode = p1.disk[d] /\ Inode(p1, d) = Inode(part, d)
    BY <2>6, <2>7, InvParts DEF Inode
  <2>9. PlaceNeeds(p1, d) <= Cardinality(FreeBlocks(p1.blocks))
    <3>1. p1.entries = part.entries /\ p1.blocks = part.blocks
      BY <2>6 DEF SameDisk
    <3>2. PlaceNeeds(p1, d) = PlaceNeeds(part, d)
      BY <2>8, <3>1, PlaceSame
    <3>3. PlaceNeeds(part, d) \in Nat /\ Cardinality(FreeBlocks(part.blocks)) \in Nat
      BY BelowFacts DEF PlaceNeeds
    <3>4. ~(Cardinality(FreeBlocks(part.blocks)) < PlaceNeeds(part, d))
      BY <1>3 DEF NoBlocks, FreeBlocks
    <3> QED
      BY <3>1, <3>2, <3>3, <3>4
  <2>10. /\ IsPart(n) /\ n.inodes = part.inodes /\ Followed(p1, n, d)
         /\ \E k0, c0, x : Placed(p1, n, d, e, k0, c0, x)
    BY <2>2, <2>3, <2>5, <2>7, <2>8, <2>9, InvParts, CreationSynced DEF FsBounds
  <2>11. \A x \in Inodes \ {d} : n.disk[x] = p1.disk[x]
    BY <2>10 DEF Placed
  <2> DEFINE o == NewOpen(n.open, no, EmptyInode, "regular")
  <2>12. made = Listed(n, no, EmptyInode, o)
    <3>1. n = [inodes |-> n.inodes, blocks |-> n.blocks, disk |-> n.disk, open |-> n.open,
               entries |-> n.entries, tables |-> n.tables]
      BY <2>10 DEF IsPart
    <3>2. no % 256 = no
      BY <2>3, Sizes DEF Inodes, FsBounds, SmallNumbers
    <3> HIDE DEF n
    <3>3. InodeSync(n, no, EmptyInode) = [n EXCEPT !.disk[no] = EmptyInode]
      BY <3>2 DEF InodeSync
    <3>4. o = With(n.open, no, new)
      BY DEF NewOpen
    <3> HIDE DEF o, new
    <3> QED
      BY <3>1, <3>3, <3>4 DEF Listed
  <2> HIDE DEF n, made
  <2>13. EmptyInode \in InodeType
    BY NewInodes
  <2> HIDE DEF o
  <2>14. /\ OpenMade(o) /\ SameDisk(made, part') /\ IsPart(part') /\ Cached(part')
         /\ Root \in DOMAIN part'.open
         /\ \A x \in Inodes \ {Root} :
               Count(part', x) = Count(part, x) + (IF x = no THEN 1 ELSE 0)
    <3>1. IsPart(p1) /\ p1.open = DirOpen(part, d).open /\ o = NewOpen(n.open, no, EmptyInode, "regular")
      BY <2>6 DEF p1, o
    <3>2. /\ IsPart(part) /\ Cached(part) /\ Root \in DOMAIN part.open
      BY InvParts
    <3>3. Remembered(part, p1, n, made, part', d, no, EmptyInode, "regular", o)
      BY <2>1, <2>2, <2>3, <2>7, <2>10, <2>11, <2>12, <2>13, <3>1, <3>2 DEF Remembered
    <3> QED
      BY <3>3, CreationMemory
  <2>15. /\ PartFits(part')
         /\ LeadsTo(part, t) = "none" /\ LeadsTo(part', t) = "regular"
         /\ \A path \in Seq(Names) : path # t => LeadsTo(part', path) = LeadsTo(part, path)
         /\ part'.inodes = part.inodes \cup {no}
         /\ \A x \in part.inodes : IsDir(part', x) <=> IsDir(part, x)
         /\ ~IsDir(part', no)
    <3>1. Creates(part, p1, made, part', d, e, 0, EmptyInode, o, t)
      BY <2>2, <2>3, <2>5, <2>7, <2>8, <2>9, <2>12, <2>14, InvParts DEF Creates, n
    <3>2. DirectOnly /\ SmallNumbers /\ ShortDirs
      BY DEF FsBounds
    <3>3. /\ PartFits(part')
          /\ LeadsTo(part, t) = "none" /\ LeadsTo(part', t) = e.type
          /\ \A path \in Seq(Names) : path # t => LeadsTo(part', path) = LeadsTo(part, path)
          /\ part'.inodes = part.inodes \cup {e.no}
          /\ \A x \in part.inodes : IsDir(part', x) <=> IsDir(part, x)
          /\ IsDir(part', e.no) <=> e.type = "directory"
      BY <3>1, <3>2, CreationFits
    <3> QED
      BY <2>5, <3>3
  <2>16. HandlesFit(part', file_table', fd_table', dirs', cwd')
    <3>1. /\ HandlesFit(part, file_table, fd_table, dirs, cwd)
          /\ dirs' = dirs /\ cwd' = cwd
      BY InvParts
    <3>2. SameDirs(part, part', file_table, dirs, cwd)
      BY <2>14, <2>15, InvParts DEF SameDirs
    <3>3. slot \in FileSlots \ DOMAIN file_table
      BY <2>1, SlotFree
    <3> HIDE DEF slot
    <3> DEFINE v == [no |-> no, writes |-> writes]
    <3>4. v \in [no : Inodes, writes : BOOLEAN] /\ v.no = no
      BY <2>3
    <3>5. file_table' = With(file_table, slot, v)
      BY <2>1
    <3> HIDE DEF v
    <3>6. fd_table' = fd_table \/ \E f \in Fds \ DOMAIN fd_table : fd_table' = With(fd_table, f, slot)
      BY <2>1, Installed DEF slot
    <3> QED
      BY <2>14, <2>15, <3>1, <3>2, <3>3, <3>4, <3>5, <3>6, SlotTaken
  <2>17. FsInv'
    BY <2>1, <2>15, <2>16, InvNext
  <2>18. Tree!Make(t, "regular")
    BY <2>2, <2>15, PathsOfNames, TreeMade DEF FsBounds
  <2> QED
    BY <2>17, <2>18
<1> QED
  BY <1>1, <1>2, <1>3

\* One free block fewer.
LEMMA FreeLess ==
    ASSUME NEW T, NEW b \in DataBlocks \ T
    PROVE  Cardinality(FreeBlocks(T \cup {b})) = Cardinality(FreeBlocks(T)) - 1
<1>1. FreeBlocks(T \cup {b}) = FreeBlocks(T) \ {b} /\ b \in FreeBlocks(T)
  BY DEF FreeBlocks
<1>2. IsFiniteSet(FreeBlocks(T))
  BY FiniteParts, FS_Subset DEF FreeBlocks
<1> QED
  BY <1>1, <1>2, FS_RemoveElement

LEMMA MkdirStep ==
    ASSUME FsBounds, FsInv, NEW t \in DirPaths, Mkdir(t),
           UNCHANGED <<dirs, cwd>>, names' = [path \in AllPaths |-> LeadsTo(part', path)]
    PROVE  FsInv' /\ (Tree!Make(t, "directory") \/ UNCHANGED names)
<1> DEFINE d == SearchFile(part, t).parent
           no == NewInode
           e == Entry(Last(t), no, "directory")
           b == NthFree(part.blocks, 1)
           p1 == DirOpen(part, d)
           p2 == [p1 EXCEPT !.blocks = @ \cup {b}, !.entries[b] = Dots(no, d)]
           n == SyncDirEntry(p2, d, e)
           made == InodeSync([n EXCEPT !.inodes = @ \cup {no}], no, NewDir(b))
<1>1. CASE NoInode
  <2>1. FsPanics("inodes")
    BY <1>1 DEF Mkdir
  <2> QED
    BY <2>1, PanicStep
<1>2. CASE ~NoInode /\ NoBlocks(1 + PlaceNeeds(part, d))
  <2>1. FsPanics("blocks")
    BY <1>2 DEF Mkdir
  <2> QED
    BY <2>1, PanicStep
<1>3. CASE ~NoInode /\ ~NoBlocks(1 + PlaceNeeds(part, d))
  <2>1. /\ New(SearchFile(part, t), t) /\ failed = "none"
        /\ part' = DirClose(made, d)
        /\ UNCHANGED <<file_table, fd_table, failed>>
    BY <1>3 DEF Mkdir, Made
  <2>2. /\ t \in Seq(Names) /\ t # <<>> /\ Last(t) \in Names
        /\ LeadsToDir(part, Front(t), d)
        /\ d \in part.inodes /\ IsDir(part, d)
        /\ \A k \in Idx, c \in Cells : E(part, d, k, c).name # Last(t)
    BY <2>1, PathsOfNames, NewNames
  <2>3. no \in Inodes \ part.inodes
    BY <1>3, NewInodeIs
  <2>4. /\ PlaceNeeds(part, d) \in Nat /\ Cardinality(FreeBlocks(part.blocks)) \in Nat
        /\ PlaceNeeds(part, d) + 1 <= Cardinality(FreeBlocks(part.blocks))
    <3>1. PlaceNeeds(part, d) \in Nat /\ Cardinality(FreeBlocks(part.blocks)) \in Nat
      BY BelowFacts DEF PlaceNeeds
    <3>2. ~(Cardinality(FreeBlocks(part.blocks)) < 1 + PlaceNeeds(part, d))
      BY <1>3 DEF NoBlocks, FreeBlocks
    <3> QED
      BY <3>1, <3>2
  <2> HIDE DEF d
  <2>5. b \in DataBlocks \ part.blocks
    <3>1. 1 <= Cardinality(FreeBlocks(part.blocks))
      BY <2>4
    <3> QED
      BY <3>1, NthFreeLemma DEF FreeBlocks
  <2> HIDE DEF no, b
  <2>6. d \in Inodes /\ IsPart(part) /\ Root \in DOMAIN part.open
    BY <2>2, InvParts
  <2>7. e \in EntryType /\ e.name = Last(t) /\ e.no = no /\ e.type = "directory"
    BY <2>2, <2>3 DEF Entry, EntryType
  <2> HIDE DEF e
  <2>8. /\ IsPart(p1) /\ SameDisk(part, p1)
        /\ DOMAIN p1.open = DOMAIN part.open \cup {d}
        /\ \A x \in DOMAIN p1.open : p1.open[x].inode = Inode(part, x)
    BY <2>6, DirOpenIs
  <2>9. /\ p1.blocks = part.blocks /\ p1.entries = part.entries /\ p1.disk = part.disk
        /\ p1.inodes = part.inodes
    BY <2>8 DEF SameDisk
  <2> HIDE DEF p1
  <2>10. /\ IsPart(p2) /\ p2.inodes = part.inodes /\ p2.blocks = part.blocks \cup {b}
         /\ p2.disk = part.disk /\ p2.open = p1.open
         /\ \A x \in DataBlocks : p2.entries[x] = IF x = b THEN Dots(no, d) ELSE part.entries[x]
    <3>1. Dots(no, d) \in [Cells -> EntryType]
      <4>1. Entry(".", no, "directory") \in EntryType /\ Entry("..", d, "directory") \in EntryType
        BY <2>3, <2>6 DEF Entry, EntryType
      <4>2. NoEntries \in [Cells -> EntryType]
        BY DEF NoEntries, EntryType
      <4> QED
        BY <4>1, <4>2, Sizes DEF Dots
    <3>2. /\ p1 = [inodes |-> p1.inodes, blocks |-> p1.blocks, disk |-> p1.disk,
                   open |-> p1.open, entries |-> p1.entries, tables |-> p1.tables]
          /\ p1.inodes \subseteq Inodes /\ p1.blocks \subseteq DataBlocks
          /\ p1.disk \in [Inodes -> InodeType]
          /\ DOMAIN p1.open \subseteq Inodes /\ p1.open \in [DOMAIN p1.open -> OpenType]
          /\ p1.entries \in [DataBlocks -> [Cells -> EntryType]]
          /\ p1.tables \in [DataBlocks -> Tables]
      BY <2>8 DEF IsPart
    <3> DEFINE x == [p1.entries EXCEPT ![b] = Dots(no, d)]
               B == p1.blocks \cup {b}
    <3>3. /\ x \in [DataBlocks -> [Cells -> EntryType]]
          /\ \A y \in DataBlocks : x[y] = IF y = b THEN Dots(no, d) ELSE p1.entries[y]
      BY <2>5, <3>1, <3>2
    <3>4. p2 = [inodes |-> p1.inodes, blocks |-> B, disk |-> p1.disk,
                open |-> p1.open, entries |-> x, tables |-> p1.tables]
      <4>1. p1 = [inodes |-> p1.inodes, blocks |-> p1.blocks, disk |-> p1.disk,
                  open |-> p1.open, entries |-> p1.entries, tables |-> p1.tables]
        BY <3>2
      <4>2. p2 = [p1 EXCEPT !.blocks = B, !.entries = x]
        OBVIOUS
      <4> HIDE DEF B, x, p2
      <4> QED
        BY <4>1, <4>2
    <3>5. B \subseteq DataBlocks
      BY <2>5, <3>2
    <3> HIDE DEF x, B, p2
    <3>6. /\ p2.inodes = p1.inodes /\ p2.blocks = B /\ p2.disk = p1.disk /\ p2.open = p1.open
          /\ p2.entries = x /\ p2.tables = p1.tables
      BY <3>4
    <3>7. IsPart(p2)
      BY <3>2, <3>3, <3>4, <3>5, <3>6 DEF IsPart
    <3> QED
      BY <2>9, <3>3, <3>6, <3>7 DEF B
  <2> HIDE DEF p2
  <2>11. Begun(part, p2, d, e, b, NewDir(b))
    BY <2>5, <2>7, <2>10 DEF Begun
  <2>12. d \in DOMAIN p2.open /\ p2.open[d].inode = p2.disk[d] /\ Inode(p2, d) = Inode(part, d)
    BY <2>8, <2>10, InvParts DEF Inode
  <2>13. PlaceNeeds(p2, d) <= Cardinality(FreeBlocks(p2.blocks))
    <3>1. \A k \in Idx : Sec(part, d, k) \in part.blocks \cup {Nil}
      BY <2>2, InvParts, Marked
    <3>2. ASSUME NEW k \in 0..MaxBlocks - 1, k < Direct, Inode(part, d).sectors[k] # Nil
          PROVE  p2.entries[Inode(part, d).sectors[k]] = part.entries[Inode(part, d).sectors[k]]
      <4>1. k \in Idx
        BY <3>2, Sizes DEF Idx
      <4>2. Inode(part, d).sectors[k] \in part.blocks /\ part.blocks \subseteq DataBlocks
        BY <2>6, <3>1, <3>2, <4>1, InvParts DEF Sec, IsPart
      <4> QED
        BY <2>5, <2>10, <4>2
    <3>3. PlaceNeeds(p2, d) = PlaceNeeds(part, d)
      BY <2>12, <3>2, PlaceSame
    <3> QED
      BY <2>4, <2>5, <2>10, <3>3, FreeLess
  <2>14. /\ IsPart(n) /\ n.inodes = part.inodes /\ Followed(p2, n, d)
         /\ \E k0, c0, x : Placed(p2, n, d, e, k0, c0, x)
    BY <2>2, <2>3, <2>7, <2>11, <2>12, <2>13, InvParts, CreationSynced DEF FsBounds
  <2>15. \A x \in Inodes \ {d} : n.disk[x] = p2.disk[x]
    BY <2>14 DEF Placed
  <2> DEFINE o == NewOpen(n.open, no, NewDir(b), "directory")
  <2>16. made = Listed(n, no, NewDir(b), o)
    <3>1. n = [inodes |-> n.inodes, blocks |-> n.blocks, disk |-> n.disk, open |-> n.open,
               entries |-> n.entries, tables |-> n.tables]
      BY <2>14 DEF IsPart
    <3>2. no % 256 = no
      BY <2>3, Sizes DEF Inodes, FsBounds, SmallNumbers
    <3> HIDE DEF n
    <3> QED
      BY <3>1, <3>2 DEF InodeSync, Listed, NewOpen
  <2> HIDE DEF n, made
  <2>17. NewDir(b) \in InodeType
    BY <2>5, NewInodes
  <2> HIDE DEF o
  <2>18. /\ OpenMade(o) /\ SameDisk(made, part') /\ IsPart(part') /\ Cached(part')
         /\ Root \in DOMAIN part'.open
         /\ \A x \in Inodes \ {Root} : Count(part', x) = Count(part, x)
    <3>1. p2.open = DirOpen(part, d).open /\ o = NewOpen(n.open, no, NewDir(b), "directory")
      BY <2>10 DEF p1, o
    <3>2. /\ IsPart(part) /\ Cached(part) /\ Root \in DOMAIN part.open
      BY InvParts
    <3>3. Remembered(part, p2, n, made, part', d, no, NewDir(b), "directory", o)
      BY <2>1, <2>2, <2>3, <2>10, <2>14, <2>15, <2>16, <2>17, <3>1, <3>2 DEF Remembered
    <3>4. /\ OpenMade(o) /\ SameDisk(made, part') /\ IsPart(part') /\ Cached(part')
          /\ Root \in DOMAIN part'.open
          /\ \A x \in Inodes \ {Root} :
                Count(part', x) = Count(part, x) + (IF x = no /\ "directory" = "regular" THEN 1 ELSE 0)
      BY <3>3, CreationMemory
    <3>5. \A x \in Inodes : Count(part, x) \in Nat
      BY <3>2, OpenTyped DEF Count
    <3> QED
      BY <3>4, <3>5
  <2>19. /\ PartFits(part')
         /\ LeadsTo(part, t) = "none" /\ LeadsTo(part', t) = "directory"
         /\ \A path \in Seq(Names) : path # t => LeadsTo(part', path) = LeadsTo(part, path)
         /\ part'.inodes = part.inodes \cup {no}
         /\ \A x \in part.inodes : IsDir(part', x) <=> IsDir(part, x)
    <3>1. Creates(part, p2, made, part', d, e, b, NewDir(b), o, t)
      BY <2>2, <2>3, <2>7, <2>11, <2>12, <2>13, <2>16, <2>18, InvParts DEF Creates, n
    <3>2. DirectOnly /\ SmallNumbers /\ ShortDirs
      BY DEF FsBounds
    <3>3. /\ PartFits(part')
          /\ LeadsTo(part, t) = "none" /\ LeadsTo(part', t) = e.type
          /\ \A path \in Seq(Names) : path # t => LeadsTo(part', path) = LeadsTo(part, path)
          /\ part'.inodes = part.inodes \cup {e.no}
          /\ \A x \in part.inodes : IsDir(part', x) <=> IsDir(part, x)
      BY <3>1, <3>2, CreationFits
    <3> QED
      BY <2>7, <3>3
  <2>20. HandlesFit(part', file_table', fd_table', dirs', cwd')
    <3>1. /\ HandlesFit(part, file_table, fd_table, dirs, cwd)
          /\ dirs' = dirs /\ cwd' = cwd /\ file_table' = file_table /\ fd_table' = fd_table
      BY <2>1, InvParts
    <3>2. SameDirs(part, part', file_table, dirs, cwd)
      BY <2>18, <2>19, InvParts DEF SameDirs
    <3> QED
      BY <2>18, <3>1, <3>2, HandlesMoved
  <2>21. FsInv'
    BY <2>1, <2>19, <2>20, InvNext
  <2>22. Tree!Make(t, "directory")
    BY <2>2, <2>19, PathsOfNames, TreeMade DEF FsBounds
  <2> QED
    BY <2>21, <2>22
<1> QED
  BY <1>1, <1>2, <1>3

\* A call that changes nothing but what is in memory.
LEMMA MemoryStep ==
    ASSUME FsInv, SameDisk(part, part'), IsPart(part'), Cached(part'),
           HandlesFit(part', file_table', fd_table', dirs', cwd'), failed' = failed,
           names' = names \/ names' = [path \in AllPaths |-> LeadsTo(part', path)]
    PROVE  FsInv' /\ UNCHANGED names
<1>1. /\ PartFits(part')
      /\ \A path \in Seq(Names) : SearchFile(part', path) = SearchFile(part, path)
  BY InvParts, MemoryOnly
<1>2. [path \in AllPaths |-> LeadsTo(part', path)] = [path \in AllPaths |-> LeadsTo(part, path)]
  BY <1>1, PathsOfNames DEF LeadsTo
<1>3. names = [path \in AllPaths |-> LeadsTo(part, path)]
  BY DEF FsInv
<1>4. failed' \in {"none", "inodes", "blocks", "size"}
  BY DEF FsInv, FsTypeOK, AssertsHold
<1>5. names' = names /\ names' = [path \in AllPaths |-> LeadsTo(part', path)]
  BY <1>2, <1>3
<1> QED
  BY <1>1, <1>4, <1>5, InvNext

\* write_deny of an inode in memory.
Denied(p, q, no, x) == q = [p EXCEPT !.open[no].deny = x]

LEMMA DenySet ==
    ASSUME NEW p, IsPart(p), NEW no \in DOMAIN p.open, NEW x \in BOOLEAN,
           NEW q, Denied(p, q, no, x)
    PROVE  /\ IsPart(q) /\ SameDisk(p, q) /\ DOMAIN q.open = DOMAIN p.open
           /\ \A m \in Inodes : Count(q, m) = Count(p, m)
           /\ \A m \in DOMAIN q.open : q.open[m].inode = p.open[m].inode
<1> DEFINE o == [p.open EXCEPT ![no].deny = x]
<1>1. q = [p EXCEPT !.open = o]
  BY DEF IsPart, Denied
<1>2. /\ p.open \in [DOMAIN p.open -> OpenType] /\ DOMAIN p.open \subseteq Inodes
  BY DEF IsPart
<1>3. /\ o \in [DOMAIN p.open -> OpenType] /\ DOMAIN o = DOMAIN p.open
      /\ \A m \in DOMAIN p.open : o[m].count = p.open[m].count /\ o[m].inode = p.open[m].inode
  BY <1>2 DEF OpenType
<1> HIDE DEF o
<1>4. q.open = o /\ SameDisk(p, q) /\ IsPart(q)
  <2>1. DOMAIN o \subseteq Inodes /\ o \in [DOMAIN o -> OpenType]
    BY <1>2, <1>3
  <2> QED
    BY <1>1, <2>1, PartMade
<1> QED
  BY <1>3, <1>4 DEF Count

LEMMA OpenStep ==
    ASSUME FsBounds, FsInv, NEW t \in OpenPaths, NEW writes \in BOOLEAN, Open(t, writes),
           UNCHANGED <<dirs, cwd>>, names' = [path \in AllPaths |-> LeadsTo(part', path)]
    PROVE  FsInv' /\ UNCHANGED names
<1> DEFINE at == SearchFile(part, t)
           no == at.no
           slot == Min(FreeSlots)
           q == InodeOpen(part, no)
           v == [no |-> no, writes |-> writes]
<1>1. at.type = "regular" /\ at.depth = Len(t) /\ failed' = failed
  BY DEF Open
<1>2. t \in Seq(Names) /\ t # <<>>
  BY PathsOfNames
<1>3. no \in part.inodes \ {Root} /\ ~IsDir(part, no)
  BY <1>1, <1>2, InvParts, SearchFits DEF AtFits
<1>4. at.parent = Root
  <2>1. LeadsToDir(part, Front(t), at.parent)
    BY <1>1, <1>2, InvParts, SearchWhole
  <2>2. Front(t) \in Seq(Names) /\ Len(Front(t)) = 0
    BY <1>2, FrontFacts DEF FsBounds, RootFiles
  <2>3. Front(t) = <<>>
    BY <2>2
  <2> QED
    BY <2>1, <2>3, SearchRoot DEF LeadsToDir, AtRoot
<1>5. DirOpen(part, at.parent) = part
  BY <1>4 DEF DirOpen
<1>6. HandlesFit(part, file_table, fd_table, dirs, cwd) /\ dirs' = dirs /\ cwd' = cwd
  BY InvParts
<1>7. CASE FreeSlots = {}
  <2>1. part' = part /\ file_table' = file_table /\ fd_table' = fd_table
    BY <1>5, <1>7 DEF Open
  <2>2. SameDisk(part, part') /\ IsPart(part') /\ Cached(part')
    BY <2>1, InvParts DEF SameDisk
  <2> QED
    BY <1>1, <1>6, <2>1, <2>2, MemoryStep
<1>8. CASE FreeSlots # {}
  <2>1. FileOpen(part, no, writes)
    BY <1>5, <1>8 DEF Open
  <2>2. /\ part' = [q EXCEPT !.open[no].deny = @ \/ writes]
        /\ file_table' = With(file_table, slot, v)
        /\ fd_table' = fd_table \/ FdInstall(slot)
    BY <2>1 DEF FileOpen
  <2>3. /\ IsPart(q) /\ SameDisk(part, q)
        /\ DOMAIN q.open = DOMAIN part.open \cup {no}
        /\ Count(q, no) = Count(part, no) + 1
        /\ \A m \in Inodes \ {no} : Count(q, m) = Count(part, m)
        /\ \A m \in DOMAIN q.open : q.open[m].inode = Inode(part, m)
    BY <1>3, InvParts, InodeOpenIs
  <2>4. no \in Inodes
    BY <1>3, InvParts
  <2> HIDE DEF q, no
  <2> DEFINE x == q.open[no].deny \/ writes
  <2>5. part' = [q EXCEPT !.open[no].deny = x]
    BY <2>2
  <2>6. x \in BOOLEAN
    OBVIOUS
  <2> HIDE DEF x
  <2>7. /\ IsPart(part') /\ SameDisk(q, part') /\ DOMAIN part'.open = DOMAIN q.open
        /\ \A m \in Inodes : Count(part', m) = Count(q, m)
        /\ \A m \in DOMAIN part'.open : part'.open[m].inode = q.open[m].inode
    <3>1. no \in DOMAIN q.open
      BY <2>3
    <3>2. Denied(q, part', no, x)
      BY <2>5 DEF Denied
    <3> QED
      BY <2>3, <2>6, <3>1, <3>2, DenySet
  <2>8. SameDisk(part, part')
    BY <2>3, <2>7 DEF SameDisk
  <2>9. Cached(part')
    BY <1>3, <2>3, <2>7, <2>8, InvParts DEF Cached, SameDisk
  <2>10. \A m \in part.inodes : IsDir(part', m) <=> IsDir(part, m)
    BY <2>8, SameDiskEntries
  <2>11. SameDirs(part, part', file_table, dirs, cwd)
    BY <2>3, <2>7, <2>8, <2>10, InvParts DEF SameDirs, SameDisk
  <2>12. \A m \in Inodes \ {Root} : Count(part', m) = Count(part, m) + (IF m = no THEN 1 ELSE 0)
    <3>1. \A m \in Inodes : Count(part, m) \in Nat
      BY InvParts, OpenTyped DEF Count
    <3> QED
      BY <2>3, <2>7, <3>1
  <2>13. slot \in FileSlots \ DOMAIN file_table
    BY <1>8, SlotFree
  <2>14. v \in [no : Inodes, writes : BOOLEAN] /\ v.no = no /\ ~IsDir(part', v.no)
    BY <1>3, <2>4, <2>10
  <2> HIDE DEF v
  <2>15. fd_table' = fd_table \/ \E f \in Fds \ DOMAIN fd_table : fd_table' = With(fd_table, f, slot)
    BY <2>2, Installed
  <2> HIDE DEF slot
  <2>16. HandlesFit(part', file_table', fd_table', dirs', cwd')
    BY <1>6, <2>2, <2>11, <2>12, <2>13, <2>14, <2>15, SlotTaken
  <2> QED
    BY <1>1, <2>7, <2>8, <2>9, <2>16, MemoryStep
<1> QED
  BY <1>7, <1>8

LEMMA CloseStep ==
    ASSUME FsBounds, FsInv, NEW fd \in Fds, Close(fd),
           UNCHANGED <<dirs, cwd>>, names' = [path \in AllPaths |-> LeadsTo(part', path)]
    PROVE  FsInv' /\ UNCHANGED names
<1> DEFINE slot == fd_table[fd]
           no == file_table[slot].no
           q == [part EXCEPT !.open[no].deny = FALSE]
<1>1. /\ fd \in DOMAIN fd_table /\ failed' = failed
      /\ part' = InodeClose(q, no)
      /\ file_table' = Restrict(file_table, DOMAIN file_table \ {slot})
      /\ fd_table' = Restrict(fd_table, DOMAIN fd_table \ {fd})
  BY DEF Close
<1>2. HandlesFit(part, file_table, fd_table, dirs, cwd) /\ dirs' = dirs /\ cwd' = cwd
  BY InvParts
<1>3. slot \in DOMAIN file_table
  BY <1>1, <1>2 DEF HandlesFit
<1>4. no \in DOMAIN part.open /\ ~IsDir(part, no)
  BY <1>2, <1>3, InvParts DEF HandlesFit
<1>5. no # Root /\ no \in Inodes
  BY <1>4, InvParts DEF PartFits, NamesFit
<1> HIDE DEF no
<1>6. /\ IsPart(q) /\ SameDisk(part, q) /\ DOMAIN q.open = DOMAIN part.open
      /\ \A m \in Inodes : Count(q, m) = Count(part, m)
      /\ \A m \in DOMAIN q.open : q.open[m].inode = part.open[m].inode
  <2>1. Denied(part, q, no, FALSE)
    BY DEF Denied
  <2>2. IsPart(part) /\ FALSE \in BOOLEAN
    BY InvParts
  <2> HIDE DEF q
  <2> QED
    BY <1>4, <2>1, <2>2, DenySet
<1> HIDE DEF q
<1>7. /\ IsPart(part') /\ SameDisk(q, part')
      /\ DOMAIN part'.open = IF Count(q, no) > 1 THEN DOMAIN q.open ELSE DOMAIN q.open \ {no}
      /\ Count(part', no) = Count(q, no) - 1
      /\ \A m \in Inodes \ {no} : Count(part', m) = Count(q, m)
      /\ \A m \in DOMAIN part'.open : part'.open[m].inode = q.open[m].inode
  <2> DEFINE x == InodeClose(q, no)
  <2>1. IsPart(q) /\ no \in DOMAIN q.open
    BY <1>4, <1>6
  <2>2. /\ IsPart(x) /\ SameDisk(q, x)
        /\ DOMAIN x.open = IF Count(q, no) > 1 THEN DOMAIN q.open ELSE DOMAIN q.open \ {no}
        /\ Count(x, no) = Count(q, no) - 1
        /\ \A m \in Inodes \ {no} : Count(x, m) = Count(q, m)
        /\ \A m \in DOMAIN x.open : x.open[m].inode = q.open[m].inode
    BY <2>1, InodeCloseIs
  <2>3. part' = x
    BY <1>1
  <2> HIDE DEF x
  <2> QED
    BY <2>2, <2>3
<1>8. SameDisk(part, part') /\ Root \in DOMAIN part'.open
  BY <1>5, <1>6, <1>7, InvParts DEF SameDisk
<1>9. Cached(part')
  BY <1>6, <1>7, <1>8, InvParts DEF Cached, SameDisk
<1>10. \A m \in part.inodes : IsDir(part', m) <=> IsDir(part, m)
  BY <1>8, SameDiskEntries
<1>11. SameDirs(part, part', file_table, dirs, cwd)
  BY <1>8, <1>10, InvParts DEF SameDirs, SameDisk
<1>12. \A m \in Inodes \ {Root} : Count(part', m) = Count(part, m) - (IF m = no THEN 1 ELSE 0)
  <2>1. \A m \in Inodes : Count(part, m) \in Nat
    BY InvParts, OpenTyped DEF Count
  <2> QED
    BY <1>5, <1>6, <1>7, <2>1
<1>13. HandlesFit(part', file_table', fd_table', dirs', cwd')
  <2>1. no = file_table[slot].no
    BY DEF no
  <2> HIDE DEF slot
  <2>2. slot = fd_table[fd]
    BY DEF slot
  <2> QED
    BY <1>1, <1>2, <1>11, <1>12, <2>1, <2>2, SlotLeft
<1> QED
  BY <1>1, <1>7, <1>8, <1>9, <1>13, MemoryStep

\* The calls that leave names, files and descriptors alone.
Quiet == UNCHANGED <<file_table, fd_table, failed, names>>

LEMMA OpendirStep ==
    ASSUME FsInv, NEW t \in OpenDirPaths, Opendir(t), Quiet, UNCHANGED cwd
    PROVE  FsInv'
<1> DEFINE at == SearchFile(part, t)
           d == at.parent
           no == at.no
           h == Min(Handles \ DOMAIN dirs)
           p1 == DirOpen(part, d)
           p2 == InodeOpen(p1, no)
           v == [no |-> no, pos |-> 0]
<1>1. /\ t # <<>> /\ Handles \ DOMAIN dirs # {} /\ at.type = "directory" /\ at.depth = Len(t)
      /\ part' = DirClose(p2, d) /\ dirs' = With(dirs, h, v)
  BY DEF Opendir
<1>2. t \in Seq(Names)
  BY PathsOfNames
<1>3. no \in part.inodes /\ IsDir(part, no) /\ d \in part.inodes
  BY <1>1, <1>2, InvParts, SearchFits DEF AtFits
<1>4. no # Root
  BY <1>1, <1>2, InvParts, RootPath DEF Leads
<1>5. no \in Inodes /\ d \in Inodes
  BY <1>3, InvParts
<1> HIDE DEF no, d
<1>6. /\ IsPart(p1) /\ SameDisk(part, p1)
      /\ DOMAIN p1.open = DOMAIN part.open \cup {d}
      /\ \A m \in Inodes \ {Root} : Count(p1, m) = Count(part, m) + (IF m = d THEN 1 ELSE 0)
      /\ \A m \in DOMAIN p1.open : p1.open[m].inode = Inode(part, m)
  BY <1>5, InvParts, DirOpenIs
<1> HIDE DEF p1
<1>7. /\ IsPart(p2) /\ SameDisk(p1, p2)
      /\ DOMAIN p2.open = DOMAIN p1.open \cup {no}
      /\ Count(p2, no) = Count(p1, no) + 1
      /\ \A m \in Inodes \ {no} : Count(p2, m) = Count(p1, m)
      /\ \A m \in DOMAIN p2.open : p2.open[m].inode = Inode(p1, m)
  BY <1>5, <1>6, InodeOpenIs
<1> HIDE DEF p2
<1>8. /\ IsPart(part') /\ SameDisk(p2, part')
      /\ DOMAIN part'.open \subseteq DOMAIN p2.open /\ Root \in DOMAIN part'.open
      /\ \A m \in Inodes \ {Root} : Count(part', m) = Count(p2, m) - (IF m = d THEN 1 ELSE 0)
      /\ \A m \in DOMAIN part'.open : part'.open[m].inode = p2.open[m].inode
  <2>1. Root \in DOMAIN p2.open /\ d \in DOMAIN p2.open
    BY <1>6, <1>7, InvParts
  <2> QED
    BY <1>1, <1>7, <2>1, DirCloseIs
<1>9. SameDisk(part, part')
  BY <1>6, <1>7, <1>8 DEF SameDisk
<1>10. Cached(part')
  <2> SUFFICES ASSUME NEW m \in DOMAIN part'.open
               PROVE  m \in part'.inodes /\ part'.open[m].inode = part'.disk[m]
    BY DEF Cached
  <2>1. m \in part.inodes
    BY <1>3, <1>6, <1>7, <1>8, InvParts
  <2>2. \A x : Inode(p1, x) = part.disk[x]
    BY <1>6, InvParts DEF SameDisk, Inode
  <2> QED
    BY <1>7, <1>8, <1>9, <2>1, <2>2 DEF SameDisk
<1>11. \A m \in part.inodes : IsDir(part', m) <=> IsDir(part, m)
  BY <1>9, SameDiskEntries
<1>12. SameDirs(part, part', file_table, dirs, cwd)
  BY <1>8, <1>9, <1>11, InvParts DEF SameDirs, SameDisk
<1>13. \A m \in Inodes \ {Root} : Count(part', m) = Count(part, m) + (IF m = no THEN 1 ELSE 0)
  <2>1. \A m \in Inodes : Count(part, m) \in Nat
    BY InvParts, OpenTyped DEF Count
  <2> QED
    BY <1>6, <1>7, <1>8, <2>1
<1>14. h \in Handles \ DOMAIN dirs
  <2>1. Handles \ DOMAIN dirs \subseteq Nat
    BY DEF Handles
  <2> QED
    BY <1>1, <2>1, MinLemma
<1> HIDE DEF h
<1>15. v \in [no : Inodes, pos : Nat] /\ v.no = no /\ IsDir(part', v.no)
  BY <1>3, <1>5, <1>11
<1> HIDE DEF v
<1>16. HandlesFit(part', file_table', fd_table', dirs', cwd')
  <2>1. /\ HandlesFit(part, file_table, fd_table, dirs, cwd)
        /\ file_table' = file_table /\ fd_table' = fd_table /\ cwd' = cwd
    BY InvParts DEF Quiet
  <2> QED
    BY <1>1, <1>4, <1>12, <1>13, <1>14, <1>15, <2>1, HandleTaken
<1> QED
  BY <1>8, <1>9, <1>10, <1>16, MemoryStep DEF Quiet

LEMMA ClosedirStep ==
    ASSUME FsInv, NEW h \in DOMAIN dirs, Closedir(h), Quiet, UNCHANGED cwd
    PROVE  FsInv'
<1> DEFINE no == dirs[h].no
<1>1. /\ h # RootHandle /\ part' = InodeClose(part, no)
      /\ dirs' = Restrict(dirs, DOMAIN dirs \ {h})
  BY DEF Closedir
<1>2. /\ HandlesFit(part, file_table, fd_table, dirs, cwd)
      /\ file_table' = file_table /\ fd_table' = fd_table /\ cwd' = cwd
  BY InvParts DEF Quiet
<1>3. no \in DOMAIN part.open /\ no \in Inodes /\ no # Root
  BY <1>1, <1>2, InvParts DEF HandlesFit
<1>4. no = dirs[h].no
  OBVIOUS
<1> HIDE DEF no
<1>5. /\ IsPart(part') /\ SameDisk(part, part')
      /\ DOMAIN part'.open =
            IF Count(part, no) > 1 THEN DOMAIN part.open ELSE DOMAIN part.open \ {no}
      /\ Count(part', no) = Count(part, no) - 1
      /\ \A m \in Inodes \ {no} : Count(part', m) = Count(part, m)
      /\ \A m \in DOMAIN part'.open : part'.open[m].inode = part.open[m].inode
  BY <1>1, <1>3, InvParts, InodeCloseIs
<1>6. Root \in DOMAIN part'.open /\ Cached(part')
  BY <1>3, <1>5, InvParts DEF SameDisk, Cached
<1>7. \A m \in part.inodes : IsDir(part', m) <=> IsDir(part, m)
  BY <1>5, SameDiskEntries
<1>8. SameDirs(part, part', file_table, dirs, cwd)
  BY <1>5, <1>6, <1>7, InvParts DEF SameDirs, SameDisk
<1>9. \A m \in Inodes \ {Root} : Count(part', m) = Count(part, m) - (IF m = no THEN 1 ELSE 0)
  <2>1. \A m \in Inodes : Count(part, m) \in Nat
    BY InvParts, OpenTyped DEF Count
  <2> QED
    BY <1>3, <1>5, <2>1
<1>10. HandlesFit(part', file_table', fd_table', dirs', cwd')
  BY <1>1, <1>2, <1>4, <1>8, <1>9, HandleLeft
<1> QED
  BY <1>5, <1>6, <1>10, MemoryStep DEF Quiet

\* sys_readdir and sys_rewinddir.
LEMMA PosStep ==
    ASSUME FsInv, NEW h \in DOMAIN dirs, Readdir(h) \/ Rewinddir(h), Quiet, UNCHANGED cwd
    PROVE  FsInv'
<1>1. /\ HandlesFit(part, file_table, fd_table, dirs, cwd)
      /\ file_table' = file_table /\ fd_table' = fd_table /\ cwd' = cwd
  BY InvParts DEF Quiet
<1>2. dirs[h].pos \in Nat
  BY <1>1 DEF HandlesFit
<1>3. part' = part /\ \E n \in Nat : dirs' = [dirs EXCEPT ![h].pos = n]
  <2>1. CASE Readdir(h)
    <3> DEFINE n == dirs[h].pos + 1
    <3>1. n \in Nat
      BY <1>2
    <3>2. dirs' = [dirs EXCEPT ![h].pos = n] /\ part' = part
      BY <2>1 DEF Readdir
    <3> HIDE DEF n
    <3> QED
      BY <3>1, <3>2
  <2>2. CASE Rewinddir(h)
    BY <2>2 DEF Rewinddir
  <2> QED
    BY <2>1, <2>2
<1>4. HandlesFit(part', file_table', fd_table', dirs', cwd')
  BY <1>1, <1>3, HandleMoved
<1>5. SameDisk(part, part') /\ IsPart(part') /\ Cached(part')
  BY <1>3, InvParts DEF SameDisk
<1> QED
  BY <1>4, <1>5, MemoryStep DEF Quiet

LEMMA ChdirStep ==
    ASSUME FsInv, NEW t \in ChdirPaths, Chdir(t), Quiet
    PROVE  FsInv'
<1> DEFINE at == SearchFile(part, t)
<1>1. /\ at.type = "directory" /\ cwd' = at.no /\ part' = part /\ dirs' = dirs
      /\ file_table' = file_table /\ fd_table' = fd_table
  BY DEF Chdir, Quiet
<1>2. at.no \in part.inodes /\ IsDir(part, at.no)
  BY <1>1, PathsOfNames, InvParts, SearchFits DEF AtFits
<1>3. HandlesFit(part', file_table', fd_table', dirs', cwd')
  BY <1>1, <1>2, InvParts DEF HandlesFit
<1>4. SameDisk(part, part') /\ IsPart(part') /\ Cached(part')
  BY <1>1, InvParts DEF SameDisk
<1> QED
  BY <1>3, <1>4, MemoryStep DEF Quiet

-----------------------------------------------------------------------------
(* A file that grows.                                                      *)

\* q is p with more blocks for the file no, which were free.
Enlarged(p, q, no) ==
    /\ IsPart(q) /\ q.inodes = p.inodes /\ q.entries = p.entries
    /\ no \in p.inodes /\ ~IsDir(p, no)
    /\ \A m \in Inodes \ {no} : q.disk[m] = p.disk[m]
    /\ p.blocks \subseteq q.blocks
    /\ BlocksFit(q.disk[no].size, q.disk[no].sectors, q.blocks)
    /\ \A k \in Idx : Sec(p, no, k) # Nil => Sec(q, no, k) = Sec(p, no, k)
    /\ \A k \in Idx :
          Sec(p, no, k) = Nil => Sec(q, no, k) = Nil \/ Sec(q, no, k) \in DataBlocks \ p.blocks
    /\ \A b \in q.blocks \ p.blocks : \E k \in Idx : Sec(q, no, k) = b

\* The blocks of a file are marked, each comes once, and there is no table.
LEMMA FileSectors ==
    ASSUME DirectOnly, NEW z, NEW s, NEW T, BlocksFit(z, s, T)
    PROVE  /\ \A i \in Idx : s[i] \in T \cup {Nil}
           /\ s[Direct] = Nil
           /\ \A i, j \in Idx : s[i] # Nil /\ s[i] = s[j] => i = j
<1>1. /\ z \in 0..MaxSize /\ T \subseteq DataBlocks
      /\ \A i \in 0..Direct : IF i < UsedIn(z, s) THEN s[i] \in T \ {1} ELSE s[i] = Nil
      /\ \A i, j \in 0..Direct :
            i < UsedIn(z, s) /\ j < UsedIn(z, s) /\ s[i] = s[j] => i = j
  BY DEF BlocksFit
<1>2. UsedIn(z, s) \in 0..Direct
  BY <1>1, UsedFacts, Sizes DEF UsedIn
<1>3. Idx \subseteq 0..Direct /\ Direct \in 0..Direct /\ Nil \notin DataBlocks
  BY Sizes
<1>4. s[Direct] = Nil
  BY <1>1, <1>2, <1>3
<1>5. \A i \in Idx : s[i] \in T \cup {Nil}
  BY <1>1, <1>3
<1>6. \A i \in Idx : s[i] # Nil => i < UsedIn(z, s)
  BY <1>1, <1>3
<1> QED
  BY <1>1, <1>3, <1>4, <1>5, <1>6

LEMMA EnlargedCells ==
    ASSUME NEW p, NEW q, NEW no, Layout(p), SizesFit(p), Enlarged(p, q, no)
    PROVE  SameEntries(p, q)
<1> SUFFICES ASSUME NEW m \in p.inodes, NEW k \in Idx, NEW c \in Cells
             PROVE  E(q, m, k, c) = E(p, m, k, c)
  BY DEF SameEntries, Enlarged
<1>1. p.inodes \subseteq Inodes /\ q.entries = p.entries
  BY DEF Layout, IsPart, Enlarged
<1>2. CASE m # no
  BY <1>1, <1>2 DEF E, Sec, Enlarged
<1>3. CASE m = no /\ Sec(p, no, k) # Nil
  BY <1>1, <1>3 DEF E, Enlarged
<1>4. CASE m = no /\ Sec(p, no, k) = Nil
  <2>1. E(p, m, k, c) = NoEntry
    BY <1>4 DEF E
  <2>2. Sec(q, no, k) = Nil \/ Sec(q, no, k) \in DataBlocks \ p.blocks
    BY <1>4 DEF Enlarged
  <2>3. Sec(q, no, k) # Nil => p.entries[Sec(q, no, k)][c] = NoEntry
    BY <2>2 DEF Layout
  <2> QED
    BY <1>1, <1>4, <2>1, <2>3 DEF E
<1> QED
  BY <1>2, <1>3, <1>4

LEMMA EnlargedLayout ==
    ASSUME DirectOnly, NEW p, NEW q, NEW no, Layout(p), NamesFit(p), SizesFit(p),
           Enlarged(p, q, no)
    PROVE  Layout(q)
<1>1. /\ IsPart(p) /\ IsPart(q) /\ p.inodes \subseteq Inodes /\ q.inodes = p.inodes
      /\ Root \in p.inodes /\ Sec(p, Root, 0) = 1 /\ no \in p.inodes /\ no # Root
      /\ p.blocks \subseteq q.blocks /\ q.blocks \subseteq DataBlocks
      /\ q.entries = p.entries
  BY DEF Layout, IsPart, Enlarged, NamesFit
<1>2. \A m \in p.inodes \ {no} : \A k : Sec(q, m, k) = Sec(p, m, k)
  BY <1>1 DEF Enlarged, Sec
<1>3. /\ \A i \in Idx : Sec(q, no, i) \in q.blocks \cup {Nil}
      /\ Sec(q, no, Direct) = Nil
      /\ \A i, j \in Idx : Sec(q, no, i) # Nil /\ Sec(q, no, i) = Sec(q, no, j) => i = j
  BY FileSectors DEF Enlarged, Sec
<1>4. \A m \in p.inodes, k \in Idx : Sec(p, m, k) \in p.blocks \cup {Nil}
  BY Marked
<1>5. \A m \in p.inodes : Sec(q, m, Direct) = Nil
  BY <1>2, <1>3 DEF Layout
<1>6. \A m \in p.inodes, k \in Idx : Sec(q, m, k) \in q.blocks \cup {Nil}
  BY <1>1, <1>2, <1>3, <1>4
<1>7. ASSUME NEW b \in q.blocks
      PROVE  \E m \in p.inodes, k \in Idx : Sec(q, m, k) = b
  <2>1. CASE b \in p.blocks
    <3>1. PICK m \in p.inodes, k \in Idx : Sec(p, m, k) = b
      BY <1>1, <2>1 DEF Layout
    <3>2. b # Nil
      BY <1>1, Sizes
    <3>3. Sec(q, m, k) = b
      BY <1>2, <3>1, <3>2 DEF Enlarged
    <3> QED
      BY <3>3
  <2>2. CASE b \notin p.blocks
    BY <1>1, <2>2 DEF Enlarged
  <2> QED
    BY <2>1, <2>2
<1>8. \A b \in DataBlocks : b \in q.blocks <=> \E m \in p.inodes, k \in Idx : Sec(q, m, k) = b
  BY <1>6, <1>7, Sizes
<1>9. ASSUME NEW m \in p.inodes \ {no}, NEW j \in Idx, NEW k \in Idx,
             Sec(q, m, j) # Nil, Sec(q, m, j) = Sec(q, no, k)
      PROVE  FALSE
  <2>1. Sec(p, m, j) \in p.blocks /\ Sec(q, no, k) = Sec(p, m, j)
    BY <1>2, <1>4, <1>9
  <2>2. CASE Sec(p, no, k) = Nil
    BY <1>9, <2>1, <2>2 DEF Enlarged
  <2>3. CASE Sec(p, no, k) # Nil
    <3>1. Sec(p, no, k) = Sec(p, m, j)
      BY <2>1, <2>3 DEF Enlarged
    <3> QED
      BY <1>1, <2>3, <3>1 DEF Layout
  <2> QED
    BY <2>2, <2>3
<1>10. ASSUME NEW m \in p.inodes, NEW n \in p.inodes, NEW j \in Idx, NEW k \in Idx,
              Sec(q, m, j) # Nil, Sec(q, m, j) = Sec(q, n, k)
       PROVE  m = n /\ j = k
  <2>1. CASE m = no /\ n = no
    BY <1>3, <1>10, <2>1
  <2>2. CASE m # no /\ n # no
    <3>1. Sec(p, m, j) # Nil /\ Sec(p, m, j) = Sec(p, n, k)
      BY <1>2, <1>10, <2>2
    <3> QED
      BY <3>1 DEF Layout
  <2>3. CASE m # no /\ n = no
    BY <1>9, <1>10, <2>3
  <2>4. CASE m = no /\ n # no
    BY <1>9, <1>10, <2>4
  <2> QED
    BY <2>1, <2>2, <2>3, <2>4
<1>11. \A b \in DataBlocks \ q.blocks, c \in Cells : q.entries[b][c] = NoEntry
  BY <1>1 DEF Layout
<1>12. Sec(q, Root, 0) = 1
  BY <1>1, <1>2
<1> QED
  BY <1>1, <1>5, <1>8, <1>10, <1>11, <1>12 DEF Layout

LEMMA EnlargedSizes ==
    ASSUME DirectOnly, NEW p, NEW q, NEW no, Layout(p), SizesFit(p), Enlarged(p, q, no)
    PROVE  SizesFit(q)
<1>1. SameEntries(p, q) /\ q.inodes = p.inodes /\ no \in p.inodes /\ p.inodes \subseteq Inodes
  BY EnlargedCells DEF Enlarged, Layout, IsPart
<1>2. \A m \in p.inodes, k \in Idx, c \in Cells : E(q, m, k, c) = E(p, m, k, c)
  BY <1>1 DEF SameEntries
<1>3. \A m \in p.inodes : IsDir(q, m) <=> IsDir(p, m)
  BY <1>2, Sizes DEF IsDir
<1>4. ~IsDir(p, no)
  BY DEF Enlarged
<1>5. \A m \in p.inodes \ {no} : q.disk[m] = p.disk[m] /\ \A k : Sec(q, m, k) = Sec(p, m, k)
  BY <1>1 DEF Enlarged, Sec
<1>6. ASSUME NEW m \in p.inodes, IsDir(q, m)
      PROVE  /\ q.disk[m].size = Cardinality(FilledAt(q, m))
             /\ \A k \in Idx \ {0} :
                   Sec(q, m, k) # Nil => \E c \in Cells : E(q, m, k, c) # NoEntry
  <2>1. IsDir(p, m) /\ m # no
    BY <1>3, <1>4, <1>6
  <2>2. FilledAt(q, m) = FilledAt(p, m)
    BY <1>2, FilledSame
  <2>3. /\ p.disk[m].size = Cardinality(FilledAt(p, m))
        /\ \A k \in Idx \ {0} :
              Sec(p, m, k) # Nil => \E c \in Cells : E(p, m, k, c) # NoEntry
    BY <2>1 DEF SizesFit
  <2> QED
    BY <1>2, <1>5, <2>1, <2>2, <2>3
<1>7. ASSUME NEW m \in p.inodes, ~IsDir(q, m)
      PROVE  /\ BlocksFit(q.disk[m].size, q.disk[m].sectors, q.blocks)
             /\ \A k \in Idx, c \in Cells : E(q, m, k, c) = NoEntry
  <2>1. /\ BlocksFit(p.disk[m].size, p.disk[m].sectors, p.blocks)
        /\ \A k \in Idx, c \in Cells : E(p, m, k, c) = NoEntry
    BY <1>3, <1>7 DEF SizesFit
  <2>2. CASE m = no
    BY <1>2, <2>1, <2>2 DEF Enlarged
  <2>3. CASE m # no
    <3>1. /\ q.blocks \subseteq DataBlocks /\ p.blocks \subseteq q.blocks
          /\ \A k \in Idx : Sec(p, m, k) \in p.blocks \cup {Nil}
          /\ 1 \in p.blocks
      BY Marked DEF Enlarged, IsPart
    <3>2. \A i \in Idx : p.disk[m].sectors[i] # Nil => p.disk[m].sectors[i] \in q.blocks
      BY <3>1 DEF Sec
    <3>3. BlocksFit(p.disk[m].size, p.disk[m].sectors, q.blocks)
      BY <2>1, <3>1, <3>2, BlocksFitMoved
    <3> QED
      BY <1>2, <1>5, <2>1, <2>3, <3>3
  <2> QED
    BY <2>2, <2>3
<1> QED
  BY <1>1, <1>6, <1>7 DEF SizesFit

\* What a file gets makes no difference to the callers but for its size.
LEMMA EnlargedFits ==
    ASSUME DirectOnly, NEW p, NEW q, NEW no, PartFits(p), Enlarged(p, q, no), Cached(q)
    PROVE  /\ PartFits(q)
           /\ \A path \in Seq(Names) : SearchFile(q, path) = SearchFile(p, path)
           /\ \A m \in p.inodes : IsDir(q, m) <=> IsDir(p, m)
<1>1. Layout(q) /\ SizesFit(q) /\ SameEntries(p, q)
  BY EnlargedLayout, EnlargedSizes, EnlargedCells DEF PartFits
<1>2. NamesFit(q) /\ \A m \in p.inodes : IsDir(q, m) <=> IsDir(p, m)
  BY <1>1, SameNames DEF PartFits, Layout
<1>3. Readable(p) /\ Readable(q)
  BY <1>1, <1>2 DEF PartFits, Readable
<1>4. Reached(q) /\ \A path \in Seq(Names) : SearchFile(q, path) = SearchFile(p, path)
  BY <1>1, <1>3, SameReached, SamePaths DEF PartFits
<1>5. PartFits(q)
  BY <1>1, <1>2, <1>4 DEF PartFits
<1> QED
  BY <1>2, <1>4, <1>5

LEMMA WriteStep ==
    ASSUME FsBounds, FsInv, NEW fd \in Fds, NEW count \in Counts, FsWrite(fd, count),
           UNCHANGED <<dirs, cwd>>, names' = [path \in AllPaths |-> LeadsTo(part', path)]
    PROVE  FsInv' /\ UNCHANGED names
<1> DEFINE no == file_table[fd_table[fd]].no
           inode == part.open[no].inode
           z == inode.size
           s == inode.sectors
           T == part.blocks
           U == NewTaken(s, z, count, T)
           w == NewSectors(s, z, count, T)
           more == [size |-> z + count, sectors |-> w]
<1>1. CASE UsedBlocks(z + count) > MaxBlocks
  <2>1. FsPanics("size")
    BY <1>1 DEF FsWrite
  <2> QED
    BY <2>1, PanicStep
<1>2. CASE ~(UsedBlocks(z + count) > MaxBlocks) /\ NoBlocks(Needed(s, z, count))
  <2>1. FsPanics("blocks")
    BY <1>2 DEF FsWrite
  <2> QED
    BY <2>1, PanicStep
<1>3. CASE ~(UsedBlocks(z + count) > MaxBlocks) /\ ~NoBlocks(Needed(s, z, count))
  <2>1. /\ fd \in DOMAIN fd_table /\ z + count <= Min({MaxSize, MaxBlocks * BlockSize})
        /\ part' = FileWritten(part, no, count)
        /\ UNCHANGED <<file_table, fd_table, failed>>
    BY <1>3 DEF FsWrite
  <2>2. HandlesFit(part, file_table, fd_table, dirs, cwd) /\ dirs' = dirs /\ cwd' = cwd
    BY InvParts
  <2>3. fd_table[fd] \in DOMAIN file_table
    BY <2>1, <2>2 DEF HandlesFit
  <2>4. /\ no \in DOMAIN part.open /\ no \in part.inodes /\ no \in Inodes
        /\ ~IsDir(part, no) /\ inode = part.disk[no]
    BY <2>2, <2>3, InvParts DEF HandlesFit, Cached
  <2> HIDE DEF no
  <2>5. BlocksFit(z, s, T) /\ \A k \in Idx, c \in Cells : E(part, no, k, c) = NoEntry
    BY <2>4, InvParts DEF PartFits, SizesFit
  <2>6. z \in 0..MaxSize /\ count \in Nat \ {0} /\ z + count <= MaxSize
    <3>1. z \in 0..MaxSize
      BY <2>5 DEF BlocksFit
    <3>2. count \in Nat \ {0} /\ MaxSize \in Nat /\ MaxBlocks * BlockSize \in Nat
      <4>1. BlockSize \in Nat /\ Direct \in Nat /\ TableLen \in Nat
        BY FileBlocksAssumption
      <4> QED
        BY <4>1, FileBlocksAssumption DEF MaxBlocks
    <3> DEFINE x == MaxBlocks * BlockSize
    <3> HIDE DEF x
    <3>3. x \in Nat /\ z + count <= Min({MaxSize, x})
      BY <2>1, <3>2 DEF x
    <3>4. {MaxSize, x} \subseteq Nat /\ {MaxSize, x} # {}
      BY <3>2, <3>3
    <3>5. Min({MaxSize, x}) \in {MaxSize, x} /\ Min({MaxSize, x}) <= MaxSize
      BY <3>4, MinLemma
    <3> QED
      BY <3>1, <3>2, <3>3, <3>5
  <2>7. Needed(s, z, count) <= Cardinality(DataBlocks \ T) /\ Needed(s, z, count) \in Nat
    <3>1. UsedBlocks(z + count) \in 1..Direct /\ UsedIn(z, s) \in 0..UsedBlocks(z + count)
          /\ Needed(s, z, count) = UsedBlocks(z + count) - UsedIn(z, s)
      BY <2>5, <2>6, NewSectorsLemma DEF FsBounds
    <3>2. Cardinality(DataBlocks \ T) \in Nat
      BY BelowFacts DEF FreeBlocks
    <3>3. Needed(s, z, count) \in Nat
      BY <3>1
    <3> QED
      BY <1>3, <3>2, <3>3 DEF NoBlocks
  <2>8. /\ BlocksFit(z + count, w, U)
        /\ UsedIn(z + count, w) = UsedBlocks(z + count)
        /\ \A i \in 0..Direct : i < UsedIn(z, s) => w[i] = s[i]
    BY <2>5, <2>6, <2>7, NewBlocksFit DEF FsBounds
  <2>9. /\ Needed(s, z, count) = UsedBlocks(z + count) - UsedIn(z, s)
        /\ UsedBlocks(z + count) \in 1..Direct
        /\ UsedIn(z, s) \in 0..UsedBlocks(z + count)
        /\ \A i \in 0..Direct :
              w[i] = IF i < UsedIn(z, s) THEN s[i]
                     ELSE IF i < UsedBlocks(z + count) THEN NthFree(T, i - UsedIn(z, s) + 1)
                     ELSE Nil
    BY <2>5, <2>6, NewSectorsLemma DEF FsBounds
  <2>10. U = T \cup {NthFree(T, k) : k \in 1..Needed(s, z, count)}
    BY DEF NewTaken
  <2>11. w[Direct] = Nil
    BY <2>8, FileSectors DEF FsBounds
  <2>12. part' = Synced(part, no, more, U, part.entries)
    <3>1. part = [inodes |-> part.inodes, blocks |-> part.blocks, disk |-> part.disk,
                  open |-> part.open, entries |-> part.entries, tables |-> part.tables]
      BY InvParts DEF IsPart
    <3>2. part' = InodeSync([part EXCEPT !.blocks = U, !.open[no].inode = more], no, more)
      BY <2>1, <2>11 DEF FileWritten
    <3> HIDE DEF U, more
    <3>3. [part EXCEPT !.blocks = U, !.open[no].inode = more]
              = [part EXCEPT !.blocks = U, !.entries = part.entries, !.open[no].inode = more]
      BY <3>1
    <3> QED
      BY <3>2, <3>3 DEF Synced
  <2>13. more \in InodeType /\ more.size = z + count /\ more.sectors = w
    <3>1. w \in Sectors
      <4> HIDE DEF w, U
      <4> QED
        BY <2>8 DEF BlocksFit
    <3>2. z + count \in Nat
      BY <2>6
    <3> HIDE DEF w, z
    <3> QED
      BY <3>1, <3>2 DEF InodeType
  <2>14. BlocksTyped(U, part.entries)
    BY <2>8, InvParts DEF BlocksTyped, BlocksFit, IsPart
  <2> HIDE DEF more, inode, s, z, w, U, T
  <2>15. /\ IsPart(part') /\ part'.inodes = part.inodes
         /\ part'.blocks = U /\ part'.entries = part.entries
         /\ part'.disk[no] = more /\ \A m \in Inodes \ {no} : part'.disk[m] = part.disk[m]
         /\ Followed(part, part', no)
    BY <2>4, <2>12, <2>13, <2>14, InvParts, SyncedIs DEF FsBounds
  <2>16. /\ T = part.blocks
         /\ \A k : Sec(part, no, k) = s[k] /\ Sec(part', no, k) = w[k]
    BY <2>4, <2>13, <2>15 DEF T, s, Sec
  <2>17. \A k \in Idx : s[k] # Nil => w[k] = s[k]
    <3>1. \A i \in 0..Direct : ~(i < UsedIn(z, s)) => s[i] = Nil
      BY <2>5 DEF BlocksFit
    <3> QED
      BY <2>8, <3>1, Sizes
  <2>18. \A j \in 1..Needed(s, z, count) : NthFree(T, j) \in DataBlocks \ T
    <3> SUFFICES ASSUME NEW j \in 1..Needed(s, z, count)
                 PROVE  NthFree(T, j) \in DataBlocks \ T
      OBVIOUS
    <3>1. Cardinality(DataBlocks \ T) \in Nat
      BY BelowFacts DEF FreeBlocks
    <3>2. j \in Nat \ {0} /\ j <= Cardinality(FreeBlocks(T))
      BY <2>7, <3>1 DEF FreeBlocks
    <3> QED
      BY <3>2, NthFreeLemma DEF FreeBlocks
  <2>19. ASSUME NEW k \in Idx, s[k] = Nil
         PROVE  w[k] = Nil \/ w[k] \in DataBlocks \ T
    <3>1. k \in 0..Direct
      BY Sizes
    <3>2. CASE k < UsedIn(z, s)
      BY <2>9, <2>19, <3>1, <3>2
    <3>3. CASE ~(k < UsedIn(z, s)) /\ k < UsedBlocks(z + count)
      <4>1. k - UsedIn(z, s) + 1 \in 1..Needed(s, z, count)
        BY <2>9, <3>1, <3>3
      <4> QED
        BY <2>9, <2>18, <3>1, <3>3, <4>1
    <3>4. CASE ~(k < UsedIn(z, s)) /\ ~(k < UsedBlocks(z + count))
      BY <2>9, <3>1, <3>4
    <3> QED
      BY <3>2, <3>3, <3>4
  <2>20. ASSUME NEW b \in U \ T
         PROVE  \E k \in Idx : w[k] = b
    <3>1. PICK j \in 1..Needed(s, z, count) : b = NthFree(T, j)
      BY <2>10, <2>20
    <3> DEFINE k == j - 1 + UsedIn(z, s)
    <3>2. k \in Idx /\ k \in 0..Direct /\ ~(k < UsedIn(z, s)) /\ k < UsedBlocks(z + count)
          /\ k - UsedIn(z, s) + 1 = j
      BY <2>9, Sizes DEF Idx
    <3> HIDE DEF k
    <3>3. w[k] = b
      BY <2>9, <3>1, <3>2
    <3> QED
      BY <3>2, <3>3
  <2>21. Enlarged(part, part', no)
    <3>1. BlocksFit(part'.disk[no].size, part'.disk[no].sectors, part'.blocks)
      BY <2>8, <2>13, <2>15
    <3>2. part.blocks \subseteq part'.blocks
      BY <2>10, <2>15, <2>16
    <3>3. \A k \in Idx : Sec(part, no, k) # Nil => Sec(part', no, k) = Sec(part, no, k)
      BY <2>16, <2>17
    <3>4. \A k \in Idx : Sec(part, no, k) = Nil =>
              Sec(part', no, k) = Nil \/ Sec(part', no, k) \in DataBlocks \ part.blocks
      BY <2>16, <2>19
    <3>5. \A b \in part'.blocks \ part.blocks : \E k \in Idx : Sec(part', no, k) = b
      BY <2>15, <2>16, <2>20
    <3> QED
      BY <2>4, <2>15, <3>1, <3>2, <3>3, <3>4, <3>5 DEF Enlarged
  <2>22. Cached(part')
    <3>1. \A m \in DOMAIN part.open : m \in part.inodes /\ part.open[m].inode = part.disk[m]
      BY InvParts DEF Cached
    <3> QED
      BY <2>15, <3>1, InvParts DEF Cached, Followed
  <2>23. /\ PartFits(part')
         /\ \A path \in Seq(Names) : SearchFile(part', path) = SearchFile(part, path)
         /\ \A m \in part.inodes : IsDir(part', m) <=> IsDir(part, m)
    BY <2>21, <2>22, InvParts, EnlargedFits DEF FsBounds
  <2>24. HandlesFit(part', file_table', fd_table', dirs', cwd')
    <3>1. Root \in DOMAIN part'.open /\ \A m \in Inodes : Count(part', m) = Count(part, m)
      BY <2>15, InvParts DEF Followed, Count
    <3>2. SameDirs(part, part', file_table, dirs, cwd)
      BY <2>15, <2>23, <3>1, InvParts DEF SameDirs
    <3> QED
      BY <2>1, <2>2, <3>1, <3>2, HandlesMoved
  <2>25. [path \in AllPaths |-> LeadsTo(part', path)] = [path \in AllPaths |-> LeadsTo(part, path)]
    BY <2>23, PathsOfNames DEF LeadsTo
  <2>26. names' = names
    BY <2>25 DEF FsInv
  <2>27. failed' \in {"none", "inodes", "blocks", "size"}
    BY <2>1 DEF FsInv, FsTypeOK, AssertsHold
  <2> QED
    BY <2>23, <2>24, <2>26, <2>27, InvNext
<1> QED
  BY <1>1, <1>2, <1>3

-----------------------------------------------------------------------------
(* Removals.                                                               *)

\* The entry e is in cell c0 of the k0th block of the directory d.
HasName(p, d, e, k0, c0) ==
    /\ d \in p.inodes /\ IsDir(p, d)
    /\ k0 \in Idx /\ c0 \in Cells /\ E(p, d, k0, c0) = e /\ e.name \in Names

\* delete_dir_entry finds the entry in a direct block, so that it does not loop.
LEMMA PlaceOfIs ==
    ASSUME NEW p, Layout(p), NamesFit(p), NEW d, NEW e, NEW k0, NEW c0,
           HasName(p, d, e, k0, c0), Inode(p, d) = p.disk[d]
    PROVE  /\ PlaceOf(p, d, e.no) = <<k0, c0>>
           /\ BlockAt(p, d, k0) = Sec(p, d, k0)
           /\ Alone(p, d, <<k0, c0>>) <=> \A c \in Cells \ {c0} : E(p, d, k0, c) = NoEntry
           /\ ~DeleteLoops(p, d, e.no)
<1>1. /\ IsPart(p) /\ d \in p.inodes /\ d \in Inodes /\ Sec(p, d, Direct) = Nil
      /\ k0 \in Idx /\ c0 \in Cells /\ E(p, d, k0, c0) = e /\ e.name \in Names
  BY DEF HasName, Layout, IsPart
<1>2. /\ Filled(p, d) = FilledAt(p, d)
      /\ \A k \in Idx : BlockAt(p, d, k) = Sec(p, d, k)
      /\ \A at \in FilledAt(p, d) : EntryAt(p, d, at) = E(p, d, at[1], at[2])
  BY <1>1, FilledIs
<1>3. \A at \in FilledAt(p, d) :
          at[1] \in Idx /\ at[2] \in Cells /\ at = <<at[1], at[2]>>
            /\ E(p, d, at[1], at[2]) # NoEntry
  BY DEF FilledAt
<1>4. <<k0, c0>> \in FilledAt(p, d)
  BY <1>1, NoEntryName DEF FilledAt
<1>5. ASSUME NEW at \in FilledAt(p, d), EntryAt(p, d, at).no = e.no,
             EntryAt(p, d, at).name \notin {".", ".."}
      PROVE  at = <<k0, c0>>
  <2>1. /\ at[1] \in Idx /\ at[2] \in Cells /\ at = <<at[1], at[2]>>
        /\ E(p, d, at[1], at[2]) # NoEntry /\ E(p, d, at[1], at[2]).no = e.no
        /\ E(p, d, at[1], at[2]).name \notin {".", ".."}
    BY <1>2, <1>3, <1>5
  <2> DEFINE k == at[1]
             c == at[2]
  <2>2. E(p, d, k, c) \in EntryType
    BY <1>1, <2>1, EntryTyped
  <2>3. IsNamed(p, d, k, c) /\ IsNamed(p, d, k0, c0)
    BY <1>1, <2>1, <2>2, EntryKinds DEF IsNamed
  <2>4. k \in Idx /\ c \in Cells /\ at = <<k, c>> /\ E(p, d, k, c).no = E(p, d, k0, c0).no
    BY <1>1, <2>1
  <2> HIDE DEF k, c
  <2>5. k = k0 /\ c = c0
    BY <1>1, <2>3, <2>4, NameOnce
  <2> QED
    BY <2>4, <2>5
<1>6. EntryAt(p, d, <<k0, c0>>) = e /\ e.name \notin {".", ".."}
  BY <1>1, <1>2, <1>4, NoDots
<1>7. PlaceOf(p, d, e.no) = <<k0, c0>>
  BY <1>2, <1>4, <1>5, <1>6 DEF PlaceOf
<1>8. Alone(p, d, <<k0, c0>>) <=> \A c \in Cells \ {c0} : E(p, d, k0, c) = NoEntry
  <2>1. \A c \in Cells : <<k0, c>> \in FilledAt(p, d) <=> E(p, d, k0, c) # NoEntry
    BY <1>1 DEF FilledAt
  <2>2. Alone(p, d, <<k0, c0>>) <=> {c \in Cells : <<k0, c>> \in FilledAt(p, d)} = {c0}
    BY <1>2 DEF Alone
  <2> QED
    BY <1>1, <1>4, <2>1, <2>2
<1>9. ~DeleteLoops(p, d, e.no)
  <2>1. ~(k0 >= Direct)
    BY <1>1, Sizes DEF Idx
  <2> QED
    BY <1>7, <2>1 DEF DeleteLoops
<1> QED
  BY <1>1, <1>2, <1>7, <1>8, <1>9

\* q is p without the entry e, and without its block b if that had no other one.
Unplaced(p, q, d, e, k0, c0, b) ==
    /\ IsPart(q) /\ q.inodes = p.inodes
    /\ Placed(q, p, d, e, k0, c0, b)
    /\ IF b \in q.blocks
       THEN Sec(q, d, k0) = b /\ \E c \in Cells : q.entries[b][c] # NoEntry
       ELSE Sec(q, d, k0) = Nil /\ \A c \in Cells : q.entries[b][c] = NoEntry
    /\ k0 = 0 => b \in q.blocks

\* delete_dir_entry
LEMMA DeleteDirEntryIs ==
    ASSUME SmallNumbers, NEW p, Layout(p), NamesFit(p), SizesFit(p), NEW d, NEW e,
           NEW k0, NEW c0, HasName(p, d, e, k0, c0),
           d \in DOMAIN p.open, p.open[d].inode = p.disk[d],
           NEW q, q = DeleteDirEntry(p, d, e.no)
    PROVE  /\ Followed(p, q, d)
           /\ Unplaced(p, q, d, e, k0, c0, Sec(p, d, k0))
<1> DEFINE inode == p.disk[d]
           b == Sec(p, d, k0)
           frees == \A c \in Cells \ {c0} : E(p, d, k0, c) = NoEntry
           less == [size |-> inode.size - 1,
                    sectors |-> IF frees THEN [inode.sectors EXCEPT ![k0] = Nil]
                                ELSE inode.sectors]
           B == IF frees THEN p.blocks \ {b} ELSE p.blocks
           x == [p.entries EXCEPT ![b][c0] = NoEntry]
<1>1. /\ IsPart(p) /\ d \in p.inodes /\ IsDir(p, d) /\ d \in Inodes
      /\ k0 \in Idx /\ c0 \in Cells /\ E(p, d, k0, c0) = e /\ e.name \in Names
      /\ p.inodes \subseteq Inodes
  BY DEF HasName, Layout, IsPart
<1>2. Inode(p, d) = p.disk[d]
  BY DEF Inode
<1>3. /\ PlaceOf(p, d, e.no) = <<k0, c0>>
      /\ BlockAt(p, d, k0) = b
      /\ Alone(p, d, <<k0, c0>>) <=> frees
  BY <1>2, PlaceOfIs
<1>4. ~(k0 >= Direct) /\ k0 < Direct /\ k0 \in 0..Direct
  BY <1>1, Sizes DEF Idx
<1>5. /\ p = [inodes |-> p.inodes, blocks |-> p.blocks, disk |-> p.disk, open |-> p.open,
              entries |-> p.entries, tables |-> p.tables]
      /\ p.entries \in [DataBlocks -> [Cells -> EntryType]] /\ p.blocks \subseteq DataBlocks
      /\ inode \in InodeType
  BY <1>1 DEF IsPart
<1>6. q = Synced(p, d, less, B, x)
  <2> DEFINE wiped == [p EXCEPT !.entries[b][c0] = NoEntry,
                                !.blocks = IF frees THEN @ \ {b} ELSE @,
                                !.open[d].inode = less]
  <2>1. q = InodeSync(wiped, d, less)
    <3>1. <<k0, c0>>[1] = k0 /\ <<k0, c0>>[2] = c0
      OBVIOUS
    <3> HIDE DEF frees, b
    <3> QED
      BY <1>3, <1>4, <3>1 DEF DeleteDirEntry
  <2>2. wiped = [p EXCEPT !.blocks = B, !.entries = x, !.open[d].inode = less]
    <3> HIDE DEF frees, b, less
    <3> QED
      BY <1>5
  <2> HIDE DEF wiped, less, B, x
  <2> QED
    BY <2>1, <2>2 DEF Synced
<1>7. /\ b \in p.blocks /\ b \in DataBlocks /\ b # Nil
      /\ p.entries[b][c0] = e
  <2>1. b # Nil
    BY <1>1, NoEntryName DEF E
  <2>2. b \in p.blocks \cup {Nil}
    BY <1>1, Marked
  <2> QED
    BY <1>1, <1>5, <2>1, <2>2 DEF E
<1>8. inode.size \in Nat \ {0} /\ inode.sectors \in [0..Direct -> DataBlocks \cup {Nil}]
  <2>1. inode.size = Cardinality(FilledAt(p, d))
    BY <1>1 DEF SizesFit
  <2>2. IsFiniteSet(FilledAt(p, d)) /\ Cardinality(FilledAt(p, d)) \in Nat
    BY FilledFinite
  <2>3. <<k0, c0>> \in FilledAt(p, d)
    BY <1>1, NoEntryName DEF FilledAt
  <2>4. Cardinality(FilledAt(p, d)) # 0
    BY <2>2, <2>3, FS_EmptySet
  <2> QED
    BY <1>5, <2>1, <2>2, <2>4 DEF InodeType, Sectors
<1>9. /\ less \in InodeType /\ less.size = inode.size - 1
      /\ \A k \in 0..Direct : less.sectors[k] = IF frees /\ k = k0 THEN Nil ELSE inode.sectors[k]
  <2> HIDE DEF inode
  <2>1. inode.size - 1 \in Nat
    BY <1>8
  <2>2. CASE frees
    <3> DEFINE s == [inode.sectors EXCEPT ![k0] = Nil]
    <3>1. s \in [0..Direct -> DataBlocks \cup {Nil}]
          /\ \A k \in 0..Direct : s[k] = IF k = k0 THEN Nil ELSE inode.sectors[k]
      BY <1>4, <1>8
    <3>2. less = [size |-> inode.size - 1, sectors |-> s]
      BY <2>2
    <3> HIDE DEF s, frees
    <3> QED
      BY <2>1, <2>2, <3>1, <3>2 DEF InodeType, Sectors
  <2>3. CASE ~frees
    <3>1. less = [size |-> inode.size - 1, sectors |-> inode.sectors]
      BY <2>3
    <3> HIDE DEF frees
    <3> QED
      BY <1>8, <2>1, <2>3, <3>1 DEF InodeType, Sectors
  <2> QED
    BY <2>2, <2>3
<1>10. /\ x \in [DataBlocks -> [Cells -> EntryType]]
       /\ \A y \in DataBlocks, c \in Cells :
             x[y][c] = IF y = b /\ c = c0 THEN NoEntry ELSE p.entries[y][c]
  <2>1. NoEntry \in EntryType
    BY DEF EntryType
  <2> HIDE DEF b
  <2> QED
    BY <1>1, <1>5, <1>7, <2>1
<1>11. BlocksTyped(B, x)
  BY <1>5, <1>10 DEF BlocksTyped
<1>12. B \subseteq p.blocks /\ p.blocks = B \cup {b} /\ (frees <=> b \notin B)
  BY <1>7
<1> HIDE DEF less, B, x
<1>13. /\ IsPart(q) /\ q.inodes = p.inodes /\ q.tables = p.tables
       /\ q.blocks = B /\ q.entries = x
       /\ q.disk[d] = less /\ \A m \in Inodes \ {d} : q.disk[m] = p.disk[m]
       /\ Followed(p, q, d)
  BY <1>1, <1>6, <1>9, <1>11, SyncedIs
<1> HIDE DEF b
<1>14. \A k \in 0..Direct : Sec(q, d, k) = IF frees /\ k = k0 THEN Nil ELSE Sec(p, d, k)
  BY <1>9, <1>13 DEF Sec
<1>15. Sec(p, d, k0) = b
  BY DEF b
<1>16. Placed(q, p, d, e, k0, c0, b)
  <2>1. k0 \in Idx /\ c0 \in Cells /\ b \in DataBlocks
    BY <1>1, <1>7
  <2>2. Sec(q, d, k0) = b \/ (Sec(q, d, k0) = Nil /\ b \notin q.blocks)
    <3> HIDE DEF frees
    <3> QED
      BY <1>4, <1>12, <1>13, <1>14, <1>15
  <2>3. p.blocks = q.blocks \cup {b}
    BY <1>12, <1>13
  <2>4. p.disk[d].size = q.disk[d].size + 1
    BY <1>8, <1>9, <1>13
  <2>5. \A k \in 0..Direct : Sec(p, d, k) = IF k = k0 THEN b ELSE Sec(q, d, k)
    <3> HIDE DEF frees
    <3> QED
      BY <1>14, <1>15
  <2>6. q.entries[b][c0] = NoEntry
    BY <1>7, <1>10, <1>13, <2>1
  <2>7. \A y \in DataBlocks, c \in Cells :
            p.entries[y][c] = IF y = b /\ c = c0 THEN e ELSE q.entries[y][c]
    BY <1>7, <1>10, <1>13
  <2> QED
    BY <1>13, <2>1, <2>2, <2>3, <2>4, <2>5, <2>6, <2>7 DEF Placed
<1>17. \A c \in Cells : E(p, d, k0, c) = p.entries[b][c]
  BY <1>7, <1>15 DEF E
<1>18. \A c \in Cells : q.entries[b][c] = IF c = c0 THEN NoEntry ELSE E(p, d, k0, c)
  BY <1>7, <1>10, <1>13, <1>17
<1>19. b \in q.blocks => Sec(q, d, k0) = b /\ \E c \in Cells : q.entries[b][c] # NoEntry
  <2> SUFFICES ASSUME b \in q.blocks
               PROVE  Sec(q, d, k0) = b /\ \E c \in Cells : q.entries[b][c] # NoEntry
    OBVIOUS
  <2>1. ~frees
    BY <1>12, <1>13
  <2>2. Sec(q, d, k0) = b
    BY <1>4, <1>14, <1>15, <2>1
  <2>3. PICK c \in Cells \ {c0} : E(p, d, k0, c) # NoEntry
    BY <2>1
  <2> QED
    BY <1>18, <2>2, <2>3
<1>20. b \notin q.blocks => Sec(q, d, k0) = Nil /\ \A c \in Cells : q.entries[b][c] = NoEntry
  <2> SUFFICES ASSUME b \notin q.blocks
               PROVE  Sec(q, d, k0) = Nil /\ \A c \in Cells : q.entries[b][c] = NoEntry
    OBVIOUS
  <2>1. frees
    BY <1>12, <1>13
  <2> QED
    BY <1>4, <1>14, <1>18, <2>1
<1>21. k0 = 0 => b \in q.blocks
  <2> SUFFICES ASSUME k0 = 0
               PROVE  b \in q.blocks
    OBVIOUS
  <2>1. E(p, d, 0, 0).name = "." /\ 0 \in Cells
    BY <1>1, Sizes DEF IsDir
  <2>2. c0 # 0
    BY <1>1, <2>1, NoDots
  <2>3. E(p, d, 0, 0) # NoEntry
    BY <2>1, NoEntryName
  <2>4. ~frees
    BY <2>1, <2>2, <2>3
  <2> QED
    BY <1>12, <1>13, <2>4
<1>22. Unplaced(p, q, d, e, k0, c0, b)
  BY <1>13, <1>16, <1>19, <1>20, <1>21 DEF Unplaced
<1> QED
  BY <1>13, <1>22 DEF b

LEMMA UnplacedLayout ==
    ASSUME NEW p, NEW q, NEW d, NEW e, NEW k0, NEW c0, NEW b, Layout(p),
           HasName(p, d, e, k0, c0), Unplaced(p, q, d, e, k0, c0, b)
    PROVE  /\ Layout(q)
           /\ \A m \in p.inodes, k \in Idx, c \in Cells :
                 E(p, m, k, c) = IF m = d /\ k = k0 /\ c = c0 THEN e ELSE E(q, m, k, c)
           /\ E(q, d, k0, c0) = NoEntry
<1>1. /\ IsPart(p) /\ Root \in p.inodes /\ Sec(p, Root, 0) = 1
      /\ \A no \in p.inodes : Sec(p, no, Direct) = Nil
      /\ \A x \in DataBlocks :
            x \in p.blocks <=> \E no \in p.inodes, k \in Idx : Sec(p, no, k) = x
      /\ \A no, m \in p.inodes, j, k \in Idx :
            Sec(p, no, j) # Nil /\ Sec(p, no, j) = Sec(p, m, k) => no = m /\ j = k
      /\ \A x \in DataBlocks \ p.blocks, c \in Cells : p.entries[x][c] = NoEntry
  BY DEF Layout
<1>2. /\ p.inodes \subseteq Inodes /\ d \in Inodes /\ d \in p.inodes
      /\ q.inodes = p.inodes /\ IsPart(q) /\ Placed(q, p, d, e, k0, c0, b)
  BY <1>1 DEF IsPart, HasName, Unplaced
<1>3. /\ k0 \in Idx /\ c0 \in Cells /\ b \in DataBlocks /\ b # Nil
      /\ p.blocks = q.blocks \cup {b}
      /\ \A x \in DataBlocks, c \in Cells :
            p.entries[x][c] = IF x = b /\ c = c0 THEN e ELSE q.entries[x][c]
      /\ \A k \in 0..Direct : Sec(p, d, k) = IF k = k0 THEN b ELSE Sec(q, d, k)
  BY <1>2, Sizes DEF Placed
<1>4. \A m \in p.inodes, k \in 0..Direct :
          Sec(p, m, k) = IF m = d /\ k = k0 THEN b ELSE Sec(q, m, k)
  BY <1>2 DEF Placed, Sec
<1>5. \A m \in p.inodes, k \in Idx : Sec(p, m, k) = b => m = d /\ k = k0
  BY <1>1, <1>2, <1>3, <1>4, Sizes
<1>6. /\ b \in q.blocks => Sec(q, d, k0) = b
      /\ b \notin q.blocks => Sec(q, d, k0) = Nil /\ \A c \in Cells : q.entries[b][c] = NoEntry
      /\ k0 = 0 => b \in q.blocks
  BY DEF Unplaced
<1>7. /\ \A m \in q.inodes, k \in Idx, c \in Cells :
            E(p, m, k, c) = IF m = d /\ k = k0 /\ c = c0 THEN e ELSE E(q, m, k, c)
      /\ E(q, d, k0, c0) = NoEntry
  BY <1>2, <1>5, <1>6, PlacedCells
<1>8. Layout(q)
  <2>1. Root \in q.inodes /\ Sec(q, Root, 0) = 1
    <3>1. CASE Root = d /\ k0 = 0
      <4>1. b = 1 /\ b \in q.blocks
        BY <1>1, <1>3, <1>6, <3>1, Sizes
      <4> QED
        BY <1>1, <1>2, <1>6, <3>1, <4>1
    <3>2. CASE ~(Root = d /\ k0 = 0)
      <4>1. Sec(p, Root, 0) = Sec(q, Root, 0)
        BY <1>1, <1>4, <3>2, Sizes
      <4> QED
        BY <1>1, <1>2, <4>1
    <3> QED
      BY <3>1, <3>2
  <2>2. \A no \in q.inodes : Sec(q, no, Direct) = Nil
    <3>1. Direct # k0 /\ Direct \in 0..Direct
      BY <1>3, Sizes
    <3> QED
      BY <1>1, <1>2, <1>4, <3>1
  <2>3. ASSUME NEW x \in q.blocks
        PROVE  \E no \in q.inodes, k \in Idx : Sec(q, no, k) = x
    <3>1. CASE x = b
      BY <1>2, <1>3, <1>6, <3>1
    <3>2. CASE x # b
      <4>1. x \in p.blocks /\ x \in DataBlocks
        BY <1>2, <1>3 DEF IsPart
      <4>2. PICK no \in p.inodes, k \in Idx : Sec(p, no, k) = x
        BY <1>1, <4>1
      <4>3. Sec(q, no, k) = x
        BY <1>4, <3>2, <4>2, Sizes
      <4> QED
        BY <1>2, <4>2, <4>3
    <3> QED
      BY <3>1, <3>2
  <2>4. ASSUME NEW no \in q.inodes, NEW k \in Idx, Sec(q, no, k) # Nil
        PROVE  Sec(p, no, k) = Sec(q, no, k) /\ Sec(q, no, k) \in q.blocks
    <3>1. k \in 0..Direct /\ no \in Inodes
      BY <1>2, Sizes
    <3>2. Sec(p, no, k) = Sec(q, no, k)
      <4>1. CASE no = d /\ k = k0
        BY <1>2, <1>4, <1>6, <2>4, <3>1, <4>1
      <4>2. CASE ~(no = d /\ k = k0)
        BY <1>2, <1>4, <3>1, <4>2
      <4> QED
        BY <4>1, <4>2
    <3>3. Sec(q, no, k) \in DataBlocks
      BY <1>2, <2>4, <3>1, EntryTyped, Sizes
    <3>4. Sec(q, no, k) \in p.blocks
      BY <1>1, <1>2, <3>2, <3>3
    <3>5. CASE Sec(q, no, k) = b
      <4>1. no = d /\ k = k0
        BY <1>2, <1>5, <3>2, <3>5
      <4> QED
        BY <1>6, <2>4, <3>2, <4>1, <3>5
    <3>6. CASE Sec(q, no, k) # b
      BY <1>3, <3>2, <3>4, <3>6
    <3> QED
      BY <3>2, <3>5, <3>6
  <2>5. \A x \in DataBlocks : x \in q.blocks <=> \E no \in q.inodes, k \in Idx : Sec(q, no, k) = x
    BY <2>3, <2>4, Sizes
  <2>6. \A no, m \in q.inodes, j, k \in Idx :
            Sec(q, no, j) # Nil /\ Sec(q, no, j) = Sec(q, m, k) => no = m /\ j = k
    <3> SUFFICES ASSUME NEW no \in q.inodes, NEW m \in q.inodes, NEW j \in Idx, NEW k \in Idx,
                        Sec(q, no, j) # Nil, Sec(q, no, j) = Sec(q, m, k)
                 PROVE  no = m /\ j = k
      OBVIOUS
    <3>1. Sec(p, no, j) = Sec(q, no, j) /\ Sec(p, m, k) = Sec(q, m, k)
      BY <2>4
    <3>2. Sec(p, no, j) # Nil /\ Sec(p, no, j) = Sec(p, m, k)
      BY <3>1
    <3> QED
      BY <1>1, <1>2, <3>2
  <2>7. ASSUME NEW x \in DataBlocks \ q.blocks, NEW c \in Cells
        PROVE  q.entries[x][c] = NoEntry
    <3>1. CASE x = b
      BY <1>6, <3>1
    <3>2. CASE x # b
      BY <1>1, <1>3, <3>2
    <3> QED
      BY <3>1, <3>2
  <2> QED
    BY <1>2, <2>1, <2>2, <2>5, <2>6, <2>7 DEF Layout
<1> QED
  BY <1>2, <1>7, <1>8

LEMMA UnplacedSizes ==
    ASSUME DirectOnly, NEW p, NEW q, NEW d, NEW e, NEW k0, NEW c0, NEW b, Layout(p),
           HasName(p, d, e, k0, c0), Unplaced(p, q, d, e, k0, c0, b), SizesFit(p)
    PROVE  SizesFit(q)
<1>1. /\ Layout(q)
      /\ \A m \in p.inodes, k \in Idx, c \in Cells :
            E(p, m, k, c) = IF m = d /\ k = k0 /\ c = c0 THEN e ELSE E(q, m, k, c)
      /\ E(q, d, k0, c0) = NoEntry
  BY UnplacedLayout
<1>2. /\ p.inodes \subseteq Inodes /\ d \in Inodes /\ d \in p.inodes /\ IsDir(p, d)
      /\ q.inodes = p.inodes /\ Placed(q, p, d, e, k0, c0, b) /\ e.name \in Names
      /\ k0 \in Idx /\ c0 \in Cells
  BY DEF IsPart, HasName, Unplaced, Layout
<1>3. \A m \in p.inodes : IsDir(q, m) <=> IsDir(p, m)
  BY <1>1, <1>2, Sizes, NoDots, NoEntryName DEF IsDir
<1>4. \A m \in p.inodes \ {d} : q.disk[m] = p.disk[m] /\ \A k : Sec(q, m, k) = Sec(p, m, k)
  BY <1>2 DEF Placed, Sec
<1>5. ASSUME NEW m \in p.inodes, IsDir(q, m)
      PROVE  /\ q.disk[m].size = Cardinality(FilledAt(q, m))
             /\ \A k \in Idx \ {0} :
                   Sec(q, m, k) # Nil => \E c \in Cells : E(q, m, k, c) # NoEntry
  <2>1. /\ p.disk[m].size = Cardinality(FilledAt(p, m))
        /\ \A k \in Idx \ {0} :
              Sec(p, m, k) # Nil => \E c \in Cells : E(p, m, k, c) # NoEntry
    BY <1>3, <1>5 DEF SizesFit
  <2>2. CASE m = d
    <3>1. Cardinality(FilledAt(p, d)) = Cardinality(FilledAt(q, d)) + 1
      <4>1. \A k \in Idx, c \in Cells :
                E(p, d, k, c) = IF k = k0 /\ c = c0 THEN e ELSE E(q, d, k, c)
        BY <1>1, <1>2
      <4>2. e # NoEntry
        BY <1>2, NoEntryName
      <4> QED
        BY <1>1, <1>2, <4>1, <4>2, FilledMore
    <3>2. p.disk[d].size = q.disk[d].size + 1 /\ q.disk[d].size \in Nat
      BY <1>1, <1>2 DEF Placed, Layout, IsPart, InodeType
    <3>3. Cardinality(FilledAt(q, d)) \in Nat
      BY FilledFinite
    <3>4. ASSUME NEW k \in Idx \ {0}, Sec(q, d, k) # Nil
          PROVE  \E c \in Cells : E(q, d, k, c) # NoEntry
      <4>1. CASE k = k0
        <5>1. b \in q.blocks /\ Sec(q, d, k0) = b /\ \E c \in Cells : q.entries[b][c] # NoEntry
          BY <3>4, <4>1 DEF Unplaced
        <5> QED
          BY <3>4, <4>1, <5>1 DEF E
      <4>2. CASE k # k0
        <5>1. Sec(p, d, k) = Sec(q, d, k)
          BY <1>2, <4>2, Sizes DEF Placed
        <5> QED
          BY <1>1, <1>2, <2>1, <2>2, <3>4, <4>2, <5>1
      <4> QED
        BY <4>1, <4>2
    <3> QED
      BY <2>1, <2>2, <3>1, <3>2, <3>3, <3>4
  <2>3. CASE m # d
    <3>1. \A k \in Idx, c \in Cells : E(q, m, k, c) = E(p, m, k, c)
      BY <1>1, <2>3
    <3>2. FilledAt(q, m) = FilledAt(p, m)
      BY <3>1, FilledSame
    <3> QED
      BY <1>4, <2>1, <2>3, <3>1, <3>2
  <2> QED
    BY <2>2, <2>3
<1>6. ASSUME NEW m \in p.inodes, ~IsDir(q, m)
      PROVE  /\ BlocksFit(q.disk[m].size, q.disk[m].sectors, q.blocks)
             /\ \A k \in Idx, c \in Cells : E(q, m, k, c) = NoEntry
  <2>1. m # d /\ ~IsDir(p, m)
    BY <1>2, <1>3, <1>6
  <2>2. /\ BlocksFit(p.disk[m].size, p.disk[m].sectors, p.blocks)
        /\ \A k \in Idx, c \in Cells : E(p, m, k, c) = NoEntry
    BY <2>1 DEF SizesFit
  <2>3. q.disk[m] = p.disk[m]
    BY <1>4, <2>1
  <2>4. /\ \A k \in Idx : Sec(q, m, k) \in q.blocks \cup {Nil}
        /\ 1 \in q.blocks /\ q.blocks \subseteq DataBlocks
    BY <1>1, <1>2, Marked
  <2>5. \A i \in Idx : p.disk[m].sectors[i] # Nil => p.disk[m].sectors[i] \in q.blocks
    BY <2>3, <2>4 DEF Sec
  <2>6. BlocksFit(p.disk[m].size, p.disk[m].sectors, q.blocks)
    BY <2>2, <2>4, <2>5, BlocksFitMoved
  <2> QED
    BY <1>1, <2>1, <2>2, <2>3, <2>6
<1> QED
  BY <1>2, <1>5, <1>6 DEF SizesFit

\* r is q without the inode no and its blocks.
Released(q, r, no) ==
    /\ IsPart(r) /\ no \in q.inodes \ {Root} /\ r.inodes = q.inodes \ {no}
    /\ \A m \in Inodes \ {no} : r.disk[m] = q.disk[m]
    /\ \A b \in DataBlocks :
          IF \E k \in Idx : Sec(q, no, k) = b
          THEN b \notin r.blocks /\ r.entries[b] = NoEntries
          ELSE /\ b \in r.blocks <=> b \in q.blocks
               /\ r.entries[b] = q.entries[b]

\* The blocks that inode_release gives back are those of i_sectors.
LEMMA FreedIs ==
    ASSUME NEW p, IsPart(p), NEW no \in Inodes, Inode(p, no) = p.disk[no],
           Sec(p, no, Direct) = Nil
    PROVE  BlocksOf(p, no) = {Sec(p, no, k) : k \in Idx} \ {Nil}
<1> DEFINE s == p.disk[no].sectors
<1>1. Table(p, p.disk[no]) = NoTable /\ s[Direct] = Nil
  BY DEF Table, Sec
<1>2. BlocksOf(p, no) = {s[i] : i \in 0..Direct} \ {Nil}
  <2>1. BlocksOf(p, no) = Blocks(s, NoTable)
    BY <1>1 DEF BlocksOf
  <2> HIDE DEF s
  <2> QED
    BY <1>1, <2>1 DEF Blocks
<1>3. 0..Direct = Idx \cup {Direct}
  BY Sizes DEF Idx
<1>4. {Sec(p, no, k) : k \in Idx} = {s[k] : k \in Idx}
  BY DEF Sec
<1> HIDE DEF s
<1> QED
  BY <1>1, <1>2, <1>3, <1>4

LEMMA ReleaseIs ==
    ASSUME NEW q, IsPart(q), NEW no \in Inodes, NEW r, r = InodeRelease(q, no),
           NEW freed, freed = BlocksReleased(InodeOpen(q, no), no)
    PROVE  /\ IsPart(r) /\ r.inodes = q.inodes \ {no} /\ r.blocks = q.blocks \ freed
           /\ \A m \in Inodes \ {no} : r.disk[m] = q.disk[m]
           /\ \A b \in DataBlocks :
                 r.entries[b] = IF b \in freed THEN NoEntries ELSE q.entries[b]
           /\ DOMAIN r.open = DOMAIN q.open
           /\ \A m \in Inodes : Count(r, m) = Count(q, m)
           /\ \A m \in DOMAIN q.open : r.open[m].inode = q.open[m].inode
<1> DEFINE q0 == InodeOpen(q, no)
           x == [b \in DataBlocks |-> IF b \in freed THEN NoEntries ELSE q0.entries[b]]
           k0 == [q0.disk EXCEPT ![no] = EmptyInode]
           r1 == [inodes |-> q0.inodes \ {no}, blocks |-> q0.blocks \ freed, disk |-> k0,
                  open |-> q0.open, entries |-> x, tables |-> q0.tables]
<1>2. /\ IsPart(q0) /\ SameDisk(q, q0)
      /\ DOMAIN q0.open = DOMAIN q.open \cup {no}
      /\ Count(q0, no) = Count(q, no) + 1
      /\ \A m \in Inodes \ {no} : Count(q0, m) = Count(q, m)
      /\ \A m \in DOMAIN q0.open : q0.open[m].inode = Inode(q, m)
  BY InodeOpenIs
<1>3. r = InodeClose([q0 EXCEPT
            !.blocks = @ \ freed,
            !.entries = [b \in DataBlocks |-> IF b \in freed THEN NoEntries ELSE @[b]],
            !.inodes = @ \ {no},
            !.disk[no] = EmptyInode], no)
  BY DEF InodeRelease
<1> HIDE DEF q0
<1>5. /\ q0 = [inodes |-> q0.inodes, blocks |-> q0.blocks, disk |-> q0.disk, open |-> q0.open,
               entries |-> q0.entries, tables |-> q0.tables]
      /\ q0.inodes \subseteq Inodes /\ q0.blocks \subseteq DataBlocks
      /\ q0.disk \in [Inodes -> InodeType]
      /\ DOMAIN q0.open \subseteq Inodes /\ q0.open \in [DOMAIN q0.open -> OpenType]
      /\ q0.entries \in [DataBlocks -> [Cells -> EntryType]]
      /\ q0.tables \in [DataBlocks -> Tables]
  BY <1>2 DEF IsPart
<1>6. r = InodeClose(r1, no)
  <2>1. [q0 EXCEPT !.blocks = @ \ freed,
            !.entries = [b \in DataBlocks |-> IF b \in freed THEN NoEntries ELSE @[b]],
            !.inodes = @ \ {no},
            !.disk[no] = EmptyInode]
        = [q0 EXCEPT !.blocks = q0.blocks \ freed, !.entries = x,
            !.inodes = q0.inodes \ {no}, !.disk = k0]
    OBVIOUS
  <2>2. [q0 EXCEPT !.blocks = q0.blocks \ freed, !.entries = x,
            !.inodes = q0.inodes \ {no}, !.disk = k0] = r1
    <3>1. q0 = [inodes |-> q0.inodes, blocks |-> q0.blocks, disk |-> q0.disk,
                open |-> q0.open, entries |-> q0.entries, tables |-> q0.tables]
      BY <1>5
    <3> DEFINE N == q0.inodes \ {no}
               B == q0.blocks \ freed
    <3>2. r1 = [inodes |-> N, blocks |-> B, disk |-> k0, open |-> q0.open,
                entries |-> x, tables |-> q0.tables]
      OBVIOUS
    <3> HIDE DEF x, k0, r1, N, B
    <3> DEFINE y == [q0 EXCEPT !.blocks = B, !.entries = x, !.inodes = N, !.disk = k0]
    <3>3. y = [q0 EXCEPT !.blocks = B, !.entries = x, !.inodes = N, !.disk = k0]
      OBVIOUS
    <3> HIDE DEF y
    <3>4. y = [inodes |-> N, blocks |-> B, disk |-> k0, open |-> q0.open,
               entries |-> x, tables |-> q0.tables]
      BY <3>1, <3>3
    <3> QED
      BY <3>2, <3>3, <3>4 DEF N, B
  <2> HIDE DEF r1, x, k0
  <2> QED
    BY <1>3, <2>1, <2>2
<1>7. /\ k0 \in [Inodes -> InodeType]
      /\ \A m \in Inodes \ {no} : k0[m] = q0.disk[m]
  <2>1. EmptyInode \in InodeType
    BY NewInodes
  <2> QED
    BY <1>5, <2>1
<1>8. /\ x \in [DataBlocks -> [Cells -> EntryType]]
      /\ \A b \in DataBlocks : x[b] = IF b \in freed THEN NoEntries ELSE q0.entries[b]
  <2>1. NoEntries \in [Cells -> EntryType]
    BY DEF NoEntries, EntryType
  <2> QED
    BY <1>5, <2>1
<1> HIDE DEF x, k0
<1>9. /\ r1.inodes = q0.inodes \ {no} /\ r1.blocks = q0.blocks \ freed /\ r1.disk = k0
      /\ r1.open = q0.open /\ r1.entries = x /\ r1.tables = q0.tables
      /\ r1 = [inodes |-> r1.inodes, blocks |-> r1.blocks, disk |-> r1.disk, open |-> r1.open,
               entries |-> r1.entries, tables |-> r1.tables]
  OBVIOUS
<1> HIDE DEF r1
<1>10. IsPart(r1)
  BY <1>5, <1>7, <1>8, <1>9 DEF IsPart
<1>11. /\ IsPart(r) /\ SameDisk(r1, r)
       /\ DOMAIN r.open = IF Count(r1, no) > 1 THEN DOMAIN r1.open ELSE DOMAIN r1.open \ {no}
       /\ Count(r, no) = Count(r1, no) - 1
       /\ \A m \in Inodes \ {no} : Count(r, m) = Count(r1, m)
       /\ \A m \in DOMAIN r.open : r.open[m].inode = r1.open[m].inode
  <2>1. no \in DOMAIN r1.open
    BY <1>2, <1>9
  <2> DEFINE w == InodeClose(r1, no)
  <2>2. /\ IsPart(w) /\ SameDisk(r1, w)
        /\ DOMAIN w.open = IF Count(r1, no) > 1 THEN DOMAIN r1.open ELSE DOMAIN r1.open \ {no}
        /\ Count(w, no) = Count(r1, no) - 1
        /\ \A m \in Inodes \ {no} : Count(w, m) = Count(r1, m)
        /\ \A m \in DOMAIN w.open : w.open[m].inode = r1.open[m].inode
    BY <1>10, <2>1, InodeCloseIs
  <2>3. r = w
    BY <1>6
  <2> HIDE DEF w
  <2> QED
    BY <2>2, <2>3
<1>12. \A m : Count(r1, m) = Count(q0, m)
  BY <1>9 DEF Count
<1>13. /\ no \in DOMAIN q.open => Count(q, no) \in Nat /\ Count(q, no) >= 1
       /\ no \notin DOMAIN q.open => Count(q, no) = 0
  BY OpenTyped DEF Count
<1>14. DOMAIN r.open = DOMAIN q.open
  <2>1. Count(r1, no) > 1 <=> no \in DOMAIN q.open
    BY <1>2, <1>12, <1>13
  <2>2. DOMAIN r1.open = DOMAIN q.open \cup {no}
    BY <1>2, <1>9
  <2> QED
    BY <1>11, <2>1, <2>2
<1>15. \A m \in Inodes : Count(r, m) = Count(q, m)
  BY <1>2, <1>11, <1>12, <1>13
<1>16. \A m \in DOMAIN q.open : r.open[m].inode = q.open[m].inode
  BY <1>2, <1>9, <1>11, <1>14 DEF Inode
<1>17. /\ r.inodes = q.inodes \ {no} /\ r.blocks = q.blocks \ freed
       /\ r.disk = k0 /\ r.entries = x /\ q0.disk = q.disk /\ q0.entries = q.entries
  BY <1>2, <1>9, <1>11 DEF SameDisk
<1> QED
  BY <1>7, <1>8, <1>11, <1>14, <1>15, <1>16, <1>17

LEMMA InodeReleaseIs ==
    ASSUME NEW q, IsPart(q), NEW no \in q.inodes \ {Root}, no \notin DOMAIN q.open,
           Sec(q, no, Direct) = Nil, NEW r, r = InodeRelease(q, no)
    PROVE  /\ Released(q, r, no)
           /\ DOMAIN r.open = DOMAIN q.open
           /\ \A m \in Inodes : Count(r, m) = Count(q, m)
           /\ \A m \in DOMAIN q.open : r.open[m].inode = q.open[m].inode
<1> DEFINE q0 == InodeOpen(q, no)
           freed == BlocksReleased(q0, no)
<1>1. no \in Inodes /\ no # Root
  BY DEF IsPart
<1>2. /\ IsPart(q0) /\ SameDisk(q, q0)
      /\ DOMAIN q0.open = DOMAIN q.open \cup {no}
      /\ \A m \in DOMAIN q0.open : q0.open[m].inode = Inode(q, m)
  BY <1>1, InodeOpenIs
<1>3. /\ IsPart(r) /\ r.inodes = q.inodes \ {no} /\ r.blocks = q.blocks \ freed
      /\ \A m \in Inodes \ {no} : r.disk[m] = q.disk[m]
      /\ \A b \in DataBlocks :
            r.entries[b] = IF b \in freed THEN NoEntries ELSE q.entries[b]
      /\ DOMAIN r.open = DOMAIN q.open
      /\ \A m \in Inodes : Count(r, m) = Count(q, m)
      /\ \A m \in DOMAIN q.open : r.open[m].inode = q.open[m].inode
  <2>1. freed = BlocksReleased(InodeOpen(q, no), no)
    OBVIOUS
  <2> HIDE DEF freed
  <2> QED
    BY <1>1, <2>1, ReleaseIs
<1> HIDE DEF q0
<1>4. freed = {Sec(q, no, k) : k \in Idx} \ {Nil}
  <2>1. Inode(q0, no) = q0.disk[no] /\ Sec(q0, no, Direct) = Nil
    BY <1>2 DEF Inode, SameDisk, Sec
  <2>2. BlocksOf(q0, no) = {Sec(q0, no, k) : k \in Idx} \ {Nil}
    BY <1>1, <1>2, <2>1, FreedIs
  <2>3. {Sec(q0, no, k) : k \in Idx} = {Sec(q, no, k) : k \in Idx}
    BY <1>2 DEF SameDisk, Sec
  <2> QED
    BY <2>2, <2>3 DEF BlocksReleased
<1> HIDE DEF freed
<1>5. ASSUME NEW b \in DataBlocks
      PROVE  IF \E k \in Idx : Sec(q, no, k) = b
             THEN b \notin r.blocks /\ r.entries[b] = NoEntries
             ELSE /\ b \in r.blocks <=> b \in q.blocks
                  /\ r.entries[b] = q.entries[b]
  <2>1. b \in freed <=> \E k \in Idx : Sec(q, no, k) = b
    BY <1>4, Sizes
  <2> HIDE DEF freed
  <2> QED
    BY <1>3, <2>1
<1> QED
  BY <1>1, <1>3, <1>5 DEF Released

LEMMA ReleasedFits ==
    ASSUME DirectOnly, NEW q, NEW r, NEW no, Layout(q), Released(q, r, no)
    PROVE  /\ Layout(r)
           /\ \A m \in r.inodes, k \in Idx, c \in Cells : E(r, m, k, c) = E(q, m, k, c)
           /\ SizesFit(q) => SizesFit(r)
<1>1. /\ IsPart(q) /\ Root \in q.inodes /\ Sec(q, Root, 0) = 1
      /\ \A m \in q.inodes : Sec(q, m, Direct) = Nil
      /\ \A x \in DataBlocks :
            x \in q.blocks <=> \E m \in q.inodes, k \in Idx : Sec(q, m, k) = x
      /\ \A n, m \in q.inodes, j, k \in Idx :
            Sec(q, n, j) # Nil /\ Sec(q, n, j) = Sec(q, m, k) => n = m /\ j = k
      /\ \A x \in DataBlocks \ q.blocks, c \in Cells : q.entries[x][c] = NoEntry
  BY DEF Layout
<1>2. /\ IsPart(r) /\ no \in q.inodes /\ no # Root /\ r.inodes = q.inodes \ {no}
      /\ \A m \in Inodes \ {no} : r.disk[m] = q.disk[m]
      /\ q.inodes \subseteq Inodes
  BY <1>1 DEF Released, IsPart
<1>3. \A m \in r.inodes : r.disk[m] = q.disk[m] /\ \A k : Sec(r, m, k) = Sec(q, m, k)
  BY <1>2 DEF Sec
<1>4. ASSUME NEW b \in DataBlocks
      PROVE  /\ (\E k \in Idx : Sec(q, no, k) = b) => b \notin r.blocks /\ r.entries[b] = NoEntries
             /\ ~(\E k \in Idx : Sec(q, no, k) = b) =>
                    (b \in r.blocks <=> b \in q.blocks) /\ r.entries[b] = q.entries[b]
  BY DEF Released
<1>5. ASSUME NEW m \in r.inodes, NEW k \in Idx, Sec(r, m, k) # Nil
      PROVE  /\ Sec(r, m, k) \in DataBlocks /\ ~ \E j \in Idx : Sec(q, no, j) = Sec(r, m, k)
             /\ Sec(r, m, k) \in r.blocks
  <2>1. Sec(r, m, k) \in DataBlocks
    BY <1>2, <1>5, EntryTyped, Sizes
  <2>2. ~ \E j \in Idx : Sec(q, no, j) = Sec(r, m, k)
    BY <1>1, <1>2, <1>3, <1>5
  <2>3. Sec(r, m, k) \in q.blocks
    BY <1>1, <1>2, <1>3, <2>1
  <2> QED
    BY <1>4, <2>1, <2>2, <2>3
<1>6. ASSUME NEW m \in r.inodes, NEW k \in Idx, NEW c \in Cells
      PROVE  E(r, m, k, c) = E(q, m, k, c)
  <2>1. CASE Sec(r, m, k) = Nil
    BY <1>3, <2>1 DEF E
  <2>2. CASE Sec(r, m, k) # Nil
    <3>1. r.entries[Sec(r, m, k)] = q.entries[Sec(r, m, k)]
      BY <1>4, <1>5, <2>2
    <3> QED
      BY <1>3, <2>2, <3>1 DEF E
  <2> QED
    BY <2>1, <2>2
<1>7. Layout(r)
  <2>1. Root \in r.inodes /\ Sec(r, Root, 0) = 1
    BY <1>1, <1>2, <1>3
  <2>2. \A m \in r.inodes : Sec(r, m, Direct) = Nil
    BY <1>1, <1>2, <1>3
  <2>3. ASSUME NEW b \in r.blocks
        PROVE  \E m \in r.inodes, k \in Idx : Sec(r, m, k) = b
    <3>1. b \in DataBlocks
      BY <1>2 DEF IsPart
    <3>2. ~ \E k \in Idx : Sec(q, no, k) = b
      BY <1>4, <3>1
    <3>3. b \in q.blocks
      BY <1>4, <3>1, <3>2
    <3>4. PICK m \in q.inodes, k \in Idx : Sec(q, m, k) = b
      BY <1>1, <3>1, <3>3
    <3>5. m \in r.inodes
      BY <1>2, <3>2, <3>4
    <3> QED
      BY <1>3, <3>4, <3>5
  <2>4. \A b \in DataBlocks : b \in r.blocks <=> \E m \in r.inodes, k \in Idx : Sec(r, m, k) = b
    BY <1>5, <2>3, Sizes
  <2>5. \A n, m \in r.inodes, j, k \in Idx :
            Sec(r, n, j) # Nil /\ Sec(r, n, j) = Sec(r, m, k) => n = m /\ j = k
    BY <1>1, <1>2, <1>3
  <2>6. ASSUME NEW b \in DataBlocks \ r.blocks, NEW c \in Cells
        PROVE  r.entries[b][c] = NoEntry
    <3>1. CASE \E k \in Idx : Sec(q, no, k) = b
      BY <1>4, <3>1 DEF NoEntries
    <3>2. CASE ~ \E k \in Idx : Sec(q, no, k) = b
      BY <1>1, <1>4, <3>2
    <3> QED
      BY <3>1, <3>2
  <2> QED
    BY <1>2, <2>1, <2>2, <2>4, <2>5, <2>6 DEF Layout
<1>8. ASSUME SizesFit(q)
      PROVE  SizesFit(r)
  <2> SUFFICES ASSUME NEW m \in r.inodes
               PROVE  IF IsDir(r, m)
                      THEN /\ r.disk[m].size = Cardinality(FilledAt(r, m))
                           /\ \A k \in Idx \ {0} :
                                 Sec(r, m, k) # Nil => \E c \in Cells : E(r, m, k, c) # NoEntry
                      ELSE /\ BlocksFit(r.disk[m].size, r.disk[m].sectors, r.blocks)
                           /\ \A k \in Idx, c \in Cells : E(r, m, k, c) = NoEntry
    BY DEF SizesFit
  <2>1. /\ IsDir(r, m) <=> IsDir(q, m)
        /\ m \in q.inodes
    BY <1>2, <1>6, Sizes DEF IsDir
  <2>2. CASE IsDir(r, m)
    <3>1. /\ q.disk[m].size = Cardinality(FilledAt(q, m))
          /\ \A k \in Idx \ {0} :
                Sec(q, m, k) # Nil => \E c \in Cells : E(q, m, k, c) # NoEntry
      BY <1>8, <2>1, <2>2 DEF SizesFit
    <3>2. FilledAt(r, m) = FilledAt(q, m)
      BY <1>6, FilledSame
    <3> QED
      BY <1>3, <1>6, <2>2, <3>1, <3>2
  <2>3. CASE ~IsDir(r, m)
    <3>1. /\ BlocksFit(q.disk[m].size, q.disk[m].sectors, q.blocks)
          /\ \A k \in Idx, c \in Cells : E(q, m, k, c) = NoEntry
      BY <1>8, <2>1, <2>3 DEF SizesFit
    <3>2. /\ \A k \in Idx : Sec(r, m, k) \in r.blocks \cup {Nil}
          /\ 1 \in r.blocks /\ r.blocks \subseteq DataBlocks
      BY <1>7, Marked
    <3>3. \A i \in Idx : q.disk[m].sectors[i] # Nil => q.disk[m].sectors[i] \in r.blocks
      BY <1>3, <3>2 DEF Sec
    <3>4. BlocksFit(q.disk[m].size, q.disk[m].sectors, r.blocks)
      BY <3>1, <3>2, <3>3, BlocksFitMoved
    <3> QED
      BY <1>3, <1>6, <2>3, <3>1, <3>4
  <2> QED
    BY <2>2, <2>3
<1> QED
  BY <1>6, <1>7, <1>8

\* An inode that may be removed: a file, or a directory with nothing but "." and "..".
LEMMA EmptyCells ==
    ASSUME NEW p, Layout(p), SizesFit(p), NamesFit(p), NEW d, NEW e, NEW k0, NEW c0,
           HasName(p, d, e, k0, c0), IsDir(p, e.no) => p.disk[e.no].size = 2
    PROVE  /\ e.no \in p.inodes \ {Root} /\ e.no # d
           /\ e.type \in {"directory", "regular"}
           /\ e.type = "directory" <=> IsDir(p, e.no)
           /\ \A k \in Idx, c \in Cells : E(p, e.no, k, c) = NewEntry(e, d, k, c)
<1>1. /\ d \in p.inodes /\ IsDir(p, d) /\ k0 \in Idx /\ c0 \in Cells
      /\ E(p, d, k0, c0) = e /\ e.name \in Names /\ IsNamed(p, d, k0, c0)
  BY DEF HasName, IsNamed
<1>2. /\ e.no \in p.inodes \ {Root}
      /\ e.type = "directory" <=> IsDir(p, e.no)
      /\ IsDir(p, e.no) => E(p, e.no, 0, 1).no = d
  BY <1>1, NameLeads
<1>3. IsPart(p) /\ p.inodes \subseteq Inodes
  BY DEF Layout, IsPart
<1>4. e \in EntryType
  BY <1>1, <1>3, EntryTyped
<1>5. e.type \in {"directory", "regular"}
  BY <1>1, <1>4, EntryKinds
<1>6. CASE IsDir(p, e.no)
  <2> DEFINE no == e.no
             F == FilledAt(p, no)
             G == {<<0, 0>>, <<0, 1>>}
  <2>1. Cardinality(F) = 2 /\ IsFiniteSet(F)
    BY <1>2, <1>6, FilledFinite DEF SizesFit
  <2>2. /\ E(p, no, 0, 0) = Entry(".", no, "directory")
        /\ E(p, no, 0, 1).name = ".." /\ E(p, no, 0, 1).type = "directory"
    BY <1>2, <1>6 DEF NamesFit
  <2>3. E(p, no, 0, 1) = Entry("..", d, "directory")
    <3>1. E(p, no, 0, 1) \in EntryType
      BY <1>2, <1>3, Sizes, EntryTyped
    <3>2. E(p, no, 0, 1) # NoEntry
      BY <2>2, NoEntryName
    <3>3. E(p, no, 0, 1).no = d
      BY <1>2, <1>6
    <3> QED
      BY <2>2, <3>1, <3>2, <3>3 DEF EntryType, Entry
  <2>4. G \subseteq F
    <3>1. E(p, no, 0, 0) # NoEntry /\ E(p, no, 0, 1) # NoEntry
      BY <2>2, NoEntryName DEF Entry
    <3> QED
      BY <3>1, Sizes DEF FilledAt
  <2>5. IsFiniteSet(G) /\ Cardinality(G) = 2
    <3>1. <<0, 0>> # <<0, 1>>
      OBVIOUS
    <3> QED
      BY <3>1, PairSize
  <2>6. F = G
    BY <2>1, <2>4, <2>5, FS_Subset
  <2>7. ASSUME NEW k \in Idx, NEW c \in Cells, ~(k = 0 /\ c = 0), ~(k = 0 /\ c = 1)
        PROVE  E(p, no, k, c) = NoEntry
    <3>1. <<k, c>> \notin G
      BY <2>7
    <3>2. <<k, c>> \notin F
      BY <2>6, <3>1
    <3> QED
      BY <3>2 DEF FilledAt
  <2> HIDE DEF F, G
  <2>8. \A k \in Idx, c \in Cells : E(p, no, k, c) = NewEntry(e, d, k, c)
    <3>1. e.type = "directory"
      BY <1>2, <1>6
    <3> HIDE DEF no
    <3>2. no = e.no
      BY DEF no
    <3> QED
      BY <2>2, <2>3, <2>7, <3>1, <3>2 DEF NewEntry
  <2>9. e.no # d
    <3>1. SUFFICES ASSUME e.no = d PROVE FALSE
      OBVIOUS
    <3>2. E(p, no, k0, c0) = e
      BY <1>1, <3>1
    <3>3. NewEntry(e, d, k0, c0) = e
      BY <1>1, <2>8, <3>2
    <3> QED
      BY <1>1, <3>3, NewEntryName
  <2> QED
    BY <1>2, <1>5, <2>8, <2>9
<1>7. CASE ~IsDir(p, e.no)
  <2>1. \A k \in Idx, c \in Cells : E(p, e.no, k, c) = NoEntry
    BY <1>2, <1>7 DEF SizesFit
  <2>2. e.type # "directory" /\ e.no # d
    BY <1>1, <1>2, <1>7
  <2>3. \A k \in Idx, c \in Cells : NewEntry(e, d, k, c) = NoEntry
    BY <2>2 DEF NewEntry
  <2> QED
    BY <1>2, <1>5, <2>1, <2>2, <2>3
<1> QED
  BY <1>6, <1>7

\* p0 is p with the directory of the name open, and without it come q, r and s.
Removes(p, p0, q, r, s, d, e, k0, c0, t) ==
    /\ PartFits(p) /\ Root \in DOMAIN p.open
    /\ HasName(p, d, e, k0, c0)
    /\ IsDir(p, e.no) => p.disk[e.no].size = 2
    /\ e.no \notin DOMAIN p.open
    /\ p0 = DirOpen(p, d) /\ q = DeleteDirEntry(p0, d, e.no)
    /\ r = InodeRelease(q, e.no) /\ s = DirClose(r, d)
    /\ t \in Seq(Names) /\ t # <<>> /\ LeadsToDir(p, Front(t), d) /\ Last(t) = e.name

LEMMA RemovesSteps ==
    ASSUME DirectOnly, SmallNumbers, NEW p, NEW p0, NEW q, NEW r, NEW s, NEW d, NEW e,
           NEW k0, NEW c0, NEW t, Removes(p, p0, q, r, s, d, e, k0, c0, t)
    PROVE  /\ SameDisk(p, p0) /\ Layout(p0) /\ SizesFit(p0) /\ HasName(p0, d, e, k0, c0)
           /\ Followed(p0, q, d) /\ Unplaced(p0, q, d, e, k0, c0, Sec(p0, d, k0))
           /\ Released(q, r, e.no) /\ SameDisk(r, s) /\ IsPart(s)
           /\ Cached(s) /\ Root \in DOMAIN s.open
           /\ \A m \in Inodes \ {Root} : Count(s, m) = Count(p, m)
<1> DEFINE no == e.no
<1>1. /\ PartFits(p) /\ Root \in DOMAIN p.open /\ HasName(p, d, e, k0, c0)
      /\ IsDir(p, no) => p.disk[no].size = 2
      /\ no \notin DOMAIN p.open
      /\ p0 = DirOpen(p, d) /\ q = DeleteDirEntry(p0, d, no)
      /\ r = InodeRelease(q, no) /\ s = DirClose(r, d)
  BY DEF Removes
<1>2. /\ Layout(p) /\ SizesFit(p) /\ NamesFit(p) /\ Cached(p) /\ IsPart(p)
      /\ p.inodes \subseteq Inodes /\ d \in p.inodes
  BY <1>1 DEF PartFits, Layout, IsPart, HasName
<1>3. no \in p.inodes \ {Root} /\ no # d /\ no \in Inodes /\ d \in Inodes
  BY <1>1, <1>2, EmptyCells
<1> HIDE DEF no
<1>4. /\ IsPart(p0) /\ SameDisk(p, p0)
      /\ DOMAIN p0.open = DOMAIN p.open \cup {d}
      /\ \A m \in Inodes \ {Root} : Count(p0, m) = Count(p, m) + (IF m = d THEN 1 ELSE 0)
      /\ \A m \in DOMAIN p0.open : p0.open[m].inode = Inode(p, m)
  BY <1>1, <1>2, <1>3, DirOpenIs
<1>5. /\ Layout(p0) /\ SizesFit(p0) /\ NamesFit(p0)
  BY <1>2, <1>4, SameDiskFits
<1>6. HasName(p0, d, e, k0, c0)
  <2>1. E(p0, d, k0, c0) = E(p, d, k0, c0) /\ (IsDir(p0, d) <=> IsDir(p, d))
    BY <1>4, SameDiskEntries
  <2> QED
    BY <1>1, <1>4, <2>1 DEF HasName, SameDisk
<1>7. \A m \in DOMAIN p0.open : p0.open[m].inode = p.disk[m] /\ p0.disk[m] = p.disk[m]
  BY <1>2, <1>4 DEF Inode, Cached, SameDisk
<1>8. d \in DOMAIN p0.open /\ p0.open[d].inode = p0.disk[d]
  BY <1>4, <1>7
<1>9. Followed(p0, q, d) /\ Unplaced(p0, q, d, e, k0, c0, Sec(p0, d, k0))
  <2>1. q = DeleteDirEntry(p0, d, e.no)
    BY <1>1 DEF no
  <2> QED
    BY <1>5, <1>6, <1>8, <2>1, DeleteDirEntryIs
<1>10. /\ IsPart(q) /\ q.inodes = p0.inodes
       /\ \A m \in Inodes \ {d} : q.disk[m] = p0.disk[m]
       /\ \A m \in Inodes, k \in 0..Direct :
             m # d => Sec(q, m, k) = Sec(p0, m, k)
  BY <1>9 DEF Unplaced, Placed, Sec
<1>11. no \in q.inodes \ {Root} /\ no \notin DOMAIN q.open
  BY <1>1, <1>3, <1>4, <1>9, <1>10 DEF Followed, SameDisk
<1>12. Sec(q, no, Direct) = Nil
  <2>1. Sec(p, no, Direct) = Nil
    BY <1>2, <1>3 DEF Layout
  <2>2. Sec(p0, no, Direct) = Sec(p, no, Direct)
    BY <1>4, SameDiskEntries
  <2> QED
    BY <1>3, <1>10, <2>1, <2>2, Sizes
<1>13. /\ Released(q, r, no) /\ DOMAIN r.open = DOMAIN q.open
       /\ \A m \in Inodes : Count(r, m) = Count(q, m)
       /\ \A m \in DOMAIN q.open : r.open[m].inode = q.open[m].inode
  BY <1>1, <1>10, <1>11, <1>12, InodeReleaseIs
<1>14. IsPart(r) /\ Root \in DOMAIN r.open /\ d \in DOMAIN r.open
       /\ DOMAIN r.open = DOMAIN p0.open
  BY <1>1, <1>4, <1>9, <1>13 DEF Followed, Released
<1>15. /\ IsPart(s) /\ SameDisk(r, s)
       /\ DOMAIN s.open \subseteq DOMAIN r.open
       /\ Root \in DOMAIN s.open
       /\ \A m \in Inodes \ {Root} : Count(s, m) = Count(r, m) - (IF m = d THEN 1 ELSE 0)
       /\ \A m \in DOMAIN s.open : s.open[m].inode = r.open[m].inode
  BY <1>1, <1>14, DirCloseIs
<1>16. \A m \in Inodes : Count(q, m) = Count(p0, m)
  BY <1>9 DEF Followed, Count
<1>17. \A m \in Inodes \ {Root} : Count(s, m) = Count(p, m)
  <2>1. \A m \in Inodes : Count(p, m) \in Nat
    BY <1>2, OpenTyped DEF Count
  <2> QED
    BY <1>4, <1>13, <1>15, <1>16, <2>1
<1>18. Cached(s)
  <2>1. ASSUME NEW m \in DOMAIN s.open
        PROVE  m \in s.inodes /\ s.open[m].inode = s.disk[m]
    <3>1. m \in DOMAIN p0.open /\ m \in DOMAIN q.open /\ m \in DOMAIN r.open
      BY <1>9, <1>14, <1>15, <2>1 DEF Followed
    <3>2. m \in p.inodes /\ m # no /\ m \in Inodes
      BY <1>1, <1>2, <1>3, <1>4, <3>1 DEF Cached
    <3>3. m \in s.inodes
      BY <1>4, <1>10, <1>13, <1>15, <3>2 DEF SameDisk, Released
    <3>4. s.open[m].inode = q.open[m].inode
      BY <1>13, <1>15, <3>1
    <3>5. q.open[m].inode = q.disk[m]
      BY <1>7, <1>9, <1>10, <3>1, <3>2 DEF Followed
    <3>6. s.disk[m] = q.disk[m]
      BY <1>13, <1>15, <3>2 DEF SameDisk, Released
    <3> QED
      BY <3>3, <3>4, <3>5, <3>6
  <2> QED
    BY <2>1 DEF Cached
<1>19. Released(q, r, e.no)
  BY <1>13 DEF no
<1> QED
  BY <1>4, <1>5, <1>6, <1>9, <1>15, <1>17, <1>18, <1>19

LEMMA RemovesGrown ==
    ASSUME DirectOnly, SmallNumbers, NEW p, NEW p0, NEW q, NEW r, NEW s, NEW d, NEW e,
           NEW k0, NEW c0, NEW t, Removes(p, p0, q, r, s, d, e, k0, c0, t)
    PROVE  Grown(s, p, d, e, k0, c0) /\ Layout(s) /\ SizesFit(s) /\ s.inodes = p.inodes \ {e.no}
<1> DEFINE b == Sec(p0, d, k0)
<1>1. /\ SameDisk(p, p0) /\ Layout(p0) /\ SizesFit(p0) /\ HasName(p0, d, e, k0, c0)
      /\ Unplaced(p0, q, d, e, k0, c0, b)
      /\ Released(q, r, e.no) /\ SameDisk(r, s) /\ IsPart(s)
  BY RemovesSteps
<1> HIDE DEF b
<1>2. /\ Layout(p) /\ SizesFit(p) /\ NamesFit(p) /\ HasName(p, d, e, k0, c0)
      /\ IsDir(p, e.no) => p.disk[e.no].size = 2
  BY DEF Removes, PartFits
<1>3. /\ e.no \in p.inodes \ {Root} /\ e.no # d
      /\ e.type \in {"directory", "regular"}
      /\ \A k \in Idx, c \in Cells : E(p, e.no, k, c) = NewEntry(e, d, k, c)
  BY <1>2, EmptyCells
<1>4. /\ Layout(q)
      /\ \A m \in p0.inodes, k \in Idx, c \in Cells :
            E(p0, m, k, c) = IF m = d /\ k = k0 /\ c = c0 THEN e ELSE E(q, m, k, c)
      /\ E(q, d, k0, c0) = NoEntry
  BY <1>1, UnplacedLayout
<1>5. SizesFit(q)
  BY <1>1, UnplacedSizes
<1>6. /\ Layout(r)
      /\ \A m \in r.inodes, k \in Idx, c \in Cells : E(r, m, k, c) = E(q, m, k, c)
      /\ SizesFit(r)
  BY <1>1, <1>4, <1>5, ReleasedFits
<1>7. Layout(s) /\ SizesFit(s)
  BY <1>1, <1>6, SameDiskFits
<1>8. p0.inodes = p.inodes /\ q.inodes = p.inodes /\ s.inodes = r.inodes
      /\ s.inodes = p.inodes \ {e.no}
  BY <1>1 DEF SameDisk, Unplaced, Released
<1>9. \A m, k, c : E(p0, m, k, c) = E(p, m, k, c)
  BY <1>1, SameDiskEntries
<1>10. \A m, k, c : E(s, m, k, c) = E(r, m, k, c)
  BY <1>1, SameDiskEntries
<1>11. /\ d \in p.inodes /\ IsDir(p, d) /\ k0 \in Idx /\ c0 \in Cells
       /\ E(p, d, k0, c0) = e /\ e.name \in Names
  BY <1>2 DEF HasName
<1>12. ASSUME NEW m \in s.inodes, NEW k \in Idx, NEW c \in Cells
       PROVE  E(p, m, k, c) = IF m = d /\ k = k0 /\ c = c0 THEN e ELSE E(s, m, k, c)
  <2>1. m \in p0.inodes /\ m \in r.inodes
    BY <1>8, <1>12
  <2>2. E(p0, m, k, c) = IF m = d /\ k = k0 /\ c = c0 THEN e ELSE E(q, m, k, c)
    BY <1>4, <2>1
  <2>3. E(s, m, k, c) = E(q, m, k, c)
    BY <1>6, <1>10, <2>1
  <2> QED
    BY <1>9, <2>2, <2>3
<1>13. d \in s.inodes
  BY <1>3, <1>8, <1>11
<1>14. E(s, d, k0, c0) = NoEntry
  BY <1>4, <1>6, <1>8, <1>10, <1>11, <1>13
<1>15. IsDir(s, d)
  <2>1. E(p, d, 0, 0).name = "."
    BY <1>11 DEF IsDir
  <2>2. ~(k0 = 0 /\ c0 = 0)
    BY <1>11, <2>1, NoDots
  <2>3. E(p, d, 0, 0) = E(s, d, 0, 0)
    BY <1>12, <1>13, <2>2, Sizes
  <2> QED
    BY <2>1, <2>3 DEF IsDir
<1>16. e.no \notin s.inodes /\ p.inodes = s.inodes \cup {e.no}
  BY <1>3, <1>8
<1>17. Grown(s, p, d, e, k0, c0)
  BY <1>3, <1>11, <1>12, <1>13, <1>14, <1>15, <1>16 DEF Grown
<1> QED
  BY <1>7, <1>8, <1>17

\* After a removal everything fits, and of all paths one leads nowhere any more.
LEMMA RemovesFits ==
    ASSUME DirectOnly, SmallNumbers, NEW p, NEW p0, NEW q, NEW r, NEW s, NEW d, NEW e,
           NEW k0, NEW c0, NEW t, Removes(p, p0, q, r, s, d, e, k0, c0, t)
    PROVE  /\ PartFits(s) /\ s.inodes = p.inodes \ {e.no}
           /\ \A m \in s.inodes : IsDir(s, m) <=> IsDir(p, m)
           /\ LeadsTo(p, t) = e.type /\ LeadsTo(s, t) = "none"
           /\ \A path \in Seq(Names) : path # t => LeadsTo(s, path) = LeadsTo(p, path)
           /\ e.type = "directory" =>
                 \A path \in Seq(Names) : path # <<>> /\ Front(path) = t => LeadsTo(p, path) = "none"
<1>1. Grown(s, p, d, e, k0, c0) /\ Layout(s) /\ SizesFit(s) /\ s.inodes = p.inodes \ {e.no}
  BY RemovesGrown
<1>2. Cached(s)
  BY RemovesSteps
<1>3. /\ PartFits(p) /\ HasName(p, d, e, k0, c0)
      /\ IsDir(p, e.no) => p.disk[e.no].size = 2
      /\ t \in Seq(Names) /\ t # <<>> /\ LeadsToDir(p, Front(t), d) /\ Last(t) = e.name
  BY DEF Removes
<1>4. Readable(p) /\ NamesFit(p) /\ Layout(p) /\ SizesFit(p) /\ Reached(p)
  BY <1>3 DEF PartFits, Readable
<1>5. /\ NamesFit(s) /\ \A k \in Idx, c \in Cells : E(s, d, k, c).name # e.name
  <2>1. Root \in p.inodes
    BY <1>4 DEF Layout
  <2> QED
    BY <1>1, <1>4, <2>1, ShrunkNames
<1>6. Readable(s)
  BY <1>1, <1>2, <1>5 DEF Readable
<1>7. LeadsToDir(s, Front(t), d)
  BY <1>1, <1>3, <1>4, <1>6, ShrunkFront
<1>8. /\ LeadsTo(s, t) = "none" /\ LeadsTo(p, t) = e.type
      /\ SearchFile(p, t).no = e.no /\ SearchFile(p, t).type = e.type
      /\ \A path \in Seq(Names) : path # t => LeadsTo(p, path) = LeadsTo(s, path)
  BY <1>1, <1>3, <1>4, <1>5, <1>6, <1>7, GrownPaths
<1>9. Reached(s)
  BY <1>1, <1>3, <1>4, <1>5, <1>6, <1>7, GrownReached
<1>10. PartFits(s)
  BY <1>1, <1>2, <1>5, <1>9 DEF PartFits
<1>11. \A m \in s.inodes : IsDir(s, m) <=> IsDir(p, m)
  BY <1>1, GrownDirs
<1>12. ASSUME e.type = "directory", NEW path \in Seq(Names), path # <<>>, Front(path) = t
       PROVE  LeadsTo(p, path) = "none"
  <2>1. /\ e.no \in p.inodes
        /\ \A k \in Idx, c \in Cells : E(p, e.no, k, c) = NewEntry(e, d, k, c)
    BY <1>3, <1>4, EmptyCells
  <2> DEFINE at == SearchFile(p, t)
             to == SearchFile(p, path)
  <2>2. at.type = "directory" /\ at.no = e.no
    BY <1>8, <1>12
  <2>3. to = Walk(p, at, Last(path))
    BY <1>12, SearchLast
  <2>4. Last(path) \in Names
    BY <1>12, FrontFacts
  <2> HIDE DEF at, to
  <2>5. OneFurther(p, e.no, Last(path), to)
    BY <1>4, <2>1, <2>2, <2>3, <2>4, WalkOne
  <2>6. \A k \in Idx, c \in Cells : E(p, e.no, k, c).name # Last(path)
    BY <2>1, <2>4, NewEntryName
  <2>7. to.type = "unknown"
    BY <2>5, <2>6 DEF OneFurther, Entry
  <2> QED
    BY <2>7 DEF to, LeadsTo
<1> QED
  BY <1>1, <1>8, <1>10, <1>11, <1>12

\* Whoever has the inode open, its bit is cleared.
LEMMA DeleteUnlists ==
    ASSUME SmallNumbers, NEW p, PartFits(p), Root \in DOMAIN p.open, NEW d, NEW e,
           NEW k0, NEW c0, HasName(p, d, e, k0, c0), IsDir(p, e.no) => p.disk[e.no].size = 2,
           NEW s, s = DirClose(InodeRelease(DeleteDirEntry(DirOpen(p, d), d, e.no), e.no), d)
    PROVE  e.no \notin s.inodes
<1> DEFINE no == e.no
           p0 == DirOpen(p, d)
           q == DeleteDirEntry(p0, d, no)
           r == InodeRelease(q, no)
           freed == BlocksReleased(InodeOpen(q, no), no)
<1>1. /\ Layout(p) /\ SizesFit(p) /\ NamesFit(p) /\ Cached(p) /\ IsPart(p)
      /\ p.inodes \subseteq Inodes /\ d \in p.inodes
  BY DEF PartFits, Layout, IsPart, HasName
<1>2. no \in Inodes /\ d \in Inodes
  BY <1>1, EmptyCells
<1>3. s = DirClose(r, d)
  OBVIOUS
<1> HIDE DEF no
<1>4. /\ IsPart(p0) /\ SameDisk(p, p0)
      /\ DOMAIN p0.open = DOMAIN p.open \cup {d}
      /\ \A m \in DOMAIN p0.open : p0.open[m].inode = Inode(p, m)
  BY <1>1, <1>2, DirOpenIs
<1> HIDE DEF p0
<1>5. /\ Layout(p0) /\ SizesFit(p0) /\ NamesFit(p0)
  BY <1>1, <1>4, SameDiskFits
<1>6. HasName(p0, d, e, k0, c0)
  <2>1. E(p0, d, k0, c0) = E(p, d, k0, c0) /\ (IsDir(p0, d) <=> IsDir(p, d))
    BY <1>4, SameDiskEntries
  <2> QED
    BY <1>4, <2>1 DEF HasName, SameDisk
<1>7. d \in DOMAIN p0.open /\ p0.open[d].inode = p0.disk[d]
  BY <1>1, <1>4 DEF Inode, Cached, SameDisk
<1>8. Followed(p0, q, d) /\ IsPart(q)
  <2>1. q = DeleteDirEntry(p0, d, e.no)
    BY DEF no
  <2> HIDE DEF q
  <2> QED
    BY <1>5, <1>6, <1>7, <2>1, DeleteDirEntryIs DEF Unplaced
<1> HIDE DEF q
<1>9. IsPart(r) /\ r.inodes = q.inodes \ {no} /\ DOMAIN r.open = DOMAIN q.open
  <2>1. freed = BlocksReleased(InodeOpen(q, no), no) /\ r = InodeRelease(q, no)
    OBVIOUS
  <2> HIDE DEF freed, r
  <2> QED
    BY <1>2, <1>8, <2>1, ReleaseIs
<1> HIDE DEF r
<1>10. SameDisk(r, s)
  BY <1>3, <1>4, <1>8, <1>9, DirCloseIs DEF Followed
<1> QED
  BY <1>9, <1>10 DEF SameDisk, no

\* The walk ends at a file: a path of the same name or a shorter one leads there.
LEMMA FileStops ==
    ASSUME PathsClosed, NEW p, Readable(p), NEW path \in AllPaths,
           SearchFile(p, path).type = "regular"
    PROVE  \E t \in AllPaths :
              SearchFile(p, t) = SearchFile(p, path) /\ SearchFile(p, t).depth = Len(t)
<1> DEFINE S == {t \in AllPaths : SearchFile(p, t) = SearchFile(p, path)}
           T == {Len(t) : t \in S}
<1>1. path \in S /\ S \subseteq AllPaths /\ AllPaths \subseteq Seq(Names) \ {<<>>}
  BY PathsOfNames
<1>2. T \subseteq Nat /\ T # {}
  <2>1. \A t \in S : Len(t) \in Nat
    BY <1>1, FrontFacts
  <2> HIDE DEF S
  <2> QED
    BY <1>1, <2>1
<1>3. PICK n \in T : \A m \in T : n <= m
  BY <1>2, LeastNat
<1>4. PICK t \in S : Len(t) = n
  BY <1>3
<1>5. t \in Seq(Names) /\ t # <<>> /\ t \in AllPaths
  BY <1>1, <1>4
<1> DEFINE at == SearchFile(p, t)
           f == SearchFile(p, Front(t))
<1>6. /\ Front(t) \in Seq(Names) /\ Len(Front(t)) = Len(t) - 1 /\ Last(t) \in Names
      /\ Len(t) \in Nat \ {0}
  BY <1>5, FrontFacts
<1>7. at = Walk(p, f, Last(t))
  BY <1>5, SearchLast
<1>8. AtFits(p, Front(t), f)
  BY <1>6, SearchFits
<1>9. at.type = "regular" /\ at = SearchFile(p, path)
  BY <1>4
<1> HIDE DEF at, f
<1>10. f.type = "directory"
  <2>1. SUFFICES ASSUME f.type # "directory" PROVE FALSE
    OBVIOUS
  <2>2. at = f
    BY <1>7, <2>1 DEF Walk
  <2>3. Front(t) # <<>>
    BY <2>1, SearchRoot DEF f, AtRoot
  <2>4. Len(t) > 1
    <3>1. Len(Front(t)) \in Nat /\ Len(Front(t)) # 0
      BY <1>6, <2>3
    <3> QED
      BY <1>6, <3>1
  <2>5. Front(t) \in AllPaths
    BY <1>5, <2>4, PathsOfNames DEF PathsClosed
  <2>6. Front(t) \in S
    BY <1>9, <2>2, <2>5 DEF f
  <2>7. Len(t) - 1 \in T
    BY <1>6, <2>6
  <2> QED
    BY <1>3, <1>4, <1>6, <2>7
<1>11. at.depth = f.depth + 1
  BY <1>6, <1>7, <1>8, <1>10, WalkOne DEF AtFits
<1>12. at.depth = Len(t)
  BY <1>6, <1>8, <1>10, <1>11 DEF AtFits
<1> QED
  BY <1>5, <1>9, <1>12 DEF at

\* What dir_remove and sys_unlink may take away.
LEMMA DeleteStep ==
    ASSUME FsBounds, FsInv, NEW t \in Seq(Names), t # <<>>, Leads(part, t),
           NEW at, at = SearchFile(part, t), Delete(at), failed = "none",
           at.type = "directory" => part.disk[at.no].size = 2,
           \A x \in DOMAIN file_table : file_table[x].no # at.no,
           \A x \in DOMAIN dirs : dirs[x].no # at.no \/ dirs[x].no \in part'.inodes,
           cwd \in part'.inodes,
           UNCHANGED <<dirs, cwd>>, names' = [path \in AllPaths |-> LeadsTo(part', path)]
    PROVE  /\ FsInv'
           /\ LeadsTo(part, t) = at.type /\ LeadsTo(part', t) = "none"
           /\ \A path \in Seq(Names) : path # t => LeadsTo(part', path) = LeadsTo(part, path)
           /\ at.type = "directory" =>
                 \A path \in Seq(Names) :
                     path # <<>> /\ Front(path) = t => LeadsTo(part, path) = "none"
<1> DEFINE d == at.parent
           e == Entry(Last(t), at.no, at.type)
<1>1. /\ IsPart(part) /\ PartFits(part) /\ Readable(part) /\ Root \in DOMAIN part.open
      /\ part.inodes \subseteq Inodes
      /\ Layout(part) /\ SizesFit(part) /\ NamesFit(part) /\ Cached(part)
      /\ HandlesFit(part, file_table, fd_table, dirs, cwd)
  BY InvParts DEF PartFits
<1>2. LeadsToDir(part, Front(t), d) /\ OneFurther(part, d, Last(t), at)
  BY <1>1, SearchWhole DEF Leads
<1>3. /\ Front(t) \in Seq(Names) /\ Last(t) \in Names
  BY FrontFacts
<1>4. d \in part.inodes /\ IsDir(part, d)
  BY <1>1, <1>2, <1>3, DirLeads
<1>5. PICK k0 \in Idx, c0 \in Cells : E(part, d, k0, c0) = e
  BY <1>2 DEF OneFurther, Leads
<1>6. e.name = Last(t) /\ e.no = at.no /\ e.type = at.type
  BY DEF Entry
<1> HIDE DEF d, e
<1>7. HasName(part, d, e, k0, c0)
  BY <1>3, <1>4, <1>5, <1>6 DEF HasName
<1>8. IsDir(part, e.no) => part.disk[e.no].size = 2
  <2>1. at.type = "directory" <=> IsDir(part, at.no)
    BY <1>2 DEF OneFurther, Leads
  <2> QED
    BY <1>6, <2>1
<1>9. Inode(part, d) = part.disk[d]
  BY InvParts
<1>10. ~DeleteLoops(part, d, e.no)
  BY <1>1, <1>7, <1>9, PlaceOfIs
<1> DEFINE p0 == DirOpen(part, d)
           q == DeleteDirEntry(p0, d, e.no)
           r == InodeRelease(q, e.no)
<1>11. part' = DirClose(r, d) /\ UNCHANGED <<file_table, fd_table, failed>>
  BY <1>6, <1>10 DEF Delete, d
<1>12. e.no \notin part'.inodes
  <2> DEFINE s == DirClose(InodeRelease(DeleteDirEntry(DirOpen(part, d), d, e.no), e.no), d)
  <2>1. e.no \notin s.inodes
    <3>1. SmallNumbers /\ s = s
      BY DEF FsBounds
    <3> HIDE DEF s
    <3>2. s = DirClose(InodeRelease(DeleteDirEntry(DirOpen(part, d), d, e.no), e.no), d)
      BY DEF s
    <3> QED
      BY <1>1, <1>7, <1>8, <3>1, <3>2, DeleteUnlists
  <2>2. part' = s
    BY <1>11
  <2> HIDE DEF s
  <2> QED
    BY <2>1, <2>2
<1>13. /\ \A x \in DOMAIN dirs : dirs[x].no # e.no
       /\ \A x \in DOMAIN file_table : file_table[x].no # e.no
       /\ cwd # e.no
  BY <1>6, <1>12
<1>14. e.no \notin DOMAIN part.open
  <2>1. e.no \in part.inodes \ {Root}
    BY <1>1, <1>7, <1>8, EmptyCells
  <2> QED
    BY <1>1, <1>13, <2>1, OpenUsed
<1>15. Removes(part, p0, q, r, part', d, e, k0, c0, t)
  BY <1>1, <1>2, <1>6, <1>7, <1>8, <1>11, <1>14 DEF Removes
<1> HIDE DEF p0, q, r
<1>16. DirectOnly /\ SmallNumbers
  BY DEF FsBounds
<1>17. /\ PartFits(part') /\ part'.inodes = part.inodes \ {e.no}
       /\ \A m \in part'.inodes : IsDir(part', m) <=> IsDir(part, m)
       /\ LeadsTo(part, t) = e.type /\ LeadsTo(part', t) = "none"
       /\ \A path \in Seq(Names) : path # t => LeadsTo(part', path) = LeadsTo(part, path)
       /\ e.type = "directory" =>
             \A path \in Seq(Names) :
                 path # <<>> /\ Front(path) = t => LeadsTo(part, path) = "none"
  BY <1>15, <1>16, RemovesFits
<1>18. /\ Root \in DOMAIN part'.open
       /\ \A m \in Inodes \ {Root} : Count(part', m) = Count(part, m)
  BY <1>15, <1>16, RemovesSteps
<1>19. HandlesFit(part', file_table', fd_table', dirs', cwd')
  <2>1. SameDirs(part, part', file_table, dirs, cwd)
    <3>1. /\ \A x \in DOMAIN file_table : file_table[x].no \in part.inodes
          /\ \A x \in DOMAIN dirs : dirs[x].no \in part.inodes
          /\ cwd \in part.inodes
      BY InvParts
    <3> QED
      BY <1>13, <1>17, <1>18, <3>1 DEF SameDirs
  <2>2. dirs' = dirs /\ cwd' = cwd /\ file_table' = file_table /\ fd_table' = fd_table
    BY <1>11
  <2> QED
    BY <1>1, <1>18, <2>1, <2>2, HandlesMoved
<1>20. FsInv'
  BY <1>11, <1>17, <1>19, InvNext
<1> QED
  BY <1>6, <1>17, <1>20

LEMMA UnlinkStep ==
    ASSUME FsBounds, FsInv, NEW path \in FilePaths, Unlink(path), InPlace,
           UNCHANGED <<dirs, cwd>>, names' = [a \in AllPaths |-> LeadsTo(part', a)]
    PROVE  FsInv' /\ \E t \in AllPaths : Tree!RemoveFile(t)
<1> DEFINE at == SearchFile(part, path)
<1>1. /\ failed = "none" /\ at.type = "regular" /\ ~InUse(at.no) /\ Delete(at)
  BY DEF Unlink
<1>2. Readable(part) /\ path \in AllPaths /\ AllPaths \subseteq Seq(Names) \ {<<>>}
  BY InvParts, PathsOfNames
<1>3. PICK t \in AllPaths : SearchFile(part, t) = at /\ SearchFile(part, t).depth = Len(t)
  BY <1>1, <1>2, FileStops DEF FsBounds
<1>4. t \in Seq(Names) /\ t # <<>> /\ Leads(part, t)
  BY <1>1, <1>2, <1>3 DEF Leads
<1>5. at = SearchFile(part, t)
  BY <1>3
<1> HIDE DEF at
<1>6. \A x \in DOMAIN file_table : file_table[x].no # at.no
  BY <1>1 DEF InUse
<1>7. /\ \A x \in DOMAIN dirs : dirs[x].no \in part'.inodes
      /\ cwd \in part'.inodes
  BY DEF InPlace
<1>8. /\ FsInv'
      /\ LeadsTo(part, t) = at.type /\ LeadsTo(part', t) = "none"
      /\ \A a \in Seq(Names) : a # t => LeadsTo(part', a) = LeadsTo(part, a)
  BY <1>1, <1>4, <1>5, <1>6, <1>7, DeleteStep
<1>9. names = [a \in AllPaths |-> LeadsTo(part, a)]
  BY DEF FsInv
<1>10. names[t] = "regular" /\ names' = [names EXCEPT ![t] = "none"]
  BY <1>1, <1>2, <1>8, <1>9
<1> QED
  BY <1>8, <1>10 DEF Tree!RemoveFile

LEMMA RmdirStep ==
    ASSUME FsBounds, FsInv, NEW t \in DirPaths, Rmdir(t), InPlace,
           UNCHANGED <<dirs, cwd>>, names' = [a \in AllPaths |-> LeadsTo(part', a)]
    PROVE  FsInv' /\ Tree!RemoveDirectory(t)
<1> DEFINE at == SearchFile(part, t)
           d == at.parent
           e == Entry(Last(t), at.no, at.type)
<1>1. /\ failed = "none" /\ at.type = "directory" /\ IsEmpty(at.no)
      /\ IF \E k \in 1..Direct : Inode(part, at.no).sectors[k] # Nil
         THEN FsPanics("sectors") ELSE Delete(at)
  BY DEF Rmdir, OnDirectory
<1>2. /\ Readable(part) /\ Layout(part) /\ SizesFit(part) /\ NamesFit(part)
      /\ \A no : Inode(part, no) = part.disk[no]
      /\ t \in AllPaths /\ AllPaths \subseteq Seq(Names) \ {<<>>}
  BY InvParts, PathsOfNames DEF PartFits
<1>3. t \in Seq(Names) /\ t # <<>> /\ Front(t) \in Seq(Names) /\ Last(t) \in Names
  BY <1>2, FrontFacts
<1>4. LeadsToDir(part, t, at.no)
  BY <1>1 DEF LeadsToDir
<1>5. Leads(part, t) /\ at.no \in part.inodes /\ IsDir(part, at.no)
  BY <1>2, <1>3, <1>4, DirLeads
<1>6. part.disk[at.no].size = 2
  BY <1>1, <1>2 DEF IsEmpty
<1>7. LeadsToDir(part, Front(t), d) /\ OneFurther(part, d, Last(t), at)
  BY <1>2, <1>3, <1>5, SearchWhole DEF Leads
<1> HIDE DEF at
<1>8. PICK k0 \in Idx, c0 \in Cells : E(part, d, k0, c0) = e
  BY <1>1, <1>7 DEF OneFurther
<1>9. d \in part.inodes /\ IsDir(part, d)
  BY <1>2, <1>3, <1>7, DirLeads
<1>10. HasName(part, d, e, k0, c0) /\ e.no = at.no
  BY <1>3, <1>8, <1>9 DEF HasName, Entry
<1> HIDE DEF e, d
<1>11. \A k \in Idx, c \in Cells : E(part, at.no, k, c) = NewEntry(e, d, k, c)
  BY <1>2, <1>6, <1>10, EmptyCells
<1>12. ASSUME NEW k \in 1..Direct
       PROVE  Inode(part, at.no).sectors[k] = Nil
  <2>1. CASE k = Direct
    BY <1>2, <1>5, <2>1 DEF Layout, Sec
  <2>2. CASE k # Direct
    <3>1. k \in Idx \ {0}
      BY <1>12, <2>2, Sizes DEF Idx
    <3>2. \A c \in Cells : E(part, at.no, k, c) = NoEntry
      BY <1>11, <3>1 DEF NewEntry
    <3>3. Sec(part, at.no, k) = Nil
      BY <1>2, <1>5, <3>1, <3>2 DEF SizesFit
    <3> QED
      BY <1>2, <3>3 DEF Sec
  <2> QED
    BY <2>1, <2>2
<1>13. Delete(at)
  BY <1>1, <1>12
<1>14. \A x \in DOMAIN file_table : file_table[x].no # at.no
  BY <1>5, InvParts DEF HandlesFit
<1>15. /\ \A x \in DOMAIN dirs : dirs[x].no \in part'.inodes
       /\ cwd \in part'.inodes
  BY DEF InPlace
<1>16. at = SearchFile(part, t)
  BY DEF at
<1>17. /\ FsInv'
       /\ LeadsTo(part, t) = at.type /\ LeadsTo(part', t) = "none"
       /\ \A a \in Seq(Names) : a # t => LeadsTo(part', a) = LeadsTo(part, a)
       /\ at.type = "directory" =>
             \A a \in Seq(Names) : a # <<>> /\ Front(a) = t => LeadsTo(part, a) = "none"
  BY <1>1, <1>3, <1>5, <1>6, <1>13, <1>14, <1>15, <1>16, DeleteStep
<1>18. names = [a \in AllPaths |-> LeadsTo(part, a)]
  BY DEF FsInv
<1>19. names[t] = "directory" /\ names' = [names EXCEPT ![t] = "none"]
  BY <1>1, <1>2, <1>17, <1>18
<1>20. ASSUME NEW a \in Tree!Children(t)
       PROVE  names[a] = "none"
  <2>1. a \in AllPaths /\ Tree!Front(a) = t
    BY <1>20 DEF Tree!Children
  <2>2. Front(a) = t
    BY <2>1 DEF Front, Tree!Front
  <2> QED
    BY <1>1, <1>2, <1>17, <1>18, <2>1, <2>2
<1> QED
  BY <1>17, <1>19, <1>20 DEF Tree!RemoveDirectory

-----------------------------------------------------------------------------
(* The start, and every step.                                              *)

LEMMA FormattedCells ==
    ASSUME NEW p, p = FormattedPart
    PROVE  /\ IsPart(p) /\ p.inodes = {Root} /\ p.blocks = {1}
           /\ DOMAIN p.open = {Root} /\ p.open[Root].inode = p.disk[Root]
           /\ p.disk[Root].size = 2
           /\ \A k \in 0..Direct : Sec(p, Root, k) = IF k = 0 THEN 1 ELSE Nil
           /\ \A k \in Idx, c \in Cells : E(p, Root, k, c) =
                 IF k = 0 /\ c = 0 THEN Entry(".", Root, "directory")
                 ELSE IF k = 0 /\ c = 1 THEN Entry("..", Root, "directory") ELSE NoEntry
           /\ \A b \in DataBlocks \ {1}, c \in Cells : p.entries[b][c] = NoEntry
<1>1. 1 \in DataBlocks /\ Root \in Inodes
  BY Sizes
<1>2. EmptyInode \in InodeType /\ NewDir(1) \in InodeType
  BY <1>1, NewInodes
<1>3. NoEntries \in [Cells -> EntryType] /\ Dots(Root, Root) \in [Cells -> EntryType]
  <2>1. /\ Entry(".", Root, "directory") \in EntryType
        /\ Entry("..", Root, "directory") \in EntryType
    BY <1>1 DEF Entry, EntryType
  <2>2. NoEntries \in [Cells -> EntryType]
    BY DEF NoEntries, EntryType
  <2> QED
    BY <2>1, <2>2, Sizes DEF Dots
<1>4. NoTable \in Tables
  BY DEF NoTable, Tables
<1> DEFINE D == [no \in Inodes |-> IF no = Root THEN NewDir(1) ELSE EmptyInode]
           O == [no \in {Root} |-> [count |-> 1, deny |-> FALSE, inode |-> NewDir(1)]]
           x == [b \in DataBlocks |-> IF b = 1 THEN Dots(Root, Root) ELSE NoEntries]
           T == [b \in DataBlocks |-> NoTable]
<1>5. p = [inodes |-> {Root}, blocks |-> {1}, disk |-> D, open |-> O, entries |-> x, tables |-> T]
  BY DEF FormattedPart
<1>6. /\ D \in [Inodes -> InodeType] /\ D[Root] = NewDir(1)
      /\ DOMAIN O = {Root} /\ O[Root].inode = NewDir(1)
      /\ O \in [{Root} -> OpenType]
      /\ x \in [DataBlocks -> [Cells -> EntryType]]
      /\ x[1] = Dots(Root, Root) /\ \A b \in DataBlocks \ {1} : x[b] = NoEntries
      /\ T \in [DataBlocks -> Tables]
  BY <1>1, <1>2, <1>3, <1>4 DEF OpenType
<1> HIDE DEF D, O, x, T
<1>7. /\ p.inodes = {Root} /\ p.blocks = {1} /\ p.disk = D /\ p.open = O
      /\ p.entries = x /\ p.tables = T
      /\ p = [inodes |-> p.inodes, blocks |-> p.blocks, disk |-> p.disk, open |-> p.open,
              entries |-> p.entries, tables |-> p.tables]
  BY <1>5
<1>8. IsPart(p)
  BY <1>1, <1>6, <1>7 DEF IsPart
<1>9. NewDir(1).size = 2 /\ \A k \in 0..Direct : NewDir(1).sectors[k] = IF k = 0 THEN 1 ELSE Nil
  BY DEF NewDir, NoSectors
<1>10. \A k \in 0..Direct : Sec(p, Root, k) = IF k = 0 THEN 1 ELSE Nil
  BY <1>6, <1>7, <1>9 DEF Sec
<1>11. ASSUME NEW k \in Idx, NEW c \in Cells
       PROVE  E(p, Root, k, c) = IF k = 0 THEN Dots(Root, Root)[c] ELSE NoEntry
  <2>1. Sec(p, Root, k) = IF k = 0 THEN 1 ELSE Nil
    BY <1>10, Sizes
  <2> QED
    BY <1>1, <1>6, <1>7, <2>1, Sizes DEF E
<1>12. \A k \in Idx, c \in Cells : E(p, Root, k, c) =
          IF k = 0 /\ c = 0 THEN Entry(".", Root, "directory")
          ELSE IF k = 0 /\ c = 1 THEN Entry("..", Root, "directory") ELSE NoEntry
  BY <1>11, DotsAre
<1>13. \A b \in DataBlocks \ {1}, c \in Cells : p.entries[b][c] = NoEntry
  BY <1>6, <1>7 DEF NoEntries
<1> QED
  BY <1>6, <1>7, <1>8, <1>9, <1>10, <1>12, <1>13

LEMMA FormattedFits ==
    ASSUME NEW p, p = FormattedPart
    PROVE  PartFits(p) /\ IsDir(p, Root)
<1>1. /\ IsPart(p) /\ p.inodes = {Root} /\ p.blocks = {1}
      /\ DOMAIN p.open = {Root} /\ p.open[Root].inode = p.disk[Root]
      /\ p.disk[Root].size = 2
      /\ \A k \in 0..Direct : Sec(p, Root, k) = IF k = 0 THEN 1 ELSE Nil
      /\ \A k \in Idx, c \in Cells : E(p, Root, k, c) =
            IF k = 0 /\ c = 0 THEN Entry(".", Root, "directory")
            ELSE IF k = 0 /\ c = 1 THEN Entry("..", Root, "directory") ELSE NoEntry
      /\ \A b \in DataBlocks \ {1}, c \in Cells : p.entries[b][c] = NoEntry
  BY FormattedCells
<1>2. Layout(p)
  <2>1. /\ Sec(p, Root, 0) = 1 /\ Sec(p, Root, Direct) = Nil
        /\ \A k \in Idx : Sec(p, Root, k) = IF k = 0 THEN 1 ELSE Nil
    BY <1>1, Sizes DEF Idx
  <2>2. \A b \in DataBlocks :
           b \in p.blocks <=> \E no \in p.inodes, k \in Idx : Sec(p, no, k) = b
    BY <1>1, <2>1, Sizes
  <2>3. \A no, m \in p.inodes, j, k \in Idx :
           Sec(p, no, j) # Nil /\ Sec(p, no, j) = Sec(p, m, k) => no = m /\ j = k
    BY <1>1, <2>1
  <2> QED
    BY <1>1, <2>1, <2>2, <2>3 DEF Layout
<1>3. /\ E(p, Root, 0, 0) = Entry(".", Root, "directory")
      /\ E(p, Root, 0, 1) = Entry("..", Root, "directory")
      /\ \A k \in Idx, c \in Cells :
            ~(k = 0 /\ c = 0) /\ ~(k = 0 /\ c = 1) => E(p, Root, k, c) = NoEntry
  BY <1>1, Sizes
<1>4. IsDir(p, Root)
  BY <1>3 DEF IsDir, Entry
<1>5. SizesFit(p)
  <2> DEFINE F == FilledAt(p, Root)
             G == {<<0, 0>>, <<0, 1>>}
  <2>1. F = G
    <3>1. E(p, Root, 0, 0) # NoEntry /\ E(p, Root, 0, 1) # NoEntry
      BY <1>3, NoEntryName DEF Entry
    <3>2. G \subseteq F
      BY <3>1, Sizes DEF FilledAt
    <3>3. ASSUME NEW at \in F PROVE at \in G
      <4>1. /\ at[1] \in Idx /\ at[2] \in Cells /\ at = <<at[1], at[2]>>
            /\ E(p, Root, at[1], at[2]) # NoEntry
        BY <3>3 DEF FilledAt
      <4>2. (at[1] = 0 /\ at[2] = 0) \/ (at[1] = 0 /\ at[2] = 1)
        BY <1>3, <4>1
      <4> QED
        BY <4>1, <4>2
    <3> QED
      BY <3>2, <3>3
  <2>2. Cardinality(G) = 2
    <3>1. <<0, 0>> # <<0, 1>>
      OBVIOUS
    <3> QED
      BY <3>1, PairSize
  <2>3. Cardinality(FilledAt(p, Root)) = 2
    BY <2>1, <2>2
  <2>4. \A k \in Idx \ {0} : Sec(p, Root, k) = Nil
    BY <1>1, Sizes
  <2> QED
    BY <1>1, <1>4, <2>3, <2>4 DEF SizesFit
<1>6. NamesFit(p)
  <2>1. \A k \in Idx, c \in Cells : ~IsNamed(p, Root, k, c)
    BY <1>3, NoDots, NoEntryName DEF IsNamed, Entry
  <2>2. \A k \in Idx, c \in Cells :
           /\ E(p, Root, k, c).name = "." => k = 0 /\ c = 0
           /\ E(p, Root, k, c).name = ".." => k = 0 /\ c = 1
    BY <1>3, NoEntryName DEF Entry
  <2> QED
    BY <1>1, <1>3, <1>4, <2>1, <2>2 DEF NamesFit, Entry
<1>7. Reached(p)
  <2>1. LeadsToDir(p, <<>>, Root)
    BY SearchRoot DEF LeadsToDir, AtRoot
  <2> QED
    BY <1>1, <2>1 DEF Reached
<1>8. Cached(p)
  BY <1>1 DEF Cached
<1> QED
  BY <1>2, <1>4, <1>5, <1>6, <1>7, <1>8 DEF PartFits

LEMMA InitInv ==
    ASSUME DirsInit
    PROVE  FsInv
<1>1. /\ part = FormattedPart /\ file_table = <<>> /\ fd_table = <<>> /\ failed = "none"
      /\ names = [path \in AllPaths |-> "none"] /\ cwd = Root
  BY DEF DirsInit, FsInit
<1>2. PartFits(part) /\ IsDir(part, Root)
  BY <1>1, FormattedFits
<1>3. IsPart(part) /\ part.inodes = {Root} /\ DOMAIN part.open = {Root}
  BY <1>1, FormattedCells
<1>4. /\ DOMAIN dirs \subseteq {RootHandle} /\ dirs \in [DOMAIN dirs -> [no : Inodes, pos : Nat]]
      /\ \A h \in DOMAIN dirs : dirs[h].no = Root
  <2>1. CASE <<>> \in OpenDirPaths
    <3>1. dirs = With(<<>>, RootHandle, [no |-> Root, pos |-> 0])
      BY <2>1 DEF DirsInit
    <3> DEFINE g == [y \in {RootHandle} |-> [no |-> Root, pos |-> 0]]
    <3>2. dirs = g
      BY <3>1 DEF With
    <3>3. /\ DOMAIN g = {RootHandle} /\ g[RootHandle].no = Root
          /\ g \in [{RootHandle} -> [no : Inodes, pos : Nat]]
      BY Sizes
    <3> HIDE DEF g
    <3> QED
      BY <3>2, <3>3
  <2>2. CASE <<>> \notin OpenDirPaths
    BY <2>2 DEF DirsInit
  <2> QED
    BY <2>1, <2>2
<1>5. FsTypeOK
  BY <1>1, <1>3 DEF FsTypeOK
<1>6. HandlesFit(part, file_table, fd_table, dirs, cwd)
  <2>1. ASSUME NEW no \in Inodes \ {Root}
        PROVE  Count(part, no) = Cardinality(At(file_table, no)) + Cardinality(At(dirs, no))
    <3>1. Count(part, no) = 0
      BY <1>3, <2>1 DEF Count
    <3>2. At(file_table, no) = {} /\ At(dirs, no) = {}
      BY <1>1, <1>4, <2>1 DEF At
    <3>3. Cardinality({}) = 0
      BY FS_EmptySet
    <3> QED
      BY <3>1, <3>2, <3>3
  <2>2. \A h \in DOMAIN dirs : IsDir(part, dirs[h].no) /\ (h # RootHandle => dirs[h].no # Root)
    BY <1>2, <1>4
  <2> QED
    BY <1>1, <1>2, <1>3, <1>4, <2>1, <2>2 DEF HandlesFit
<1>7. Readable(part)
  BY <1>2 DEF PartFits, Readable
<1>8. ASSUME NEW path \in AllPaths
      PROVE  LeadsTo(part, path) = "none"
  <2>1. path \in Seq(Names) /\ path # <<>>
    BY <1>8, PathsOfNames
  <2>2. AtFits(part, path, SearchFile(part, path))
    BY <1>7, <2>1, SearchFits
  <2>3. ASSUME Leads(part, path) PROVE FALSE
    <3>1. SearchFile(part, path).no # Root
      BY <1>7, <2>1, <2>3, RootPath
    <3>2. SearchFile(part, path).no \in part.inodes
      BY <2>2, <2>3 DEF AtFits, Leads
    <3> QED
      BY <1>3, <3>1, <3>2
  <2> QED
    BY <2>3 DEF LeadsTo, Leads
<1>9. names = [path \in AllPaths |-> LeadsTo(part, path)]
  BY <1>1, <1>8
<1> QED
  BY <1>1, <1>2, <1>5, <1>6, <1>9 DEF FsInv, AssertsHold

\* A step of the tree of names, or none.
TreeStep ==
    UNCHANGED names
        \/ \E t \in AllPaths :
              \/ Tree!Make(t, "regular") \/ Tree!Make(t, "directory")
              \/ Tree!RemoveFile(t) \/ Tree!RemoveDirectory(t)

LEMMA FsNextInv ==
    ASSUME FsBounds, FsInv, FsNext, InPlace, UNCHANGED <<dirs, cwd>>
    PROVE  FsInv' /\ TreeStep
<1>1. Call /\ names' = [path \in AllPaths |-> LeadsTo(part', path)]
  BY DEF FsNext
<1>2. FilePaths \subseteq AllPaths /\ DirPaths \subseteq AllPaths
  BY PathsOfNames
<1>3. ASSUME NEW path \in FilePaths, NEW writes \in BOOLEAN, Create(path, writes)
      PROVE  FsInv' /\ TreeStep
  BY <1>1, <1>2, <1>3, CreateStep DEF TreeStep
<1>4. ASSUME NEW path \in OpenPaths, NEW writes \in BOOLEAN, Open(path, writes)
      PROVE  FsInv' /\ TreeStep
  BY <1>1, <1>4, OpenStep DEF TreeStep
<1>5. ASSUME NEW path \in FilePaths, Unlink(path)
      PROVE  FsInv' /\ TreeStep
  BY <1>1, <1>5, UnlinkStep DEF TreeStep
<1>6. ASSUME NEW path \in DirPaths, Mkdir(path)
      PROVE  FsInv' /\ TreeStep
  BY <1>1, <1>2, <1>6, MkdirStep DEF TreeStep
<1>7. ASSUME NEW path \in DirPaths, Rmdir(path)
      PROVE  FsInv' /\ TreeStep
  BY <1>1, <1>2, <1>7, RmdirStep DEF TreeStep
<1>8. ASSUME NEW fd \in Fds, Close(fd)
      PROVE  FsInv' /\ TreeStep
  BY <1>1, <1>8, CloseStep DEF TreeStep
<1>9. ASSUME NEW fd \in Fds, NEW count \in Counts, FsWrite(fd, count)
      PROVE  FsInv' /\ TreeStep
  BY <1>1, <1>9, WriteStep DEF TreeStep
<1> QED
  BY <1>1, <1>3, <1>4, <1>5, <1>6, <1>7, <1>8, <1>9 DEF Call

LEMMA NextInv ==
    ASSUME FsBounds, FsInv, [DirsNext]_dirVars
    PROVE  FsInv' /\ TreeStep
<1>1. CASE FsNext /\ InPlace /\ UNCHANGED <<dirs, cwd>>
  BY <1>1, FsNextInv
<1>2. CASE DirCall /\ failed = "none" /\ UNCHANGED <<file_table, fd_table, failed, names>>
  <2>1. Quiet /\ UNCHANGED names
    BY <1>2 DEF Quiet
  <2>2. ASSUME NEW path \in OpenDirPaths, Opendir(path), UNCHANGED cwd
        PROVE  FsInv'
    BY <2>1, <2>2, OpendirStep
  <2>3. ASSUME NEW path \in ChdirPaths, Chdir(path)
        PROVE  FsInv'
    BY <2>1, <2>3, ChdirStep
  <2>4. ASSUME NEW h \in DOMAIN dirs, Closedir(h), UNCHANGED cwd
        PROVE  FsInv'
    BY <2>1, <2>4, ClosedirStep
  <2>5. ASSUME NEW h \in DOMAIN dirs, Readdir(h) \/ Rewinddir(h), UNCHANGED cwd
        PROVE  FsInv'
    BY <2>1, <2>5, PosStep
  <2> QED
    BY <1>2, <2>1, <2>2, <2>3, <2>4, <2>5 DEF DirCall, TreeStep
<1>3. CASE UNCHANGED dirVars
  <2>1. UNCHANGED <<part, file_table, fd_table, failed, names, dirs, cwd>>
    BY <1>3 DEF dirVars, fsVars
  <2>2. names' = names
    BY <2>1
  <2>3. HandlesFit(part', file_table', fd_table', dirs', cwd')
    BY <2>1 DEF FsInv
  <2>4. PartFits(part') /\ names' = [path \in AllPaths |-> LeadsTo(part', path)]
    BY <2>1 DEF FsInv
  <2>5. FsTypeOK' /\ AssertsHold'
    BY <2>1 DEF FsInv, FsTypeOK, AssertsHold
  <2> QED
    BY <2>2, <2>3, <2>4, <2>5 DEF FsInv, TreeStep
<1> QED
  BY <1>1, <1>2, <1>3 DEF DirsNext

\* The partition, the tables and the handles fit together between any two calls.
LEMMA FsInvHolds ==
    ASSUME FsBounds
    PROVE  DirsSpec => []FsInv
<1>1. DirsInit => FsInv
  BY InitInv
<1>2. FsInv /\ [DirsNext]_dirVars => FsInv'
  BY NextInv
<1> QED
  BY <1>1, <1>2, PTL DEF DirsSpec

-----------------------------------------------------------------------------
(* The theorems.                                                           *)

\* The partition, the tables of slots and descriptors and what has failed have
\* their types.
THEOREM FsTypeOKHolds ==
    ASSUME FsBounds
    PROVE  DirsSpec => []FsTypeOK
<1>1. FsInv => FsTypeOK
  BY DEF FsInv
<1> QED
  BY <1>1, FsInvHolds, PTL

\* The ASSERT of dir_remove, that an empty directory has one block, never fails.
\* (The loop of delete_dir_entry over indirect blocks is never begun: by ShortDirs
\* a directory stays within its direct ones.)
THEOREM AssertsHoldHolds ==
    ASSUME FsBounds
    PROVE  DirsSpec => []AssertsHold
<1>1. FsInv => AssertsHold
  BY DEF FsInv
<1> QED
  BY <1>1, FsInvHolds, PTL

\* What inode_open has put into memory is what inode_sync has put on the disk,
\* for every inode and between any two calls.
THEOREM CachedAgreeHolds ==
    ASSUME FsBounds
    PROVE  DirsSpec => []CachedAgree
<1>1. FsInv => CachedAgree
  BY InvParts DEF Cached, CachedAgree
<1> QED
  BY <1>1, FsInvHolds, PTL

\* i_open_cnts is the number of slots and directory handles of an inode: every
\* call of fs.c closes what it opens on its way.
THEOREM HandlesCountedHolds ==
    ASSUME FsBounds
    PROVE  DirsSpec => []HandlesCounted
<1>1. ASSUME FsInv
      PROVE  HandlesCounted
  <2>1. /\ IsPart(part) /\ HandlesFit(part, file_table, fd_table, dirs, cwd)
        /\ \A x \in DOMAIN file_table : file_table[x].no \in DOMAIN part.open
        /\ \A x \in DOMAIN dirs : dirs[x].no \in DOMAIN part.open
    BY <1>1, InvParts
  <2>2. ASSUME NEW no \in DOMAIN part.open \ {Root}
        PROVE  part.open[no].count =
                  Cardinality({s \in DOMAIN file_table : file_table[s].no = no})
                  + Cardinality({h \in DOMAIN dirs : dirs[h].no = no})
    <3>1. no \in Inodes
      BY <2>1 DEF IsPart
    <3>2. Count(part, no) = Cardinality(At(file_table, no)) + Cardinality(At(dirs, no))
      BY <2>1, <3>1 DEF HandlesFit
    <3> QED
      BY <3>2 DEF Count, At
  <2> QED
    BY <2>1, <2>2 DEF HandlesCounted
<1>2. FsInv => HandlesCounted
  BY <1>1
<1> QED
  BY <1>2, FsInvHolds, PTL

\* block_bitmap marks the blocks of the inodes there are and no others, and no
\* two inodes share one, after any calls that create, extend and remove.
THEOREM BlocksAgreeHolds ==
    ASSUME FsBounds
    PROVE  DirsSpec => []BlocksAgree
<1>1. ASSUME FsInv
      PROVE  BlocksAgree
  <2>1. Layout(part) /\ \A no : Inode(part, no) = part.disk[no]
    BY <1>1, InvParts
  <2>2. IsPart(part) /\ part.inodes \subseteq Inodes /\ part.blocks \subseteq DataBlocks
    BY <2>1 DEF Layout, IsPart
  <2>3. ASSUME NEW no \in part.inodes
        PROVE  BlocksOf(part, no) = {Sec(part, no, k) : k \in Idx} \ {Nil}
    BY <2>1, <2>2, <2>3, FreedIs DEF Layout
  <2>4. ASSUME NEW no \in part.inodes, NEW k \in Idx
        PROVE  Sec(part, no, k) \in DataBlocks \cup {Nil}
    BY <2>2, <2>4, EntryTyped, Sizes
  <2>5. \A b \in part.blocks : \E no \in part.inodes, k \in Idx : Sec(part, no, k) = b
    BY <2>1, <2>2 DEF Layout
  <2>6. ASSUME NEW no \in part.inodes, NEW k \in Idx, Sec(part, no, k) # Nil
        PROVE  Sec(part, no, k) \in part.blocks
    BY <2>1, <2>4, <2>6 DEF Layout
  <2>7. part.blocks = UNION {BlocksOf(part, no) : no \in part.inodes}
    <3>1. ASSUME NEW b \in part.blocks
          PROVE  b \in UNION {BlocksOf(part, no) : no \in part.inodes}
      <4>1. PICK no \in part.inodes, k \in Idx : Sec(part, no, k) = b
        BY <2>5
      <4>2. b \in BlocksOf(part, no)
        BY <2>2, <2>3, <4>1, Sizes
      <4> QED
        BY <4>2
    <3>2. ASSUME NEW no \in part.inodes, NEW b \in BlocksOf(part, no)
          PROVE  b \in part.blocks
      BY <2>3, <2>6
    <3> QED
      BY <3>1, <3>2
  <2>8. ASSUME NEW no \in part.inodes, NEW m \in part.inodes, no # m
        PROVE  BlocksOf(part, no) \cap BlocksOf(part, m) = {}
    <3>1. SUFFICES ASSUME NEW b, b \in BlocksOf(part, no), b \in BlocksOf(part, m)
                   PROVE  FALSE
      OBVIOUS
    <3>2. PICK j \in Idx : Sec(part, no, j) = b /\ b # Nil
      BY <2>3, <3>1
    <3>3. PICK k \in Idx : Sec(part, m, k) = b
      BY <2>3, <3>1
    <3> QED
      BY <2>1, <2>8, <3>2, <3>3 DEF Layout
  <2> QED
    BY <2>7, <2>8 DEF BlocksAgree
<1>2. FsInv => BlocksAgree
  BY <1>1
<1> QED
  BY <1>2, FsInvHolds, PTL

\* The partition is a tree of names that changes at one path at a time: a step
\* makes one name under a directory that exists, removes one file or one empty
\* directory, or changes no path at all.
THEOREM FsImplementsNames ==
    ASSUME FsBounds
    PROVE  DirsSpec => ImplementsNames
<1>1. DirsInit => Tree!TreeInit
  BY DEF DirsInit, FsInit, Tree!TreeInit
<1>2. FsInv /\ [DirsNext]_dirVars => [Tree!TreeNext]_names
  BY NextInv DEF TreeStep, Tree!TreeNext
<1> QED
  BY <1>1, <1>2, FsInvHolds, PTL DEF DirsSpec, ImplementsNames, Tree!TreeSpec

-----------------------------------------------------------------------------
(* The directories and the names of an inode.                              *)

LEMMA DirsAre ==
    ASSUME FsInv
    PROVE  Dirs = {d \in part.inodes : IsDir(part, d)}
<1> DEFINE D == {d \in part.inodes : IsDir(part, d)}
<1>1. Readable(part) /\ Reached(part) /\ Root \in part.inodes /\ IsDir(part, Root)
  BY InvParts DEF PartFits, NamesFit
<1>2. ASSUME NEW path \in DirPaths, SearchFile(part, path).type = "directory"
      PROVE  SearchFile(part, path).no \in D
  <2>1. path \in Seq(Names)
    BY PathsOfNames
  <2>2. AtFits(part, path, SearchFile(part, path))
    BY <1>1, <2>1, SearchFits
  <2> QED
    BY <1>2, <2>2 DEF AtFits
<1>3. ASSUME NEW d \in D
      PROVE  d \in Dirs
  <2>1. PICK path \in DirPaths \cup {<<>>} : LeadsToDir(part, path, d)
    BY <1>1 DEF Reached
  <2>2. CASE path \in DirPaths
    BY <2>1, <2>2 DEF Dirs, LeadsToDir
  <2>3. CASE path = <<>>
    <3>1. SearchFile(part, <<>>) = AtRoot
      BY SearchRoot
    <3>2. d = Root
      BY <2>1, <2>3, <3>1 DEF LeadsToDir, AtRoot
    <3> QED
      BY <3>2 DEF Dirs
  <2> QED
    BY <2>2, <2>3
<1>4. Dirs \subseteq D
  BY <1>1, <1>2 DEF Dirs
<1> QED
  BY <1>3, <1>4

\* What an inode is called, entry by entry.
LEMMA NamedIs ==
    ASSUME FsInv, NEW no
    PROVE  Named(no) =
              {z \in part.inodes \X (Idx \X Cells) :
                  /\ IsNamed(part, z[1], z[2][1], z[2][2])
                  /\ E(part, z[1], z[2][1], z[2][2]).no = no}
<1> DEFINE Z == {z \in part.inodes \X (Idx \X Cells) :
                    /\ IsNamed(part, z[1], z[2][1], z[2][2])
                    /\ E(part, z[1], z[2][1], z[2][2]).no = no}
<1>1. Layout(part) /\ SizesFit(part) /\ IsPart(part) /\ \A m : Inode(part, m) = part.disk[m]
  BY InvParts DEF PartFits
<1>2. part.inodes \subseteq Inodes
  BY <1>1 DEF IsPart
<1>3. Dirs = {d \in part.inodes : IsDir(part, d)}
  BY DirsAre
<1>4. ASSUME NEW d \in part.inodes
      PROVE  /\ Filled(part, d) = FilledAt(part, d)
             /\ \A at \in FilledAt(part, d) : EntryAt(part, d, at) = E(part, d, at[1], at[2])
  <2>1. Sec(part, d, Direct) = Nil /\ d \in Inodes
    BY <1>1, <1>2, <1>4 DEF Layout
  <2> QED
    BY <1>1, <2>1, FilledIs
<1>5. ASSUME NEW d \in part.inodes, NEW k \in Idx, NEW c \in Cells
      PROVE  /\ IsNamed(part, d, k, c) <=>
                   E(part, d, k, c) # NoEntry /\ E(part, d, k, c).name \notin {".", ".."}
             /\ IsNamed(part, d, k, c) => IsDir(part, d)
  <2>1. E(part, d, k, c) \in EntryType
    BY <1>1, <1>2, <1>5, EntryTyped
  <2>2. IsNamed(part, d, k, c) <=>
           E(part, d, k, c) # NoEntry /\ E(part, d, k, c).name \notin {".", ".."}
    BY <2>1, EntryKinds, NoDots DEF IsNamed
  <2> QED
    BY <1>1, <2>2, <1>5 DEF SizesFit
<1>6. ASSUME NEW z, z \in Named(no)
      PROVE  z \in Z
  <2>1. PICK d \in Dirs : z \in {<<d, at>> : at \in {x \in Filled(part, d) :
                EntryAt(part, d, x).no = no /\ EntryAt(part, d, x).name \notin {".", ".."}}}
    BY <1>6 DEF Named
  <2>2. PICK at \in Filled(part, d) :
             /\ EntryAt(part, d, at).no = no /\ EntryAt(part, d, at).name \notin {".", ".."}
             /\ z = <<d, at>>
    BY <2>1
  <2>3. d \in part.inodes
    BY <1>3
  <2>4. /\ at[1] \in Idx /\ at[2] \in Cells /\ at \in Idx \X Cells
        /\ E(part, d, at[1], at[2]) # NoEntry
        /\ EntryAt(part, d, at) = E(part, d, at[1], at[2])
    BY <1>4, <2>2, <2>3 DEF FilledAt
  <2>5. IsNamed(part, d, at[1], at[2]) /\ E(part, d, at[1], at[2]).no = no
    BY <1>5, <2>2, <2>3, <2>4
  <2>6. z \in part.inodes \X (Idx \X Cells) /\ z[1] = d /\ z[2] = at
    BY <2>2, <2>3, <2>4
  <2> QED
    BY <2>5, <2>6
<1>7. ASSUME NEW z \in Z
      PROVE  z \in Named(no)
  <2> DEFINE d == z[1]
             at == z[2]
  <2>1. /\ z = <<d, at>> /\ d \in part.inodes /\ at \in Idx \X Cells
        /\ at[1] \in Idx /\ at[2] \in Cells /\ at = <<at[1], at[2]>>
        /\ IsNamed(part, d, at[1], at[2]) /\ E(part, d, at[1], at[2]).no = no
    OBVIOUS
  <2> HIDE DEF d, at
  <2>2. /\ IsDir(part, d) /\ E(part, d, at[1], at[2]) # NoEntry
        /\ E(part, d, at[1], at[2]).name \notin {".", ".."}
    BY <1>5, <2>1
  <2>3. d \in Dirs
    BY <1>3, <2>1, <2>2
  <2>4. at \in FilledAt(part, d)
    BY <2>1, <2>2 DEF FilledAt
  <2>5. /\ at \in Filled(part, d) /\ EntryAt(part, d, at).no = no
        /\ EntryAt(part, d, at).name \notin {".", ".."}
    BY <1>4, <2>1, <2>2, <2>4
  <2> QED
    BY <2>1, <2>3, <2>5 DEF Named
<1> QED
  BY <1>6, <1>7

\* inode_bitmap marks the inodes that have a name, each of which has one, and "."
\* and ".." of each directory lead where they should, whatever was made and
\* removed before.
THEOREM NamesAgreeHolds ==
    ASSUME FsBounds
    PROVE  DirsSpec => []NamesAgree
<1>1. ASSUME FsInv
      PROVE  NamesAgree
  <2>1. Layout(part) /\ Cached(part) /\ NamesFit(part)
    BY <1>1, InvParts DEF PartFits
  <2>2. Dirs = {d \in part.inodes : IsDir(part, d)}
    BY <1>1, DirsAre
  <2>3. ASSUME NEW no \in Inodes \ {Root}
        PROVE  Cardinality(Named(no)) = IF no \in part.inodes THEN 1 ELSE 0
    <3> DEFINE Z == {z \in part.inodes \X (Idx \X Cells) :
                        /\ IsNamed(part, z[1], z[2][1], z[2][2])
                        /\ E(part, z[1], z[2][1], z[2][2]).no = no}
    <3>1. Named(no) = Z
      BY <1>1, NamedIs
    <3>2. CASE no \notin part.inodes
      <4>1. ASSUME NEW z \in Z PROVE FALSE
        <5>1. /\ z[1] \in part.inodes /\ z[2][1] \in Idx /\ z[2][2] \in Cells
              /\ IsNamed(part, z[1], z[2][1], z[2][2])
              /\ E(part, z[1], z[2][1], z[2][2]).no = no
          OBVIOUS
        <5> QED
          BY <2>1, <3>2, <5>1, NameLeads
      <4>2. Z = {}
        BY <4>1
      <4> QED
        BY <3>1, <3>2, <4>2, FS_EmptySet
    <3>3. CASE no \in part.inodes
      <4>1. PICK d \in part.inodes, k \in Idx, c \in Cells :
                IsNamed(part, d, k, c) /\ E(part, d, k, c).no = no
        BY <2>1, <2>3, <3>3 DEF NamesFit
      <4> DEFINE y == <<d, <<k, c>>>>
      <4>2. y \in Z
        BY <4>1
      <4>3. ASSUME NEW z \in Z PROVE z = y
        <5>1. /\ z[1] \in part.inodes /\ z[2][1] \in Idx /\ z[2][2] \in Cells
              /\ IsNamed(part, z[1], z[2][1], z[2][2])
              /\ E(part, z[1], z[2][1], z[2][2]).no = no
              /\ z = <<z[1], <<z[2][1], z[2][2]>>>>
          OBVIOUS
        <5>2. z[1] = d /\ z[2][1] = k /\ z[2][2] = c
          BY <2>1, <4>1, <5>1, NameOnce
        <5> QED
          BY <5>1, <5>2
      <4> HIDE DEF Z, y
      <4>4. Z = {y}
        BY <4>2, <4>3
      <4> QED
        BY <3>1, <3>3, <4>4, FS_Singleton
    <3> QED
      BY <3>2, <3>3
  <2>4. ASSUME NEW d \in Dirs
        PROVE  Search(part, d, ".").no = d
    <3>1. d \in part.inodes /\ E(part, d, 0, 0) = Entry(".", d, "directory")
      BY <2>1, <2>2 DEF NamesFit
    <3>2. E(part, d, 0, 0).name = "." /\ E(part, d, 0, 0).no = d
      BY <3>1 DEF Entry
    <3>3. \E k \in Idx, c \in Cells :
             E(part, d, k, c).name = "." /\ Search(part, d, ".") = E(part, d, k, c)
      BY <2>1, <3>1, <3>2, SearchIs, Sizes
    <3>4. Search(part, d, ".") = E(part, d, 0, 0)
      BY <2>1, <3>1, <3>3 DEF NamesFit
    <3> QED
      BY <3>2, <3>4
  <2>5. ASSUME NEW d \in Dirs \ {Root}
        PROVE  \E place \in Named(d) : Search(part, d, "..").no = place[1]
    <3>1. d \in part.inodes \ {Root} /\ IsDir(part, d) /\ E(part, d, 0, 1).name = ".."
      BY <2>1, <2>2 DEF NamesFit
    <3>2. \E k \in Idx, c \in Cells :
             E(part, d, k, c).name = ".." /\ Search(part, d, "..") = E(part, d, k, c)
      BY <2>1, <3>1, SearchIs, Sizes
    <3>3. Search(part, d, "..") = E(part, d, 0, 1)
      BY <2>1, <3>1, <3>2 DEF NamesFit
    <3>4. PICK f \in part.inodes, k \in Idx, c \in Cells :
              IsNamed(part, f, k, c) /\ E(part, f, k, c).no = d
      BY <2>1, <3>1 DEF NamesFit
    <3>5. E(part, d, 0, 1).no = f
      BY <2>1, <3>1, <3>4, NameLeads
    <3> DEFINE place == <<f, <<k, c>>>>
    <3>6. place \in Named(d) /\ place[1] = f
      <4>1. Named(d) = {z \in part.inodes \X (Idx \X Cells) :
                        /\ IsNamed(part, z[1], z[2][1], z[2][2])
                        /\ E(part, z[1], z[2][1], z[2][2]).no = d}
        BY <1>1, NamedIs
      <4> QED
        BY <3>4, <4>1
    <3> HIDE DEF place
    <3> QED
      BY <3>3, <3>5, <3>6
  <2> QED
    BY <2>3, <2>4, <2>5 DEF NamesAgree
<1>2. FsInv => NamesAgree
  BY <1>1
<1> QED
  BY <1>2, FsInvHolds, PTL

-----------------------------------------------------------------------------
(* dir_read, call after call.                                              *)

\* The place x comes before the place y.
Earlier(x, y) == x[1] < y[1] \/ (x[1] = y[1] /\ x[2] < y[2])
Rank(F, at) == Cardinality({x \in F : Earlier(x, at)})

\* How many places come before a place tells the places apart, and takes each value.
LEMMA Ranks ==
    ASSUME NEW F, IsFiniteSet(F), F \subseteq Nat \X Nat
    PROVE  /\ Cardinality(F) \in Nat
           /\ \A x \in F : Rank(F, x) \in Nat /\ Rank(F, x) < Cardinality(F)
           /\ \A x, y \in F : Rank(F, x) = Rank(F, y) => x = y
           /\ \A n \in Nat : n < Cardinality(F) => \E x \in F : Rank(F, x) = n
<1> DEFINE before(x) == {y \in F : Earlier(y, x)}
           N == Cardinality(F)
           T == 0..N - 1
           f == [x \in F |-> Rank(F, x)]
<1>1. N \in Nat
  BY FS_CardinalityType
<1>2. \A x \in F : x[1] \in Nat /\ x[2] \in Nat /\ x = <<x[1], x[2]>>
  OBVIOUS
<1>3. ASSUME NEW x \in F
      PROVE  /\ IsFiniteSet(before(x)) /\ Cardinality(before(x)) \in Nat
             /\ x \notin before(x) /\ Cardinality(before(x)) < N
  <2>1. before(x) \subseteq F /\ x \notin before(x)
    BY <1>2 DEF Earlier
  <2> HIDE DEF before
  <2>2. /\ IsFiniteSet(before(x)) /\ Cardinality(before(x)) <= N
        /\ N = Cardinality(before(x)) => F = before(x)
    BY <2>1, FS_Subset
  <2>3. Cardinality(before(x)) \in Nat
    BY <2>2, FS_CardinalityType
  <2> QED
    BY <1>1, <2>1, <2>2, <2>3
<1>4. ASSUME NEW x \in F, NEW y \in F, Earlier(x, y)
      PROVE  Cardinality(before(x)) < Cardinality(before(y))
  <2>1. before(x) \subseteq before(y)
    <3>1. ASSUME NEW z \in F, Earlier(z, x)
          PROVE  Earlier(z, y)
      BY <1>2, <1>4, <3>1 DEF Earlier
    <3> QED
      BY <3>1
  <2>2. x \in before(y) /\ x \notin before(x)
    BY <1>3, <1>4
  <2>3. IsFiniteSet(before(y)) /\ Cardinality(before(y)) \in Nat /\ Cardinality(before(x)) \in Nat
    BY <1>3
  <2> HIDE DEF before
  <2>4. /\ Cardinality(before(x)) <= Cardinality(before(y))
        /\ Cardinality(before(y)) = Cardinality(before(x)) => before(y) = before(x)
    BY <2>1, <2>3, FS_Subset
  <2> QED
    BY <2>2, <2>3, <2>4
<1>5. \A x \in F : Rank(F, x) = Cardinality(before(x))
  BY DEF Rank
<1> HIDE DEF before
<1>6. \A x \in F : Rank(F, x) \in Nat /\ Rank(F, x) < N
  BY <1>3, <1>5
<1>7. ASSUME NEW x \in F, NEW y \in F, Rank(F, x) = Rank(F, y)
      PROVE  x = y
  <2>1. SUFFICES ASSUME x # y PROVE FALSE
    OBVIOUS
  <2>2. Earlier(x, y) \/ Earlier(y, x)
    BY <1>2, <2>1 DEF Earlier
  <2> QED
    BY <1>3, <1>4, <1>5, <1>7, <2>2
<1>8. f \in Injection(F, T)
  <2>1. f \in [F -> T]
    BY <1>1, <1>6
  <2>2. IsInjective(f)
    BY <1>7 DEF IsInjective
  <2> QED
    BY <2>1, <2>2 DEF Injection
<1>9. IsFiniteSet(T) /\ Cardinality(T) = N
  <2>1. 0 \in Int /\ N - 1 \in Int
    BY <1>1
  <2>2. /\ IsFiniteSet(0..N - 1)
        /\ Cardinality(0..N - 1) = IF 0 > N - 1 THEN 0 ELSE N - 1 - 0 + 1
    BY <2>1, FS_Interval
  <2> HIDE DEF N
  <2> QED
    BY <1>1, <2>2
<1>10. f \in Surjection(F, T)
  <2> HIDE DEF f, T
  <2> QED
    BY <1>8, <1>9, FS_Injection
<1>11. ASSUME NEW n \in Nat, n < N
       PROVE  \E x \in F : Rank(F, x) = n
  <2>1. n \in T
    BY <1>1, <1>11
  <2>2. \E x \in F : f[x] = n
    BY <1>10, <2>1 DEF Surjection
  <2> QED
    BY <2>2
<1> QED
  BY <1>1, <1>6, <1>7, <1>11

\* What dir_read returns for each dir_pos.
LEMMA DirReadIs ==
    ASSUME NEW p, IsPart(p), NEW d \in Inodes, Inode(p, d) = p.disk[d],
           Sec(p, d, Direct) = Nil, p.disk[d].size = Cardinality(FilledAt(p, d)), NEW n
    PROVE  DirRead(p, d, n) =
              {EntryAt(p, d, at) : at \in
                  {x \in FilledAt(p, d) :
                      n < Cardinality(FilledAt(p, d)) /\ Rank(FilledAt(p, d), x) = n}}
<1>1. Filled(p, d) = FilledAt(p, d)
  BY FilledIs
<1> QED
  BY <1>1 DEF DirRead, Rank, Earlier

\* sys_readdir, called until it returns NULL, has returned each entry of the
\* directory once, whatever holes removals have left.
THEOREM ListingAgreesHolds ==
    ASSUME FsBounds
    PROVE  DirsSpec => []ListingAgrees
<1>1. ASSUME FsInv, NEW d \in Dirs
      PROVE  LET all == {EntryAt(part, d, at) : at \in Filled(part, d)} IN
             /\ all = UNION {DirRead(part, d, n) : n \in 0..Inode(part, d).size - 1}
             /\ \A n \in 0..Inode(part, d).size : Cardinality(DirRead(part, d, n)) =
                     IF n < Inode(part, d).size THEN 1 ELSE 0
  <2> DEFINE F == FilledAt(part, d)
             N == Cardinality(F)
  <2>1. /\ IsPart(part) /\ Layout(part) /\ SizesFit(part)
        /\ \A no : Inode(part, no) = part.disk[no]
    BY <1>1, InvParts DEF PartFits
  <2>2. d \in part.inodes /\ IsDir(part, d)
    BY <1>1, DirsAre
  <2>3. d \in Inodes /\ Sec(part, d, Direct) = Nil /\ part.disk[d].size = N
    BY <2>1, <2>2 DEF Layout, IsPart, SizesFit
  <2>4. Filled(part, d) = F /\ Inode(part, d).size = N
    BY <2>1, <2>3, FilledIs
  <2>5. \A n : DirRead(part, d, n) =
           {EntryAt(part, d, at) : at \in {x \in F : n < N /\ Rank(F, x) = n}}
    BY <2>1, <2>3, DirReadIs
  <2>6. IsFiniteSet(F) /\ F \subseteq Nat \X Nat
    <3>1. Idx \subseteq Nat /\ Cells \subseteq Nat
      BY Sizes
    <3> QED
      BY <3>1, FilledFinite DEF FilledAt
  <2> HIDE DEF F
  <2>7. /\ N \in Nat
        /\ \A x \in F : Rank(F, x) \in Nat /\ Rank(F, x) < N
        /\ \A x, y \in F : Rank(F, x) = Rank(F, y) => x = y
        /\ \A n \in Nat : n < N => \E x \in F : Rank(F, x) = n
    BY <2>6, Ranks
  <2> HIDE DEF N
  <2>8. {EntryAt(part, d, at) : at \in F} = UNION {DirRead(part, d, n) : n \in 0..N - 1}
    <3>1. ASSUME NEW x \in F
          PROVE  \E n \in 0..N - 1 : EntryAt(part, d, x) \in DirRead(part, d, n)
      <4>1. Rank(F, x) \in 0..N - 1 /\ Rank(F, x) < N
        BY <2>7
      <4>2. EntryAt(part, d, x) \in DirRead(part, d, Rank(F, x))
        BY <2>5, <4>1
      <4> QED
        BY <4>1, <4>2
    <3>2. ASSUME NEW n \in 0..N - 1, NEW z \in DirRead(part, d, n)
          PROVE  z \in {EntryAt(part, d, at) : at \in F}
      BY <2>5, <3>2
    <3> QED
      BY <3>1, <3>2
  <2>9. ASSUME NEW n \in 0..N
        PROVE  Cardinality(DirRead(part, d, n)) = IF n < N THEN 1 ELSE 0
    <3>1. CASE n < N
      <4>1. PICK x \in F : Rank(F, x) = n
        BY <2>7, <2>9, <3>1
      <4>2. {y \in F : n < N /\ Rank(F, y) = n} = {x}
        BY <2>7, <3>1, <4>1
      <4>3. DirRead(part, d, n) = {EntryAt(part, d, x)}
        BY <2>5, <4>2
      <4> QED
        BY <3>1, <4>3, FS_Singleton
    <3>2. CASE ~(n < N)
      <4>1. DirRead(part, d, n) = {}
        BY <2>5, <3>2
      <4> QED
        BY <3>2, <4>1, FS_EmptySet
    <3> QED
      BY <3>1, <3>2
  <2> QED
    BY <2>4, <2>8, <2>9
<1>2. FsInv => ListingAgrees
  BY <1>1 DEF ListingAgrees
<1> QED
  BY <1>2, FsInvHolds, PTL

-----------------------------------------------------------------------------
(* sys_getcwd.                                                             *)

AtCwd == [no |-> cwd, paths |-> {<<>>}]
UpStep(n, f) == [i \in 0..n |-> IF i = 0 THEN AtCwd ELSE Up(f[i - 1])]

LEMMA UpExists ==
    ASSUME NEW n \in Nat
    PROVE  \E f : f = UpStep(n, f)
<1> DEFINE T == {m \in Nat : ~ \E f : f = UpStep(m, f)}
<1>1. SUFFICES ASSUME T # {} PROVE FALSE
  OBVIOUS
<1>2. PICK m \in T : \A k \in T : m <= k
  <2>1. T \subseteq Nat
    OBVIOUS
  <2> QED
    BY <1>1, <2>1, LeastNat
<1>3. m \in Nat /\ ~ \E f : f = UpStep(m, f)
  OBVIOUS
<1>4. CASE m = 0
  <2> DEFINE f == [i \in 0..0 |-> AtCwd]
  <2>1. f = UpStep(0, f)
    BY DEF UpStep
  <2> QED
    BY <1>3, <1>4, <2>1
<1>5. CASE m # 0
  <2>1. m - 1 \in Nat /\ ~(m <= m - 1)
    BY <1>3, <1>5
  <2>2. PICK f : f = UpStep(m - 1, f)
    BY <1>2, <2>1
  <2> DEFINE g == [i \in 0..m |-> IF i = m THEN Up(f[m - 1]) ELSE f[i]]
  <2>3. \A i \in 0..m - 1 : f[i] = IF i = 0 THEN AtCwd ELSE Up(f[i - 1])
    BY <2>2 DEF UpStep
  <2>4. \A i \in 0..m - 1 : g[i] = f[i]
    BY <1>3
  <2>5. g[m] = Up(f[m - 1])
    BY <1>3
  <2>6. \A i \in 0..m : g[i] = IF i = 0 THEN AtCwd ELSE Up(g[i - 1])
    <3> TAKE i \in 0..m
    <3>1. CASE i = m
      BY <1>3, <1>5, <2>1, <2>4, <2>5, <3>1
    <3>2. CASE i # m
      <4>1. i \in 0..m - 1 /\ (i # 0 => i - 1 \in 0..m - 1)
        BY <1>3, <3>2
      <4> HIDE DEF g
      <4> QED
        BY <2>3, <2>4, <4>1
    <3> QED
      BY <3>1, <3>2
  <2>7. g = UpStep(m, g)
    <3>1. g = [i \in 0..m |-> g[i]]
      OBVIOUS
    <3> HIDE DEF g
    <3> QED
      BY <2>6, <3>1 DEF UpStep
  <2> QED
    BY <1>3, <2>7
<1> QED
  BY <1>4, <1>5

LEMMA GetcwdWalk ==
    \E f : /\ f[0] = AtCwd
           /\ \A i \in 1..InodeCount : f[i] = Up(f[i - 1])
           /\ Getcwd = f[InodeCount]
<1> DEFINE N == InodeCount
           f == CHOOSE g : g = UpStep(N, g)
<1>1. N \in Nat
  BY Sizes
<1>2. f = UpStep(N, f)
  BY <1>1, UpExists
<1>3. Getcwd = f[N]
  BY DEF Getcwd, UpStep, AtCwd
<1> HIDE DEF f
<1>4. \A i \in 0..N : f[i] = IF i = 0 THEN AtCwd ELSE Up(f[i - 1])
  BY <1>2 DEF UpStep
<1>5. f[0] = AtCwd
  BY <1>1, <1>4
<1>6. \A i \in 1..N : f[i] = Up(f[i - 1])
  BY <1>1, <1>4
<1> QED
  BY <1>3, <1>5, <1>6

\* The directory in which a directory has its name, and its ".." entry.
LEMMA DirAbove ==
    ASSUME NEW p, Readable(p), NEW path \in Seq(Names), path # <<>>, NEW d,
           LeadsToDir(p, path, d)
    PROVE  \E f \in p.inodes, k \in Idx, c \in Cells :
              /\ LeadsToDir(p, Front(path), f) /\ IsDir(p, f)
              /\ E(p, f, k, c) = Entry(Last(path), d, "directory")
              /\ IsNamed(p, f, k, c) /\ E(p, d, 0, 1).no = f
<1> DEFINE at == SearchFile(p, path)
           f == at.parent
<1>1. Leads(p, path) /\ at.no = d /\ at.type = "directory" /\ d \in p.inodes /\ IsDir(p, d)
  BY DirLeads DEF LeadsToDir
<1>2. LeadsToDir(p, Front(path), f) /\ OneFurther(p, f, Last(path), at)
  BY <1>1, SearchWhole DEF Leads
<1>3. Front(path) \in Seq(Names) /\ Last(path) \in Names
  BY FrontFacts
<1> HIDE DEF at
<1>4. PICK k \in Idx, c \in Cells : E(p, f, k, c) = Entry(Last(path), d, "directory")
  BY <1>1, <1>2 DEF OneFurther
<1>5. f \in p.inodes /\ IsDir(p, f)
  BY <1>2, <1>3, DirLeads
<1>6. E(p, f, k, c).name = Last(path) /\ E(p, f, k, c).no = d
  BY <1>4 DEF Entry
<1>7. IsNamed(p, f, k, c)
  BY <1>3, <1>6 DEF IsNamed
<1>8. E(p, d, 0, 1).no = f
  BY <1>1, <1>5, <1>6, <1>7, NameLeads DEF Readable
<1> QED
  BY <1>2, <1>4, <1>5, <1>7, <1>8

\* sys_getcwd finds the parent and, of its entries, one with the inode number: "."
\* and ".." of the parent have other ones.
LEMMA UpOne ==
    ASSUME FsInv, NEW path \in Seq(Names), path # <<>>, NEW d, LeadsToDir(part, path, d)
    PROVE  \E f : /\ LeadsToDir(part, Front(path), f) /\ d # Root
                  /\ ParentDir(d) = f /\ ChildDirName(f, d) = {Last(path)}
<1>1. /\ Readable(part) /\ IsPart(part) /\ Layout(part) /\ NamesFit(part)
      /\ part.inodes \subseteq Inodes /\ \A no : Inode(part, no) = part.disk[no]
  BY InvParts DEF PartFits
<1>2. /\ Leads(part, path) /\ SearchFile(part, path).no = d
      /\ d \in part.inodes /\ IsDir(part, d)
  BY <1>1, DirLeads
<1>3. d # Root
  BY <1>1, <1>2, RootPath
<1>4. PICK f \in part.inodes, k \in Idx, c \in Cells :
          /\ LeadsToDir(part, Front(path), f) /\ IsDir(part, f)
          /\ E(part, f, k, c) = Entry(Last(path), d, "directory")
          /\ IsNamed(part, f, k, c) /\ E(part, d, 0, 1).no = f
  BY <1>1, DirAbove
<1>5. /\ Front(path) \in Seq(Names) /\ Len(Front(path)) = Len(path) - 1
      /\ Last(path) \in Names /\ Len(path) \in Nat \ {0}
  BY FrontFacts
<1>6. Leads(part, Front(path)) /\ SearchFile(part, Front(path)).no = f
  BY <1>1, <1>4, <1>5, DirLeads
<1>7. f # d
  <2>1. SUFFICES ASSUME f = d PROVE FALSE
    OBVIOUS
  <2>2. Front(path) = path
    BY <1>1, <1>2, <1>5, <1>6, <2>1, PathUnique
  <2> QED
    BY <1>5, <2>2
<1>8. E(part, f, 0, 1).no # d
  <2>1. CASE Front(path) = <<>>
    <3>1. f = Root
      BY <1>1, <1>5, <1>6, <2>1, RootPath
    <3> QED
      BY <1>1, <1>3, <3>1 DEF NamesFit
  <2>2. CASE Front(path) # <<>>
    <3> DEFINE up == Front(path)
    <3>1. PICK g \in part.inodes : LeadsToDir(part, Front(up), g) /\ E(part, f, 0, 1).no = g
      <4>1. up \in Seq(Names) /\ up # <<>> /\ LeadsToDir(part, up, f)
        BY <1>4, <1>5, <2>2
      <4> HIDE DEF up
      <4> QED
        BY <1>1, <4>1, DirAbove
    <3>2. Front(up) \in Seq(Names) /\ Len(Front(up)) = Len(up) - 1
      BY <1>5, <2>2, FrontFacts
    <3>3. Leads(part, Front(up)) /\ SearchFile(part, Front(up)).no = g
      BY <1>1, <3>1, <3>2, DirLeads
    <3>4. ASSUME g = d PROVE FALSE
      <4>1. Front(up) = path
        BY <1>1, <1>2, <3>2, <3>3, <3>4, PathUnique
      <4> QED
        BY <1>5, <3>2, <4>1
    <3> QED
      BY <3>1, <3>4
  <2> QED
    BY <2>1, <2>2
<1>9. ParentDir(d) = f
  <2>1. Sec(part, d, Direct) = Nil /\ d \in Inodes
    BY <1>1, <1>2 DEF Layout
  <2>2. BlockAt(part, d, 0) = Sec(part, d, 0)
    BY <1>1, <2>1, FilledIs, Sizes
  <2>3. E(part, d, 0, 0) # NoEntry
    BY <1>2, NoEntryName DEF IsDir
  <2>4. E(part, d, 0, 1) = part.entries[Sec(part, d, 0)][1]
    BY <2>3 DEF E
  <2> QED
    BY <1>4, <2>2, <2>4 DEF ParentDir
<1>10. /\ Filled(part, f) = FilledAt(part, f)
       /\ \A at \in FilledAt(part, f) : EntryAt(part, f, at) = E(part, f, at[1], at[2])
  <2>1. Sec(part, f, Direct) = Nil /\ f \in Inodes
    BY <1>1, <1>4 DEF Layout
  <2> QED
    BY <1>1, <2>1, FilledIs
<1>11. E(part, f, k, c).name = Last(path) /\ E(part, f, k, c).no = d
       /\ E(part, f, k, c) # NoEntry
  <2>1. E(part, f, k, c).name = Last(path) /\ E(part, f, k, c).no = d
    BY <1>4 DEF Entry
  <2> QED
    BY <1>5, <2>1, NoEntryName
<1>12. ASSUME NEW x \in FilledAt(part, f), E(part, f, x[1], x[2]).no = d
       PROVE  E(part, f, x[1], x[2]).name = Last(path)
  <2>1. x[1] \in Idx /\ x[2] \in Cells /\ E(part, f, x[1], x[2]) # NoEntry
    BY <1>12 DEF FilledAt
  <2>2. E(part, f, x[1], x[2]) \in EntryType
    BY <1>1, <1>4, <2>1, EntryTyped
  <2>3. CASE E(part, f, x[1], x[2]).name \in Names
    <3>1. IsNamed(part, f, x[1], x[2])
      BY <2>3 DEF IsNamed
    <3>2. x[1] = k /\ x[2] = c
      BY <1>1, <1>4, <1>11, <1>12, <2>1, <3>1, NameOnce
    <3> QED
      BY <1>11, <3>2
  <2>4. CASE E(part, f, x[1], x[2]).name = "."
    <3>1. x[1] = 0 /\ x[2] = 0
      BY <1>1, <1>4, <2>1, <2>4 DEF NamesFit
    <3>2. E(part, f, 0, 0).no = f
      BY <1>1, <1>4 DEF NamesFit, Entry
    <3> QED
      BY <1>7, <1>12, <3>1, <3>2
  <2>5. CASE E(part, f, x[1], x[2]).name = ".."
    <3>1. x[1] = 0 /\ x[2] = 1
      BY <1>1, <1>4, <2>1, <2>5 DEF NamesFit
    <3> QED
      BY <1>8, <1>12, <3>1
  <2> QED
    BY <2>1, <2>2, <2>3, <2>4, <2>5, EntryKinds
<1>13. ChildDirName(f, d) = {Last(path)}
  <2>1. ChildDirName(f, d) =
           {EntryAt(part, f, at).name : at \in {x \in FilledAt(part, f) : EntryAt(part, f, x).no = d}}
    BY <1>10 DEF ChildDirName
  <2> DEFINE y == <<k, c>>
  <2>2. y \in FilledAt(part, f) /\ y[1] = k /\ y[2] = c
    BY <1>11 DEF FilledAt
  <2>3. EntryAt(part, f, y).no = d /\ EntryAt(part, f, y).name = Last(path)
    BY <1>10, <1>11, <2>2
  <2> HIDE DEF y
  <2>4. \A x \in FilledAt(part, f) :
           EntryAt(part, f, x).no = d => EntryAt(part, f, x).name = Last(path)
    BY <1>10, <1>12
  <2> QED
    BY <2>1, <2>2, <2>3, <2>4
<1> QED
  BY <1>3, <1>4, <1>9, <1>13

\* The walk of sys_getcwd from the directory that a leads to, after it has met b.
Climbs(whole, a, b, at) ==
    /\ a \in Seq(Names) /\ b \in Seq(Names) /\ a \o b = whole
    /\ LeadsToDir(part, a, at.no) /\ at.paths = {b}

LEMMA ClimbsOne ==
    ASSUME FsInv, NEW whole, NEW a, NEW b, NEW at, Climbs(whole, a, b, at)
    PROVE  /\ Len(a) \in Nat
           /\ a = <<>> => at.no = Root /\ Up(at) = at /\ b = whole
           /\ a # <<>> => /\ Climbs(whole, Front(a), <<Last(a)>> \o b, Up(at))
                          /\ Len(Front(a)) = Len(a) - 1
<1>1. /\ a \in Seq(Names) /\ b \in Seq(Names) /\ a \o b = whole
      /\ LeadsToDir(part, a, at.no) /\ at.paths = {b}
  BY DEF Climbs
<1>2. Len(a) \in Nat
  BY <1>1
<1>3. ASSUME a = <<>>
      PROVE  at.no = Root /\ Up(at) = at /\ b = whole
  <2>1. at.no = Root
    BY <1>1, <1>3, SearchRoot DEF LeadsToDir, AtRoot
  <2>2. b = whole
    BY <1>1, <1>3, ConcatEmptySeq
  <2> QED
    BY <2>1, <2>2 DEF Up
<1>4. ASSUME a # <<>>
      PROVE  /\ Climbs(whole, Front(a), <<Last(a)>> \o b, Up(at))
             /\ Len(Front(a)) = Len(a) - 1
  <2>1. PICK f : /\ LeadsToDir(part, Front(a), f) /\ at.no # Root
                 /\ ParentDir(at.no) = f /\ ChildDirName(f, at.no) = {Last(a)}
    BY <1>1, <1>4, UpOne
  <2>2. /\ Front(a) \in Seq(Names) /\ Len(Front(a)) = Len(a) - 1 /\ Last(a) \in Names
        /\ Last(a) = a[Len(a)] /\ \A i \in 1..Len(a) - 1 : Front(a)[i] = a[i]
        /\ Len(a) \in Nat \ {0}
    BY <1>1, <1>4, FrontFacts
  <2> DEFINE l == <<Last(a)>>
             up == Up(at)
  <2>3. up = [no |-> f, paths |-> {<<name>> \o path : name \in {Last(a)}, path \in {b}}]
    BY <1>1, <2>1 DEF Up
  <2>4. up.no = f /\ up.paths = {l \o b}
    BY <2>3
  <2> HIDE DEF up
  <2>5. l \in Seq(Names) /\ Len(l) = 1 /\ l[1] = Last(a)
    BY <2>2
  <2> HIDE DEF l
  <2>6. l \o b \in Seq(Names)
    BY <1>1, <2>5
  <2>7. Front(a) \o (l \o b) = whole
    <3> DEFINE h == Front(a)
               w == h \o l
    <3>1. h \in Seq(Names) /\ Len(h) = Len(a) - 1 /\ \A i \in 1..Len(a) - 1 : h[i] = a[i]
      BY <2>2
    <3> HIDE DEF h
    <3>2. w \in Seq(Names) /\ Len(w) = Len(h) + Len(l)
      BY <2>5, <3>1, ConcatProperties
    <3>3. \A i \in 1..Len(h) + Len(l) : w[i] = IF i <= Len(h) THEN h[i] ELSE l[i - Len(h)]
      BY <2>5, <3>1, ConcatProperties
    <3> HIDE DEF w
    <3>4. Len(w) = Len(a)
      BY <2>2, <2>5, <3>1, <3>2
    <3>5. ASSUME NEW i \in 1..Len(a)
          PROVE  w[i] = a[i]
      <4>1. CASE i = Len(a)
        BY <2>2, <2>5, <3>1, <3>3, <4>1
      <4>2. CASE i # Len(a)
        BY <2>2, <2>5, <3>1, <3>3, <4>2
      <4> QED
        BY <4>1, <4>2
    <3>6. w = a
      BY <1>1, <3>2, <3>4, <3>5, SeqEqual
    <3>7. (h \o l) \o b = h \o (l \o b)
      <4>1. h \in Seq(Names) /\ l \in Seq(Names) /\ b \in Seq(Names)
        BY <1>1, <2>5, <3>1
      <4> QED
        BY <4>1, ConcatAssociative
    <3> QED
      BY <1>1, <3>6, <3>7 DEF h, w
  <2> QED
    BY <2>1, <2>2, <2>4, <2>6, <2>7 DEF Climbs, l, up
<1> QED
  BY <1>2, <1>3, <1>4

\* sys_getcwd climbs from the working directory to the root and returns the one
\* path that leads back, whatever was made and removed around it.
THEOREM CwdFoundHolds ==
    ASSUME FsBounds
    PROVE  DirsSpec => []CwdFound
<1>1. ASSUME FsInv
      PROVE  CwdFound
  <2>1. /\ Readable(part) /\ Reached(part) /\ cwd \in part.inodes /\ IsDir(part, cwd)
        /\ part.inodes \subseteq Inodes
    BY <1>1, InvParts DEF PartFits, HandlesFit
  <2>2. PICK P \in DirPaths \cup {<<>>} : LeadsToDir(part, P, cwd)
    BY <2>1 DEF Reached
  <2>3. P \in Seq(Names) /\ Len(P) \in Nat
    <3>1. P \in Seq(Names)
      <4>1. CASE P \in DirPaths
        BY <4>1, PathsOfNames
      <4>2. CASE P = <<>>
        BY <4>2
      <4> QED
        BY <4>1, <4>2
    <3> QED
      BY <3>1
  <2>4. PICK f : /\ f[0] = AtCwd
                 /\ \A i \in 1..InodeCount : f[i] = Up(f[i - 1])
                 /\ Getcwd = f[InodeCount]
    BY GetcwdWalk
  <2>5. InodeCount \in Nat \ {0} /\ Cardinality(Inodes) = InodeCount /\ IsFiniteSet(Inodes)
    BY Sizes, FiniteParts
  <2> DEFINE n == Len(P)
             Fits(i, a, b) == /\ Climbs(P, a, b, f[i])
                              /\ Len(a) = IF i <= n THEN n - i ELSE 0
             Good(i) == \E a, b : Fits(i, a, b)
  <2>6. Good(0)
    <3>1. f[0].no = cwd /\ f[0].paths = {<<>>}
      BY <2>4 DEF AtCwd
    <3>2. P \o <<>> = P
      BY <2>3, ConcatEmptySeq
    <3>3. Climbs(P, P, <<>>, f[0])
      BY <2>2, <2>3, <3>1, <3>2 DEF Climbs
    <3> QED
      BY <2>3, <3>3
  <2>7. ASSUME NEW i \in 1..InodeCount, Good(i - 1)
        PROVE  Good(i)
    <3>1. PICK a, b : Fits(i - 1, a, b)
      BY <2>7
    <3>2. /\ Climbs(P, a, b, f[i - 1]) /\ f[i] = Up(f[i - 1])
          /\ Len(a) = IF i - 1 <= n THEN n - (i - 1) ELSE 0
      BY <2>4, <2>7, <3>1
    <3>3. /\ Len(a) \in Nat
          /\ a = <<>> => f[i] = f[i - 1]
          /\ a # <<>> => /\ Climbs(P, Front(a), <<Last(a)>> \o b, f[i])
                         /\ Len(Front(a)) = Len(a) - 1
      <4> DEFINE at == f[i - 1]
      <4>1. Climbs(P, a, b, at)
        BY <3>2
      <4> HIDE DEF at
      <4>2. /\ Len(a) \in Nat
            /\ a = <<>> => at.no = Root /\ Up(at) = at /\ b = P
            /\ a # <<>> => /\ Climbs(P, Front(a), <<Last(a)>> \o b, Up(at))
                           /\ Len(Front(a)) = Len(a) - 1
        BY <1>1, <4>1, ClimbsOne
      <4> QED
        BY <3>2, <4>2 DEF at
    <3>4. CASE a = <<>>
      <4>1. Len(a) = 0
        BY <3>4
      <4>2. Len(a) = IF i <= n THEN n - i ELSE 0
        BY <2>3, <2>5, <3>2, <4>1
      <4>3. Climbs(P, a, b, f[i])
        BY <3>2, <3>3, <3>4
      <4> QED
        BY <4>2, <4>3
    <3>5. CASE a # <<>>
      <4>1. Len(a) # 0
        BY <3>2, <3>5 DEF Climbs
      <4>2. Len(Front(a)) = IF i <= n THEN n - i ELSE 0
        BY <2>3, <2>5, <3>2, <3>3, <3>5, <4>1
      <4> QED
        BY <3>3, <3>5, <4>2
    <3> QED
      BY <3>4, <3>5
  <2> HIDE DEF Good
  <2>8. \A i \in 0..InodeCount : Good(i)
    <3> DEFINE T == {i \in 0..InodeCount : ~Good(i)}
    <3>1. SUFFICES ASSUME T # {} PROVE FALSE
      OBVIOUS
    <3>2. PICK i \in T : \A j \in T : i <= j
      <4>1. T \subseteq Nat
        BY <2>5
      <4> QED
        BY <3>1, <4>1, LeastNat
    <3>3. i # 0 /\ i \in 1..InodeCount /\ i - 1 \in 0..InodeCount /\ ~(i <= i - 1)
      BY <2>5, <2>6, <3>2
    <3>4. Good(i - 1)
      BY <3>2, <3>3
    <3> QED
      BY <2>7, <3>2, <3>3, <3>4
  <2>9. n <= InodeCount
    <3>1. SUFFICES ASSUME n > InodeCount PROVE FALSE
      BY <2>3, <2>5
    <3> DEFINE S == 0..InodeCount
               g == [i \in S |-> f[i].no]
    <3>2. ASSUME NEW i \in S
          PROVE  \E a \in Seq(Names) :
                    /\ Len(a) = n - i /\ Leads(part, a) /\ SearchFile(part, a).no = f[i].no
                    /\ f[i].no \in Inodes
      <4>1. PICK a, b : Fits(i, a, b)
        BY <2>8, <3>2 DEF Good
      <4>2. a \in Seq(Names) /\ LeadsToDir(part, a, f[i].no) /\ Len(a) = n - i
        BY <2>3, <2>5, <3>1, <3>2, <4>1 DEF Climbs
      <4> QED
        BY <2>1, <4>2, DirLeads
    <3>3. ASSUME NEW i \in S, NEW j \in S, f[i].no = f[j].no
          PROVE  i = j
      <4>1. PICK a \in Seq(Names) :
                Len(a) = n - i /\ Leads(part, a) /\ SearchFile(part, a).no = f[i].no
        BY <3>2
      <4>2. PICK b \in Seq(Names) :
                Len(b) = n - j /\ Leads(part, b) /\ SearchFile(part, b).no = f[j].no
        BY <3>2
      <4>3. a = b
        BY <2>1, <3>3, <4>1, <4>2, PathUnique
      <4> QED
        BY <2>3, <2>5, <4>1, <4>2, <4>3
    <3>4. g \in Injection(S, Inodes)
      <4>1. g \in [S -> Inodes]
        BY <3>2
      <4>2. IsInjective(g)
        BY <3>3 DEF IsInjective
      <4> QED
        BY <4>1, <4>2 DEF Injection
    <3>5. Cardinality(S) = InodeCount + 1
      <4>1. 0 \in Int /\ InodeCount \in Int
        BY <2>5
      <4>2. Cardinality(0..InodeCount) = IF 0 > InodeCount THEN 0 ELSE InodeCount - 0 + 1
        BY <4>1, FS_Interval
      <4> QED
        BY <2>5, <4>2
    <3> HIDE DEF S, g
    <3>6. Cardinality(S) <= Cardinality(Inodes)
      BY <2>5, <3>4, FS_Injection
    <3> QED
      BY <2>5, <3>5, <3>6
  <2>10. PICK a, b : Fits(InodeCount, a, b)
    BY <2>5, <2>8 DEF Good
  <2>11. a = <<>> /\ Climbs(P, a, b, Getcwd)
    <3>1. Climbs(P, a, b, Getcwd) /\ Len(a) = 0
      BY <2>3, <2>4, <2>5, <2>9, <2>10
    <3> QED
      BY <3>1 DEF Climbs
  <2>12. Getcwd.no = Root /\ b = P /\ Getcwd.paths = {P}
    <3> DEFINE at == Getcwd
    <3>1. Climbs(P, a, b, at) /\ a = <<>>
      BY <2>11
    <3> HIDE DEF at
    <3>2. at.no = Root /\ b = P
      BY <1>1, <3>1, ClimbsOne
    <3> QED
      BY <3>1, <3>2 DEF Climbs, at
  <2>13. SearchFile(part, P).no = cwd /\ SearchFile(part, P).depth = Len(P)
    BY <2>1, <2>2, <2>3, DirLeads DEF Leads
  <2> QED
    BY <2>12, <2>13 DEF CwdFound
<1>2. FsInv => CwdFound
  BY <1>1
<1> QED
  BY <1>2, FsInvHolds, PTL
=============================================================================
