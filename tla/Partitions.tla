----------------------------- MODULE Partitions -----------------------------
(***************************************************************************)
(* From the partition tables of the disk sdb to the mounted partition:     *)
(* partition_scan (device/ide.c), partition_format, mount_partition and    *)
(* filesys_init (fs/fs.c).  main runs them once, at the start.  A sector   *)
(* of the disk is written as what it holds.                                *)
(***************************************************************************)
EXTENDS FiniteSetsExt, SequencesExt, Integers

CONSTANTS
    Layouts,            \* disks: the tables, by sector, their volumes, and the size
    PrimMax, LogicMax,  \* prim_parts: 4, logic_parts: 8
    ByteBits,           \* bits in a byte: 8
    SectorBytes,        \* SECTOR_SIZE: 512
    InodeMapSects,      \* sectors of the inode bitmap: 1
    InodeSects          \* sectors of the inode table: 4096 inodes of 76 bytes

ASSUME PartitionsAssumption ==
    /\ PrimMax \in Nat \ {0} /\ LogicMax \in Nat \ {0}
    /\ ByteBits \in Nat \ {0} /\ SectorBytes \in Nat \ {0}
    /\ InodeMapSects \in Nat \ {0} /\ InodeSects \in Nat \ {0}

VARIABLES
    layout,         \* the disk as it was found
    stack,          \* the calls of partition_scan: sector of the table, next entry
    ext_lba_base,
    prim, logic,    \* prim_parts and logic_parts as far as they are filled
    partition_list,
    part_idx,       \* of filesys_init
    sector,         \* what each sector of the disk holds
    cur_part,       \* the mounted partition, or None
    boot            \* "scan", "format", "mount", "done", or the failure

bootVars == <<layout, stack, ext_lba_base, prim, logic, partition_list, part_idx,
              sector, cur_part, boot>>

NoPart == [start |-> -1, count |-> 0]
SectorBits == ByteBits * SectorBytes
RoundUp(n, unit) == (n + unit - 1) \div unit         \* DIV_ROUND_UP

BootInit ==
    /\ layout \in Layouts
    /\ stack = <<[lba |-> 0, next |-> 1]>>
    /\ ext_lba_base = 0
    /\ prim = <<>> /\ logic = <<>> /\ partition_list = <<>>
    /\ part_idx = 0
    /\ sector = [lba \in 0..layout.size - 1 |->
                   IF lba \in DOMAIN layout.tables THEN "table" ELSE "other"]
    /\ cur_part = NoPart
    /\ boot = "scan"

-----------------------------------------------------------------------------
Top == Last(stack)
MoreEntries == boot = "scan" /\ stack # <<>> /\ Top.next <= Len(layout.tables[Top.lba])
TheEntry == layout.tables[Top.lba][Top.next]
Advanced == [stack EXCEPT ![Len(stack)].next = @ + 1]

Skip ==
    /\ MoreEntries /\ TheEntry.type = "none"
    /\ stack' = Advanced
    /\ UNCHANGED <<ext_lba_base, prim, logic, partition_list, boot>>

\* The first extended partition is the base of those below it.
Extended ==
    /\ MoreEntries /\ TheEntry.type = "extended"
    /\ ext_lba_base' = IF ext_lba_base = 0 THEN TheEntry.start ELSE ext_lba_base
    /\ stack' = Append(Advanced, [lba |-> TheEntry.start + ext_lba_base, next |-> 1])
    /\ UNCHANGED <<prim, logic, partition_list, boot>>

\* An entry of the master boot record; ASSERT(p_no < 4) comes after p_no++.
Primary ==
    LET part == [start |-> Top.lba + TheEntry.start, count |-> TheEntry.count] IN
    /\ MoreEntries /\ TheEntry.type = "data" /\ Top.lba = 0
    /\ prim' = Append(prim, part)
    /\ partition_list' = Append(partition_list, part)
    /\ stack' = Advanced
    /\ boot' = IF Len(prim') < PrimMax THEN boot ELSE "assert"
    /\ UNCHANGED <<ext_lba_base, logic>>

\* Variant: the start is relative to the extended partition.
LogicalFromBase == [start |-> ext_lba_base + TheEntry.start, count |-> TheEntry.count]

\* The start is relative to the table's sector.
LogicalPart == [start |-> Top.lba + TheEntry.start, count |-> TheEntry.count]

\* The last place of logic_parts ends this call, but not the ones around it.
Logical ==
    /\ MoreEntries /\ TheEntry.type = "data" /\ Top.lba # 0
    /\ logic' = Append(logic, LogicalPart)
    /\ partition_list' = Append(partition_list, LogicalPart)
    /\ stack' = IF Len(logic') >= LogicMax THEN Front(stack) ELSE Advanced
    /\ UNCHANGED <<ext_lba_base, prim, boot>>

Return ==
    /\ boot = "scan" /\ stack # <<>> /\ ~MoreEntries
    /\ stack' = Front(stack)
    /\ boot' = IF Len(stack) = 1 THEN "format" ELSE boot
    /\ UNCHANGED <<ext_lba_base, prim, logic, partition_list>>

Scan ==
    /\ Skip \/ Extended \/ Primary \/ Logical \/ Return
    /\ UNCHANGED <<layout, part_idx, sector, cur_part>>

-----------------------------------------------------------------------------
\* The sizes that partition_format computes: the blocks that there is room for,
\* less the sectors that their bitmap was first thought to need.
FreeSects(part) == part.count - (2 + InodeMapSects + InodeSects)
BlockCount(part) == FreeSects(part) - RoundUp(FreeSects(part), SectorBits)
BlockMapSects(part) == RoundUp(BlockCount(part), SectorBits)

\* Variant: the inode bitmap is put after one sector of the block bitmap.
AreasPacked(part) ==
    [super |-> part.start + 1..part.start + 1,
     blockmap |-> part.start + 2..part.start + 1 + BlockMapSects(part),
     inodemap |-> part.start + 3..part.start + 2 + InodeMapSects,
     inodes |-> part.start + 3 + InodeMapSects..part.start + 2 + InodeMapSects + InodeSects,
     root |-> {part.start + 3 + InodeMapSects + InodeSects}]

\* The sectors that partition_format writes.
Areas(part) ==
    LET inodemap == part.start + 2 + BlockMapSects(part)
        inodes == inodemap + InodeMapSects
        data == inodes + InodeSects
    IN  [super |-> part.start + 1..part.start + 1,
         blockmap |-> part.start + 2..inodemap - 1,
         inodemap |-> inodemap..inodes - 1,
         inodes |-> inodes..data - 1,
         root |-> {data}]
AreaNames == {"super", "blockmap", "inodemap", "inodes", "root"}

\* The bits of block_bitmap that are 0: from the byte with the last bit on all
\* are set, then that byte's bits up to block_bitmap_last_bit are cleared.
FreeBits(part) ==
    LET last == (BlockCount(part) \div ByteBits) * ByteBits
    IN  ((0..last - 1) \cup (last..last + (BlockCount(part) % ByteBits)))
        \cap (1..BlockMapSects(part) * SectorBits - 1)

PartAt(i) ==
    IF i < PrimMax THEN IF i < Len(prim) THEN prim[i + 1] ELSE NoPart
    ELSE IF i - PrimMax < Len(logic) THEN logic[i - PrimMax + 1] ELSE NoPart

\* partition_format, whether there is a file system on it or not.
Formatted(part) ==
    [lba \in DOMAIN sector |->
        LET here == {a \in AreaNames : lba \in Areas(part)[a]}
        IN  IF here = {} THEN sector[lba] ELSE <<CHOOSE a \in here : TRUE, part>>]

\* The loop of filesys_init over the places of sdb's partitions.
Format ==
    /\ boot = "format"
    /\ IF part_idx = PrimMax + LogicMax
       THEN boot' = "mount" /\ UNCHANGED <<part_idx, sector>>
       ELSE /\ sector' = IF PartAt(part_idx).count = 0 THEN sector
                         ELSE Formatted(PartAt(part_idx))
            /\ part_idx' = part_idx + 1
            /\ UNCHANGED boot
    /\ UNCHANGED <<layout, stack, ext_lba_base, prim, logic, partition_list, cur_part>>

\* mount_partition of "sdb1", the first primary partition; without it cur_part
\* is NULL, and open_root_dir follows it.
Mount ==
    /\ boot = "mount"
    /\ cur_part' = IF prim = <<>> THEN NoPart ELSE prim[1]
    /\ boot' = IF prim = <<>> THEN "null" ELSE "done"
    /\ UNCHANGED <<layout, stack, ext_lba_base, prim, logic, partition_list, part_idx, sector>>

BootNext == Scan \/ Format \/ Mount

-----------------------------------------------------------------------------
(* Disks as fdisk writes them: a chain of tables from the master boot      *)
(* record through the extended partition, and volumes with room for the    *)
(* root directory, none of which share a sector.                           *)

\* The sectors of the tables in the order of the chain, from the first one on.
TableAt(chain, k) == IF k = 0 THEN 0 ELSE chain[k]

\* Table k has one entry that leads to table k + 1, relative to the first
\* extended partition; in a table of a logical volume nothing comes after it.
Chains(d, chain) ==
    /\ IsInjective(chain) /\ ToSet(chain) = DOMAIN d.tables \ {0}
    /\ \A k \in 0..Len(chain) :
          LET t == d.tables[TableAt(chain, k)]
              extended == {i \in DOMAIN t : t[i].type = "extended"}
          IN  IF k = Len(chain) THEN extended = {}
              ELSE \E i \in DOMAIN t :
                      /\ extended = {i}
                      /\ t[i].start + (IF k = 0 THEN 0 ELSE chain[1]) = chain[k + 1]
                      /\ k # 0 => \A j \in DOMAIN t : j > i => t[j].type = "none"

VolumeAt(d, lba, i) == [start |-> lba + d.tables[lba][i].start, count |-> d.tables[lba][i].count]
Sects(v) == v.start..v.start + v.count - 1
Slots(d) ==
    UNION {{<<lba, i>> : i \in {j \in DOMAIN d.tables[lba] : d.tables[lba][j].type = "data"}}
              : lba \in DOMAIN d.tables}

AsFdisk(d) ==
    /\ d.size \in Nat /\ 0 \in DOMAIN d.tables /\ DOMAIN d.tables \subseteq 0..d.size - 1
    /\ \A lba \in DOMAIN d.tables :
          d.tables[lba] \in Seq([type : {"none", "data", "extended"}, start : Nat, count : Nat])
    /\ \E chain \in [1..Cardinality(DOMAIN d.tables) - 1 -> DOMAIN d.tables \ {0}] :
          Chains(d, chain)
    /\ d.volumes = {VolumeAt(d, s[1], s[2]) : s \in Slots(d)}
    /\ \A v \in d.volumes :
          /\ Sects(v) \subseteq (0..d.size - 1) \ DOMAIN d.tables
          /\ FreeSects(v) \in Nat /\ BlockCount(v) \in Nat \ {0}
    /\ \A s, r \in Slots(d) :
          s # r => Sects(VolumeAt(d, s[1], s[2])) \cap Sects(VolumeAt(d, r[1], r[2])) = {}

ASSUME FdiskLayouts == \A d \in Layouts : AsFdisk(d)

-----------------------------------------------------------------------------
Mounted == boot \in {"done", "null"}

\* The recursion of partition_scan, with one base address for a whole chain of
\* extended partitions, finds every volume of the disk once, up to the eight
\* logical ones it has room for, and where it really is.
VolumesFound ==
    boot \in {"format", "mount"} \/ Mounted =>
        /\ ToSet(partition_list) \subseteq layout.volumes
        /\ IsInjective(partition_list)
        /\ Len(partition_list) = Min({Cardinality(layout.volumes), Len(prim) + LogicMax})

\* Formatting every partition leaves the partition tables and what it wrote to
\* the other partitions as they were, and the bits that it leaves free are
\* blocks of the partition.  (The one more that `bit_idx <= ...' of fs.c:139
\* clears, block number BlockCount, is left out here.)
VolumesKept ==
    Mounted =>
        /\ \A lba \in DOMAIN layout.tables : sector[lba] = "table"
        /\ \A v \in ToSet(partition_list) :
              /\ \A a \in AreaNames : \A lba \in Areas(v)[a] : sector[lba] = <<a, v>>
              /\ \A bit \in FreeBits(v) \ {BlockCount(v)} :
                    Min(Areas(v).root) + bit \in v.start..v.start + v.count - 1
=============================================================================
