------------------------------ MODULE MCVolume ------------------------------
(***************************************************************************)
(* Disks as fdisk writes them, for TLC: primary partitions with an         *)
(* extended one among them, which holds a chain of tables with one volume  *)
(* each and a gap of one sector.                                           *)
(***************************************************************************)
EXTENDS Volume

Data(start, count) == [type |-> "data", start |-> start, count |-> count]
Ext(start) == [type |-> "extended", start |-> start, count |-> 1]
NoEntry == [type |-> "none", start |-> 0, count |-> 0]

\* The disk with primary partitions of p sectors, the extended one as entry
\* number at, and logical volumes of the sizes in sizes.
Disk(p, primaries, at, sizes) ==
    LET base == 1 + p * primaries
        ebr[k \in 1..Len(sizes) + 1] ==
            IF k = 1 THEN base ELSE ebr[k - 1] + sizes[k - 1] + 2
        mbr == [i \in 1..primaries |-> Data(1 + p * (i - 1), p)]
    IN  [size |-> ebr[Len(sizes) + 1] + 1,
         tables |-> [lba \in {0} \cup {ebr[k] : k \in 1..Len(sizes)} |->
            IF lba = 0
            THEN IF sizes = <<>> THEN Append(mbr, NoEntry)
                 ELSE InsertAt(mbr, at, Ext(base))
            ELSE LET k == CHOOSE j \in 1..Len(sizes) : ebr[j] = lba
                 IN  <<Data(2, sizes[k]),
                       IF k = Len(sizes) THEN NoEntry ELSE Ext(ebr[k + 1] - base)>>],
         volumes |-> {Data(1 + p * (i - 1), p) : i \in 1..primaries}
                     \cup {Data(ebr[k] + 2, sizes[k]) : k \in 1..Len(sizes)}]
Volumes(d) == [d EXCEPT !.volumes = {[start |-> v.start, count |-> v.count] : v \in @}]

\* The first one has room for the file of the run, the others for others.
MCLayouts ==
    {Volumes(Disk(12, 2, 2, <<11, 18>>))}
    \cup {Volumes(Disk(p, primaries, 1, sizes)) :
            p \in {13, 19}, primaries \in 0..3,
            sizes \in UNION {[1..n -> {11, 18}] : n \in 0..3}}
    \cup {Volumes(Disk(13, 2, at, <<11, 18>>)) : at \in 1..3}
=============================================================================
