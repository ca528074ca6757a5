------------------------------- MODULE Volume -------------------------------
(***************************************************************************)
(* A disk from its partition tables to the bytes of a file: FileIo works   *)
(* on the partition that Partitions has mounted.                           *)
(***************************************************************************)
EXTENDS FileIo, Partitions

\* bound: files are written on partitions of LastBlock blocks (the root
\* directory's is the first one).
Ready == boot = "done" /\ {0} \cup FreeBits(cur_part) = 0..LastBlock - 1

VolumeInit == Init /\ BootInit

VolumeNext ==
    \/ BootNext /\ UNCHANGED vars
    \/ Ready /\ Next /\ UNCHANGED bootVars

VolumeSpec == VolumeInit /\ [][VolumeNext]_<<vars, bootVars>>
=============================================================================
