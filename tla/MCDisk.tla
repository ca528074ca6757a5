------------------------------- MODULE MCDisk -------------------------------
(***************************************************************************)
(* Small instances of Disk for TLC.                                        *)
(***************************************************************************)
EXTENDS Disk

CONSTANTS main, idle, t1

MCNoSlice == [t \in Threads |-> 0]
=============================================================================
