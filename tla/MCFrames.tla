------------------------------ MODULE MCFrames ------------------------------
(***************************************************************************)
(* Small instances of Frames for TLC.                                      *)
(***************************************************************************)
EXTENDS Frames

CONSTANTS main, idle, t1, t2

MCNoSlice == [t \in Threads |-> 0]
=============================================================================
