----------------------------- MODULE MCIoQueue -----------------------------
(***************************************************************************)
(* Small instances of IoQueue for TLC.                                     *)
(***************************************************************************)
EXTENDS IoQueue

CONSTANTS main, idle, t1, t2

MCNoSlice == [t \in Threads |-> 0]
=============================================================================
