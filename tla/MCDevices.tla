----------------------------- MODULE MCDevices -----------------------------
(***************************************************************************)
(* A small instance of Devices for TLC.                                    *)
(***************************************************************************)
EXTENDS Devices

CONSTANTS main, idle, t1, a

MCNoSlice == [t \in Threads |-> 0]
=============================================================================
