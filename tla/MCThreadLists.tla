---------------------------- MODULE MCThreadLists ----------------------------
(***************************************************************************)
(* Small instances of ThreadLists for TLC.                                 *)
(***************************************************************************)
EXTENDS ThreadLists

CONSTANTS main, idle, t1, t2, l1, e1

MCNoSlice == [t \in Threads |-> 0]
MCWaitersOf == l1 :> 2 @@ e1 :> 3
MCSymmetry == Permutations(Threads \ {main, idle})
=============================================================================
