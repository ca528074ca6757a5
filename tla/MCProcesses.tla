---------------------------- MODULE MCProcesses ----------------------------
(***************************************************************************)
(* A small instance of Processes for TLC.  All calls together have too     *)
(* many states, so a behaviour has one of three workloads: what main maps  *)
(* while there are processes, what processes give back and take again, and *)
(* prints.                                                                 *)
(***************************************************************************)
EXTENDS Processes, TLC

CONSTANTS main, idle, p1, p2

MCSymmetry == Permutations({p1, p2})
MCNoSlice == [t \in Threads |-> 0]

\* The calls that a thread may make: malloc, free, print.
Calling(m, f, p) == [kind \in Kinds |-> CASE kind = "malloc" -> m [] kind = "free" -> f [] OTHER -> p]

MCWorkloads ==
    {[t \in Threads |-> IF t = Main THEN Calling(1, 1, 0) ELSE Calling(1, 0, 0)],
     [t \in Threads |-> IF t = Main THEN Calling(0, 0, 0) ELSE Calling(1, 1, 0)],
     [t \in Threads |-> Calling(0, 0, 2)]}
=============================================================================
