---------------------------- MODULE BoundedFifo ----------------------------
(***************************************************************************)
(* What device/ioqueue.c promises: a queue of at most Capacity characters; *)
(* a character is delivered once, in the order of arrival.                 *)
(***************************************************************************)
EXTENDS Naturals, Sequences

CONSTANTS Readers, Chars, Capacity

VARIABLES
    queue,  \* the characters put and not yet taken, oldest first
    byte    \* the character each reader took last

Init ==
    /\ queue = <<>>
    /\ byte \in [Readers -> Chars]

Put(c) ==
    /\ Len(queue) < Capacity
    /\ queue' = Append(queue, c)
    /\ UNCHANGED byte

Get(t) ==
    /\ queue # <<>>
    /\ byte' = [byte EXCEPT ![t] = Head(queue)]
    /\ queue' = Tail(queue)

Next == (\E c \in Chars : Put(c)) \/ (\E t \in Readers : Get(t))

Spec == Init /\ [][Next]_<<queue, byte>>
=============================================================================
