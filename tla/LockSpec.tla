------------------------------ MODULE LockSpec ------------------------------
(***************************************************************************)
(* What lock_acquire and lock_release of thread/sync.c promise: a          *)
(* recursive lock that one thread at a time holds, as often as it          *)
(* acquired it.                                                            *)
(***************************************************************************)
EXTENDS Naturals

CONSTANTS Threads, Locks

VARIABLE held   \* how often each thread holds each lock

Init == held = [t \in Threads |-> [l \in Locks |-> 0]]

Acquire(t, l) ==
    /\ \A u \in Threads \ {t} : held[u][l] = 0
    /\ held' = [held EXCEPT ![t][l] = @ + 1]

Release(t, l) ==
    /\ held[t][l] > 0
    /\ held' = [held EXCEPT ![t][l] = @ - 1]

Next == \E t \in Threads, l \in Locks : Acquire(t, l) \/ Release(t, l)

Spec == Init /\ [][Next]_held
=============================================================================
