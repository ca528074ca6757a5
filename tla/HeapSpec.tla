------------------------------ MODULE HeapSpec ------------------------------
(***************************************************************************)
(* What sys_malloc and sys_free promise: a region that is handed out       *)
(* overlaps no region that is still held.                                  *)
(***************************************************************************)
EXTENDS Naturals

CONSTANT HeapSize

VARIABLE held   \* the regions handed out and not given back

Region(h) == h.addr..h.addr + h.size - 1

Init == held = {}

Alloc(h) ==
    /\ h.addr + h.size <= HeapSize
    /\ \A g \in held : Region(g) \cap Region(h) = {}
    /\ held' = held \cup {h}

Release(h) == held' = held \ {h}

Next ==
    \/ \E a \in 0..HeapSize - 1, n \in 1..HeapSize : Alloc([addr |-> a, size |-> n])
    \/ \E h \in held : Release(h)

Spec == Init /\ [][Next]_held
=============================================================================
