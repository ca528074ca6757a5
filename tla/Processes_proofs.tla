---------------------------- MODULE Processes_proofs ----------------------------
(***************************************************************************)
(* Proofs about Processes: page directories, the frames behind them, and   *)
(* the screen.                                                             *)
(***************************************************************************)
EXTENDS Processes, Sync_proofs, Numbers, FiniteSetTheorems

-----------------------------------------------------------------------------
(* Numbers and sets.                                                       *)

LEMMA Sizes ==
    /\ PerTable \in Nat /\ PerTable > 0
    /\ UserTables \in Nat /\ UserTables > 0
    /\ KernelTables \in Nat
    /\ FirstKernelPage \in Nat /\ StackPage \in Nat
    /\ FirstKernelPage = UserTables * PerTable
    /\ StackPage = FirstKernelPage - 1
    /\ HeapPages \in Nat /\ HeapPages <= StackPage
    /\ KernelFrames \in Nat /\ UserFrames \in Nat
    /\ PoolEnd \in Nat /\ BootDir \in Nat
    /\ None = BootDir + 1
<1>1. UserTables * PerTable \in Nat
  BY ProcessesAssumption
<1> QED
  BY <1>1, ProcessesAssumption DEF FirstKernelPage, StackPage, PoolEnd, BootDir, None

\* A page is the slot p % PerTable of the table of entry p \div PerTable.
LEMMA UserPageParts ==
    ASSUME NEW p \in UserPages
    PROVE  /\ p \in Nat
           /\ p \div PerTable \in UserEntries
           /\ p % PerTable \in Slots
           /\ p = PerTable * (p \div PerTable) + (p % PerTable)
<1>1. p \in Nat /\ p < UserTables * PerTable
  BY Sizes DEF UserPages
<1>2. p \div PerTable < UserTables
  BY <1>1, DivBounds, Sizes
<1> QED
  BY <1>1, <1>2, DivMod, Sizes DEF UserEntries, Slots

LEMMA KernelPageParts ==
    ASSUME NEW p \in KernelPages
    PROVE  /\ p \in Nat
           /\ p \div PerTable \in UserTables..UserTables + KernelTables - 1
           /\ p % PerTable \in Slots
           /\ p = PerTable * (p \div PerTable) + (p % PerTable)
<1>1. /\ p \in Nat /\ p >= UserTables * PerTable
      /\ p < (UserTables + KernelTables) * PerTable
  BY Sizes DEF KernelPages
<1>2. p \div PerTable >= UserTables /\ p \div PerTable < UserTables + KernelTables
  BY <1>1, DivBounds, Sizes
<1> QED
  BY <1>1, <1>2, DivMod, Sizes DEF Slots

LEMMA PoolFacts ==
    /\ KernelPool \subseteq PageFrames /\ UserPool \subseteq PageFrames
    /\ KernelPool \cap UserPool = {}
    /\ KernelPool \subseteq Nat /\ UserPool \subseteq Nat
    /\ None \notin PageFrames
    /\ BootDir \in PageFrames
    /\ \A i \in Entries : i >= UserTables =>
          /\ BootTable(i) \in PageFrames
          /\ BootTable(i) \notin KernelPool \cup UserPool
          /\ \A j \in Entries : BootTable(i) = BootTable(j) => i = j
    /\ UserEntries \subseteq Entries
    /\ UserTables..UserTables + KernelTables - 1 \subseteq Entries
    /\ UserPages \cap KernelPages = {}
    /\ StackPage \in UserPages /\ HeapRange \subseteq UserPages \ {StackPage}
  BY Sizes
  DEF KernelPool, UserPool, PageFrames, Entries, BootTable, UserEntries, BootDir, PoolEnd, None,
      UserPages, KernelPages, HeapRange, StackPage

\* Two pages with the same entry and the same slot are the same.
LEMMA SamePage ==
    ASSUME NEW p \in UserPages \cup KernelPages, NEW q \in UserPages \cup KernelPages,
           p \div PerTable = q \div PerTable, p % PerTable = q % PerTable
    PROVE  p = q
<1>1. /\ p = PerTable * (p \div PerTable) + (p % PerTable)
      /\ q = PerTable * (q \div PerTable) + (q % PerTable)
  BY UserPageParts, KernelPageParts
<1> QED
  BY <1>1

-----------------------------------------------------------------------------
(* Counting.                                                               *)

LEMMA ImageBound ==
    ASSUME NEW S, NEW T, NEW h, IsFiniteSet(S), \A f \in T : \E x \in S : f = h[x]
    PROVE  IsFiniteSet(T) /\ Cardinality(T) <= Cardinality(S)
<1> DEFINE g == [f \in T |-> CHOOSE x \in S : f = h[x]]
<1>1. \A f \in T : g[f] \in S /\ f = h[g[f]]
  OBVIOUS
<1>2. g \in [T -> S]
  BY <1>1
<1>3. \A e, f \in T : g[e] = g[f] => e = f
  BY <1>1
<1>4. g \in Injection(T, S)
  BY <1>2, <1>3 DEF Injection, IsInjective
<1> QED
  BY <1>4, FS_Injection

\* The bounds of RoomAssumption, in numbers.
LEMMA Room ==
    /\ IsFiniteSet(Processes) /\ Cardinality(Processes) \in Nat
    /\ Cardinality(KernelPages) = KernelTables * PerTable /\ IsFiniteSet(KernelPages)
    /\ Cardinality(Processes) * 3 + HeapPages <= Cardinality(KernelPages)
    /\ IsFiniteSet(Processes \X UserEntries)
    /\ Cardinality(Processes \X UserEntries) \in Nat
    /\ Cardinality(Processes) * 3 + HeapPages + Cardinality(Processes \X UserEntries)
          <= Cardinality(KernelPool)
    /\ IsFiniteSet(KernelPool) /\ Cardinality(KernelPool) \in Nat
    /\ IsFiniteSet(Processes \X (HeapRange \cup {StackPage}))
    /\ Cardinality(Processes \X (HeapRange \cup {StackPage})) <= Cardinality(UserPool)
    /\ IsFiniteSet(UserPool)
    /\ IsFiniteSet(HeapRange) /\ Cardinality(HeapRange) = HeapPages
<1> DEFINE n == Cardinality(Processes)
<1>1. IsFiniteSet(Processes) /\ n \in Nat
  BY RoomAssumption, FS_CardinalityType
<1>2. IsFiniteSet(KernelPages) /\ Cardinality(KernelPages) = KernelTables * PerTable
  <2> DEFINE m == KernelTables * PerTable
  <2>1. /\ (UserTables + KernelTables) * PerTable = FirstKernelPage + m
        /\ m \in Nat
    BY Sizes
  <2> HIDE DEF m
  <2>2. /\ KernelPages = FirstKernelPage..FirstKernelPage + m - 1
        /\ FirstKernelPage \in Int /\ FirstKernelPage + m - 1 \in Int
    BY <2>1, Sizes DEF KernelPages
  <2>3. IsFiniteSet(KernelPages) /\ Cardinality(KernelPages) = m
    BY <2>1, <2>2, Sizes, FS_Interval
  <2> QED
    BY <2>3 DEF m
<1>3. IsFiniteSet(UserEntries) /\ Cardinality(UserEntries) = UserTables
  BY Sizes, FS_Interval DEF UserEntries
<1>4. /\ IsFiniteSet(Processes \X UserEntries)
      /\ Cardinality(Processes \X UserEntries) = n * UserTables
  BY <1>1, <1>3, FS_Product
<1>5. IsFiniteSet(KernelPool) /\ Cardinality(KernelPool) = KernelFrames
  BY Sizes, FS_Interval DEF KernelPool
<1>6. IsFiniteSet(UserPool) /\ Cardinality(UserPool) = UserFrames
  BY Sizes, FS_Interval DEF UserPool, PoolEnd
<1>7. IsFiniteSet(HeapRange) /\ Cardinality(HeapRange) = HeapPages
  BY Sizes, FS_Interval DEF HeapRange
<1>8. /\ IsFiniteSet(HeapRange \cup {StackPage})
      /\ Cardinality(HeapRange \cup {StackPage}) = HeapPages + 1
  BY <1>7, PoolFacts, FS_AddElement
<1>9. /\ IsFiniteSet(Processes \X (HeapRange \cup {StackPage}))
      /\ Cardinality(Processes \X (HeapRange \cup {StackPage})) = n * (HeapPages + 1)
  BY <1>1, <1>8, FS_Product
<1>10. n * UserTables \in Nat /\ KernelFrames \in Nat
  BY <1>1, Sizes
<1> QED
  BY <1>1, <1>2, <1>4, <1>5, <1>6, <1>7, <1>9, <1>10, RoomAssumption

\* What stays in main's vbits while processes are created, and with its heap.
LEMMA MainCount ==
    ASSUME ProcessesTypeOK, SpaceInv
    PROVE  /\ IsFiniteSet(vbits[Main]) /\ IsFiniteSet(Fixed) /\ IsFiniteSet(heap[Main])
           /\ IsFiniteSet(Created)
           /\ Cardinality(vbits[Main]) \in Nat
           /\ Cardinality(vbits[Main]) <= Cardinality(Processes) * 3 + HeapPages
           /\ (at[Main] \in {"pcb", "bitmap", "pgdir", "malloc"} /\ step[Main] = "in") =>
                 Cardinality(vbits[Main]) < Cardinality(Processes) * 3 + HeapPages
<1> DEFINE H == heap[Main] \cup Adding(Main)
<1>1. /\ vbits[Main] \subseteq KernelPages
      /\ H \subseteq vbits[Main]
      /\ Cardinality(heap[Main]) <= HeapPages
      /\ at[Main] = "malloc" /\ step[Main] # "done" => Cardinality(heap[Main]) < HeapPages
      /\ Cardinality(Fixed) <= Cardinality(Created) * 3 + InHand
  <2>1. Adding(Main) \subseteq vbits[Main]
    BY DEF SpaceInv, HandsFit, HandFits, Adding
  <2> QED
    BY <2>1 DEF SpaceInv, MapsFit, KernelMaps, HeapsFit, CountFits
<1>2. IsFiniteSet(vbits[Main]) /\ Cardinality(vbits[Main]) \in Nat
  BY <1>1, Room, FS_Subset, FS_CardinalityType
<1>3. /\ IsFiniteSet(heap[Main]) /\ IsFiniteSet(Fixed) /\ IsFiniteSet(H)
      /\ Cardinality(heap[Main]) \in Nat /\ Cardinality(Fixed) \in Nat /\ Cardinality(H) \in Nat
  BY <1>1, <1>2, FS_Subset, FS_CardinalityType DEF Fixed
<1>4. Cardinality(vbits[Main]) = Cardinality(Fixed) + Cardinality(H)
  <2>1. Cardinality(Fixed) = Cardinality(vbits[Main]) - Cardinality(vbits[Main] \cap H)
    BY <1>2, FS_Difference DEF Fixed
  <2>2. vbits[Main] \cap H = H
    BY <1>1
  <2>3. Cardinality(vbits[Main] \cap H) = Cardinality(H)
    BY <2>2
  <2> HIDE DEF H
  <2> QED
    BY <1>2, <1>3, <2>1, <2>3
<1>5. /\ IsFiniteSet(Created) /\ Cardinality(Created) \in Nat
      /\ Cardinality(Created) <= Cardinality(Processes)
      /\ Creating => Cardinality(Created) < Cardinality(Processes)
  <2>1. Created \subseteq Processes
    BY DEF Created
  <2>2. Creating => Created # Processes
    BY DEF SpaceInv, PlacesFit, Created
  <2> QED
    BY <2>1, <2>2, Room, FS_Subset, FS_CardinalityType
<1>6. /\ InHand \in 0..3
      /\ ~Creating => InHand = 0
      /\ at[Main] \in {"pcb", "bitmap", "pgdir"} /\ step[Main] = "in" => InHand < 3
  BY DEF InHand, Creating
<1>7. HeapPages \in Nat /\ Cardinality(Processes) \in Nat
  BY Sizes, Room
<1>8. Cardinality(Fixed) <= Cardinality(Processes) * 3
  BY <1>1, <1>3, <1>5, <1>6, <1>7
<1>9. at[Main] \in {"pcb", "bitmap", "pgdir"} /\ step[Main] = "in" =>
          Cardinality(Fixed) < Cardinality(Processes) * 3
  BY <1>1, <1>3, <1>5, <1>6, <1>7 DEF Creating
<1>10. /\ Cardinality(H) <= HeapPages
       /\ at[Main] = "malloc" /\ step[Main] = "in" => Cardinality(H) < HeapPages
  <2>1. CASE at[Main] = "malloc" /\ step[Main] \in Taking
    <3>1. /\ Adding(Main) = {vaddr[Main]} /\ vaddr[Main] \notin heap[Main]
          /\ step[Main] \notin {"in", "done"}
      BY <2>1 DEF SpaceInv, HeapsFit, Adding, Taking, Holding
    <3>2. Cardinality(H) = Cardinality(heap[Main]) + 1
      BY <1>3, <3>1, FS_AddElement
    <3>3. Cardinality(heap[Main]) < HeapPages
      BY <1>1, <2>1, <3>1
    <3> HIDE DEF H
    <3> QED
      BY <1>3, <1>7, <3>1, <3>2, <3>3
  <2>2. CASE ~(at[Main] = "malloc" /\ step[Main] \in Taking)
    <3>1. H = heap[Main]
      BY <2>2 DEF Adding
    <3> QED
      BY <1>1, <3>1
  <2> QED
    BY <2>1, <2>2
<1> HIDE DEF H
<1> QED
  BY <1>1, <1>2, <1>3, <1>4, <1>5, <1>7, <1>8, <1>9, <1>10

\* The pages that own a frame, next to those whose bit is set.
LEMMA OwnedFacts ==
    ASSUME ProcessesTypeOK, SpaceInv
    PROVE  /\ Owned(Main) \subseteq vbits[Main] /\ vbits[Main] \subseteq KernelPages
           /\ \A t \in Built : Owned(t) \subseteq vbits[t] /\ vbits[t] \subseteq UserPages
           /\ \A t \in Built : vbits[t] \subseteq HeapRange \cup {StackPage}
           /\ IsFiniteSet(Owned(Main)) /\ Cardinality(Owned(Main)) \in Nat
           /\ Cardinality(Owned(Main)) <= Cardinality(vbits[Main])
           /\ step[Main] = "scan" => Cardinality(Owned(Main)) < Cardinality(vbits[Main])
<1>1. Owned(Main) \subseteq vbits[Main] /\ vbits[Main] \subseteq KernelPages
  BY DEF Owned, SpaceInv, MapsFit, KernelMaps
<1>2. ASSUME NEW t \in Built
      PROVE  /\ Owned(t) \subseteq vbits[t] /\ vbits[t] \subseteq UserPages
             /\ vbits[t] \subseteq HeapRange \cup {StackPage}
  <2>1. t \in Processes
    BY DEF Built
  <2>2. vbits[t] \subseteq HeapRange \cup {StackPage}
    BY <2>1 DEF SpaceInv, HeapsFit
  <2> QED
    BY <2>2 DEF Owned, SpaceInv, MapsFit, UserMaps
<1>3. /\ IsFiniteSet(Owned(Main)) /\ Cardinality(Owned(Main)) \in Nat
      /\ Cardinality(Owned(Main)) <= Cardinality(vbits[Main])
  BY <1>1, MainCount, FS_Subset, FS_CardinalityType
<1>4. ASSUME step[Main] = "scan"
      PROVE  Cardinality(Owned(Main)) < Cardinality(vbits[Main])
  <2>1. vaddr[Main] \in vbits[Main]
    BY <1>4 DEF SpaceInv, HandsFit, HandFits, Taking
  <2>2. Owned(Main) = vbits[Main] \ {vaddr[Main]}
    BY <1>4 DEF Owned
  <2>3. Cardinality(Owned(Main)) = Cardinality(vbits[Main]) - 1
    BY <2>1, <2>2, MainCount, FS_RemoveElement
  <2> QED
    BY <2>3, MainCount
<1> QED
  BY <1>1, <1>2, <1>3, <1>4

\* A frame that is taken in the kernel's pool is a page of the kernel or a
\* page table of a process: fewer of those than frames leave a frame.
LEMMA KernelPoolRoom ==
    ASSUME ProcessesTypeOK, SpaceInv, NEW D \in SUBSET (Processes \X UserEntries),
           \A t \in Built : \A i \in UserEntries : TableOf(t, i) # None => <<t, i>> \in D,
           Cardinality(Owned(Main)) + Cardinality(D) < Cardinality(KernelPool)
    PROVE  FirstFree(KernelPool) \in KernelPool \ taken
<1>0. KernelPool \ taken # {} => FirstFree(KernelPool) \in KernelPool \ taken
  BY PoolFacts, MinLemma DEF FirstFree
<1> SUFFICES ASSUME KernelPool \subseteq taken
             PROVE  FALSE
  BY <1>0
<1> DEFINE A == {f \in KernelPool : \E p \in Owned(Main) : f = KFrame(p)}
           B == {f \in KernelPool : \E t \in Built : \E i \in UserEntries : f = TableOf(t, i)}
           g == [p \in KernelPages |-> KFrame(p)]
           h == [x \in Processes \X UserEntries |-> TableOf(x[1], x[2])]
<1>1. KernelPool = A \cup B
  <2>1. \A t \in Built : \A p \in Owned(t) : UFrame(t, p) \in UserPool
    BY DEF SpaceInv, MapsFit, UserMaps
  <2>2. \A f \in KernelPool : f \in taken /\ f \notin UserPool
    BY PoolFacts
  <2>3. ASSUME NEW f \in KernelPool
        PROVE  \/ \E p \in Owned(Main) : f = KFrame(p)
               \/ \E t \in Built : \E i \in UserEntries : f = TableOf(t, i)
    BY <2>1, <2>2 DEF SpaceInv, MapsFit, AllUsed
  <2> QED
    BY <2>3
<1>2. IsFiniteSet(A) /\ Cardinality(A) <= Cardinality(Owned(Main))
  <2>1. \A f \in A : \E p \in Owned(Main) : f = g[p]
    BY OwnedFacts
  <2> HIDE DEF A, g
  <2> QED
    BY <2>1, OwnedFacts, ImageBound
<1>3. IsFiniteSet(B) /\ Cardinality(B) <= Cardinality(D) /\ Cardinality(D) \in Nat
  <2>1. Built \subseteq Processes
    BY DEF Built
  <2>2. \A f \in B : \E x \in D : f = h[x]
    <3> SUFFICES ASSUME NEW f \in B
                 PROVE  \E x \in D : f = h[x]
      OBVIOUS
    <3>1. PICK t \in Built, i \in UserEntries : f = TableOf(t, i)
      OBVIOUS
    <3>2. f # None
      BY PoolFacts
    <3>3. <<t, i>> \in D
      BY <3>1, <3>2
    <3>4. h[<<t, i>>] = f
      BY <2>1, <3>1
    <3> QED
      BY <3>3, <3>4
  <2>3. IsFiniteSet(D) /\ Cardinality(D) \in Nat
    BY Room, FS_Subset, FS_CardinalityType
  <2> HIDE DEF B, h
  <2> QED
    BY <2>2, <2>3, ImageBound
<1>4. /\ Cardinality(KernelPool) = Cardinality(A) + Cardinality(B) - Cardinality(A \cap B)
      /\ Cardinality(A \cap B) \in Nat
      /\ Cardinality(A) \in Nat /\ Cardinality(B) \in Nat
  <2> HIDE DEF A, B
  <2> QED
    BY <1>1, <1>2, <1>3, FS_Union, FS_Intersection, FS_CardinalityType
<1>5. Cardinality(Owned(Main)) \in Nat
  BY OwnedFacts
<1> HIDE DEF A, B
<1> QED
  BY <1>2, <1>3, <1>4, <1>5

\* Main finds a page,
LEMMA MainAddress ==
    ASSUME ProcessesTypeOK, SpaceInv,
           at[Main] \in {"pcb", "bitmap", "pgdir", "malloc"}, step[Main] = "in"
    PROVE  VaddrGet(Main) \in KernelPages \ vbits[Main]
<1>1. /\ Cardinality(vbits[Main]) < Cardinality(Processes) * 3 + HeapPages
      /\ Cardinality(vbits[Main]) \in Nat
  BY MainCount
<1>2. KernelPages \ vbits[Main] # {}
  <2>1. vbits[Main] \subseteq KernelPages
    BY DEF SpaceInv, MapsFit, KernelMaps
  <2>2. Cardinality(Processes) * 3 + HeapPages <= Cardinality(KernelPages)
    BY Room
  <2>3. Cardinality(Processes) \in Nat /\ HeapPages \in Nat /\ Cardinality(KernelPages) \in Nat
    BY Room, Sizes, FS_CardinalityType
  <2>4. Cardinality(vbits[Main]) # Cardinality(KernelPages)
    BY <1>1, <2>2, <2>3
  <2>5. vbits[Main] # KernelPages
    BY <2>4
  <2> QED
    BY <2>1, <2>5
<1>3. KernelPages \subseteq Nat
  BY KernelPageParts
<1> QED
  BY <1>2, <1>3, MinLemma DEF VaddrGet

\* and a frame.
LEMMA MainFrame ==
    ASSUME ProcessesTypeOK, SpaceInv, step[Main] = "scan"
    PROVE  FirstFree(KernelPool) \in KernelPool \ taken
<1> DEFINE D == Processes \X UserEntries
<1>1. /\ D \in SUBSET (Processes \X UserEntries)
      /\ \A t \in Built : \A i \in UserEntries : TableOf(t, i) # None => <<t, i>> \in D
  BY DEF Built
<1>2. Cardinality(Owned(Main)) + Cardinality(D) < Cardinality(KernelPool)
  <2>1. /\ Cardinality(Processes) * 3 + HeapPages + Cardinality(D) <= Cardinality(KernelPool)
        /\ Cardinality(Processes) \in Nat /\ Cardinality(D) \in Nat
        /\ Cardinality(KernelPool) \in Nat /\ HeapPages \in Nat
    BY Room, Sizes
  <2>2. /\ Cardinality(Owned(Main)) < Cardinality(Processes) * 3 + HeapPages
        /\ Cardinality(Owned(Main)) \in Nat
    BY <2>1, MainCount, OwnedFacts
  <2> HIDE DEF D
  <2> QED
    BY <2>1, <2>2
<1> HIDE DEF D
<1> QED
  BY <1>1, <1>2, KernelPoolRoom

\* A process finds a page for its heap,
LEMMA HeapRoom ==
    ASSUME ProcessesTypeOK, SpaceInv, NEW t \in Built,
           at[t] = "malloc", step[t] = "in"
    PROVE  VaddrGet(t) \in HeapRange \ vbits[t]
<1>1. /\ t \in Processes /\ t # Main
      /\ heap[t] \subseteq HeapRange /\ vbits[t] = heap[t] \cup {StackPage}
      /\ Cardinality(heap[t]) < HeapPages
  BY ProcessesAssumption DEF Built, SpaceInv, HeapsFit, Adding, Taking, Holding
<1>2. HeapRange # heap[t]
  BY <1>1, Room, Sizes
<1>3. PICK x \in HeapRange : x \notin vbits[t]
  BY <1>1, <1>2, PoolFacts
<1>4. /\ UserPages \subseteq Nat /\ x \in UserPages \ vbits[t]
      /\ VaddrGet(t) = Min(UserPages \ vbits[t])
  BY <1>1, <1>3, PoolFacts, UserPageParts DEF VaddrGet, UserPages
<1>5. VaddrGet(t) \in UserPages \ vbits[t] /\ VaddrGet(t) <= x
  BY <1>4, MinLemma
<1> QED
  BY <1>3, <1>5, Sizes DEF HeapRange, UserPages

\* a frame for it or for its stack,
LEMMA ProcessFrame ==
    ASSUME ProcessesTypeOK, SpaceInv, NEW t \in Built, step[t] = "scan"
    PROVE  FirstFree(UserPool) \in UserPool \ taken
<1> DEFINE All == Processes \X (HeapRange \cup {StackPage})
           D == All \ {<<t, vaddr[t]>>}
           h == [x \in All |-> UFrame(x[1], x[2])]
<1>0. UserPool \ taken # {} => FirstFree(UserPool) \in UserPool \ taken
  BY PoolFacts, MinLemma DEF FirstFree
<1> SUFFICES ASSUME UserPool \subseteq taken
             PROVE  FALSE
  BY <1>0
<1>1. t \in Processes /\ vaddr[t] \in vbits[t] /\ vaddr[t] \notin Owned(t)
  BY DEF Built, SpaceInv, HandsFit, HandFits, Taking, Owned
<1>2. ASSUME NEW f \in UserPool
      PROVE  \E x \in D : f = h[x]
  <2>1. PICK u \in Built : \E q \in Owned(u) : f = UFrame(u, q)
    BY PoolFacts DEF SpaceInv, MapsFit, AllUsed, KernelMaps, TablesFit
  <2>2. PICK q \in Owned(u) : f = UFrame(u, q)
    BY <2>1
  <2>3. <<u, q>> \in All /\ <<u, q>> # <<t, vaddr[t]>>
    BY <1>1, <2>2, OwnedFacts DEF Built
  <2>4. h[<<u, q>>] = f
    BY <2>2, <2>3
  <2> QED
    BY <2>3, <2>4
<1>3. /\ IsFiniteSet(D) /\ Cardinality(D) = Cardinality(All) - 1
      /\ Cardinality(All) \in Nat
  <2>1. <<t, vaddr[t]>> \in All
    BY <1>1, OwnedFacts
  <2> QED
    BY <2>1, Room, FS_RemoveElement, FS_CardinalityType
<1>4. Cardinality(UserPool) <= Cardinality(D)
  <2> HIDE DEF D, h
  <2> QED
    BY <1>2, <1>3, ImageBound
<1>5. Cardinality(UserPool) \in Nat /\ Cardinality(All) <= Cardinality(UserPool)
  BY Room, FS_CardinalityType
<1> HIDE DEF D, All
<1> QED
  BY <1>3, <1>4, <1>5

\* and one for a page table.
LEMMA TableRoom ==
    ASSUME ProcessesTypeOK, SpaceInv, NEW t \in Built, step[t] = "map",
           dir[home[t]][vaddr[t] \div PerTable] = None
    PROVE  FirstFree(KernelPool) \in KernelPool \ taken
<1> DEFINE i == vaddr[t] \div PerTable
           E == (Processes \X UserEntries) \ {<<t, i>>}
<1>1. t \in Processes /\ vaddr[t] \in UserPages
  <2>1. t \in Processes /\ vaddr[t] \in vbits[t]
    BY DEF Built, SpaceInv, HandsFit, HandFits, Taking, Holding
  <2> QED
    BY <2>1, OwnedFacts
<1>2. i \in UserEntries
  BY <1>1, UserPageParts
<1>3. TableOf(t, i) = None
  BY DEF TableOf
<1>4. \A u \in Built : \A j \in UserEntries : TableOf(u, j) # None => <<u, j>> \in E
  BY <1>3 DEF Built
<1>5. Cardinality(E) = Cardinality(Processes \X UserEntries) - 1
  <2>1. <<t, i>> \in Processes \X UserEntries
    BY <1>1, <1>2
  <2> QED
    BY <2>1, Room, FS_RemoveElement
<1>6. Cardinality(Owned(Main)) + Cardinality(E) < Cardinality(KernelPool)
  <2>1. /\ Cardinality(Owned(Main)) <= Cardinality(Processes) * 3 + HeapPages
        /\ Cardinality(Owned(Main)) \in Nat
    <3>1. Cardinality(Processes) * 3 + HeapPages \in Nat
      BY Room, Sizes
    <3> QED
      BY <3>1, MainCount, OwnedFacts
  <2>2. /\ Cardinality(Processes) * 3 + HeapPages + Cardinality(Processes \X UserEntries)
              <= Cardinality(KernelPool)
        /\ Cardinality(Processes) \in Nat /\ Cardinality(Processes \X UserEntries) \in Nat
        /\ Cardinality(KernelPool) \in Nat /\ HeapPages \in Nat
    BY Room, Sizes
  <2> HIDE DEF E
  <2> QED
    BY <1>5, <2>1, <2>2
<1>7. E \in SUBSET (Processes \X UserEntries)
  OBVIOUS
<1> HIDE DEF E
<1> QED
  BY <1>4, <1>6, <1>7, KernelPoolRoom

-----------------------------------------------------------------------------
(* Page directories and page tables.                                       *)

\* A page of the kernel is behind the same tables in every directory.
LEMMA KernelV2P ==
    ASSUME ProcessesTypeOK, KernelHalf, NEW t \in Threads, NEW p \in KernelPages
    PROVE  /\ V2P(home[t], p) = KernelFrame(p)
           /\ dir[home[t]][p \div PerTable] = BootTable(p \div PerTable)
           /\ BootTable(p \div PerTable) \in PageFrames
           /\ BootTable(p \div PerTable) # None
           /\ p \div PerTable \in Entries /\ p \div PerTable >= UserTables
<1>1. /\ p \div PerTable \in Entries /\ p \div PerTable >= UserTables
  BY KernelPageParts, PoolFacts, Sizes
<1>2. dir[home[t]][p \div PerTable] = BootTable(p \div PerTable)
  BY <1>1 DEF KernelHalf
<1>3. BootTable(p \div PerTable) # None /\ BootTable(p \div PerTable) \in PageFrames
  BY <1>1, PoolFacts
<1> QED
  BY <1>1, <1>2, <1>3 DEF V2P, KernelFrame

\* Directories are different frames, and no page tables.
LEMMA HomesDiffer ==
    ASSUME ProcessesTypeOK, SpaceInv, NEW t \in Built
    PROVE  /\ pgdir[t] \in Owned(Main)
           /\ home[t] = KFrame(pgdir[t]) /\ home[t] = KernelFrame(pgdir[t])
           /\ home[t] \in KernelPool \cap taken /\ home[t] # BootDir
           /\ t \in Processes /\ t \in Threads /\ t # Main
           /\ \A u \in Threads : home[u] = home[t] => u = t
<1>1. KernelPool \subseteq PageFrames /\ BootDir \notin KernelPool
  BY Sizes DEF KernelPool, PageFrames, BootDir, PoolEnd
<1>2. ASSUME NEW u \in Built
      PROVE  pgdir[u] \in Owned(Main) /\ home[u] = KFrame(pgdir[u])
             /\ home[u] = KernelFrame(pgdir[u])
  <2>1. pgdir[u] \in Fixed /\ home[u] = KernelFrame(pgdir[u])
    BY DEF SpaceInv, HomesFit
  <2>2. step[Main] \in Taking \cup {"unmap"} => pgdir[u] # vaddr[Main]
    BY <2>1 DEF SpaceInv, HomesFit, HandsFit, HandFits, Fixed
  <2> QED
    BY <2>1, <2>2 DEF Owned, Fixed, KFrame, Taking
<1>3. home[t] \in KernelPool \cap taken
  BY <1>2 DEF SpaceInv, MapsFit, KernelMaps
<1>4. ASSUME NEW u \in Threads, home[u] = home[t]
      PROVE  u = t
  <2>1. u \in Built
    BY <1>1, <1>3, <1>4 DEF SpaceInv, HomesFit
  <2>2. pgdir[u] = pgdir[t]
    BY <1>2, <1>4, <2>1 DEF SpaceInv, MapsFit, KernelMaps
  <2> QED
    BY <2>1, <2>2 DEF SpaceInv, HomesFit
<1> QED
  BY <1>1, <1>2, <1>3, <1>4, ProcessesAssumption DEF Built

\* A page table of a process is nothing else.
LEMMA TableFacts ==
    ASSUME ProcessesTypeOK, SpaceInv, NEW t \in Built, NEW i \in UserEntries,
           dir[home[t]][i] # None
    PROVE  /\ dir[home[t]][i] = TableOf(t, i)
           /\ dir[home[t]][i] \in KernelPool \cap taken
           /\ dir[home[t]][i] \in PageFrames
           /\ \A j \in Entries : j >= UserTables => BootTable(j) # dir[home[t]][i]
           /\ \A u \in Threads : home[u] # dir[home[t]][i]
           /\ \A u \in Built : \A j \in UserEntries :
                 dir[home[u]][j] = dir[home[t]][i] => u = t /\ j = i
           /\ \A p \in Owned(Main) : KFrame(p) # dir[home[t]][i]
<1>1. ASSUME NEW u \in Built, NEW j \in UserEntries, dir[home[u]][j] # None
      PROVE  dir[home[u]][j] = TableOf(u, j)
  <2>1. u \in Processes
    BY DEF Built
  <2> QED
    BY <1>1, <2>1 DEF TableOf, SpaceInv, HandsFit, HandFits
<1>2. /\ dir[home[t]][i] = TableOf(t, i)
      /\ dir[home[t]][i] \in KernelPool \cap taken
      /\ \A p \in Owned(Main) : KFrame(p) # dir[home[t]][i]
  BY <1>1 DEF SpaceInv, MapsFit, TablesFit
<1>3. \A u \in Built : \A j \in UserEntries :
          dir[home[u]][j] = dir[home[t]][i] => u = t /\ j = i
  BY <1>1 DEF SpaceInv, MapsFit, TablesFit
<1>4. ASSUME NEW u \in Threads
      PROVE  home[u] # dir[home[t]][i]
  <2>1. CASE u \in Built
    BY <1>2, <2>1, HomesDiffer
  <2>2. CASE u \notin Built
    <3>1. home[u] = BootDir
      BY <2>2 DEF SpaceInv, HomesFit
    <3>2. BootDir \notin KernelPool
      BY Sizes DEF KernelPool, BootDir, PoolEnd
    <3> QED
      BY <1>2, <3>1, <3>2
  <2> QED
    BY <2>1, <2>2
<1>5. \A j \in Entries : j >= UserTables =>
          BootTable(j) \in PageFrames /\ BootTable(j) \notin KernelPool
  BY PoolFacts
<1> QED
  BY <1>2, <1>3, <1>4, <1>5, PoolFacts

\* A step after which the same pages and tables have the same frames.
LEMMA MapsKept ==
    ASSUME MapsFit, KernelHalf', Built' = Built, taken' = taken,
           vbits'[Main] \subseteq KernelPages, Owned(Main)' = Owned(Main),
           \A p \in Owned(Main) : KFrame(p)' = KFrame(p),
           \A p \in KernelPages : Unmapped(Main, p)' => KernelFrame(p)' = None,
           \A u \in Built :
               /\ vbits'[u] \subseteq UserPages /\ Owned(u)' = Owned(u)
               /\ \A i \in UserEntries : TableOf(u, i)' = TableOf(u, i)
               /\ \A p \in Owned(u) : UFrame(u, p)' = UFrame(u, p)
               /\ \A p \in UserPages :
                     Unmapped(u, p)' /\ ~Uncleared(u, p)' => UserFrame(u, p)' = None
    PROVE  MapsFit'
<1>1. KernelMaps'
  BY DEF MapsFit, KernelMaps
<1>2. TablesFit'
  <2>1. \A u \in Built : \A i \in UserEntries : TableOf(u, i)' = TableOf(u, i)
    OBVIOUS
  <2>2. TablesFit
    BY DEF MapsFit
  <2> QED
    BY <2>1, <2>2 DEF TablesFit
<1>3. UserMaps'
  <2>1. UserMaps
    BY DEF MapsFit
  <2> QED
    BY <2>1 DEF UserMaps
<1>4. AllUsed'
  <2>1. AllUsed
    BY DEF MapsFit
  <2> QED
    BY <2>1 DEF AllUsed
<1> QED
  BY <1>1, <1>2, <1>3, <1>4 DEF MapsFit

\* Of a thread whose hands and tables a step leaves alone.
SameHand(u) ==
    /\ step'[u] = step[u] /\ vaddr'[u] = vaddr[u] /\ vbits'[u] = vbits[u]
    /\ page_phyaddr'[u] = page_phyaddr[u] /\ pde_phyaddr'[u] = pde_phyaddr[u]

LEMMA ProcessStays ==
    ASSUME ProcessesTypeOK, SpaceInv, NEW u \in Built, SameHand(u), home'[u] = home[u],
           \A i \in UserEntries : dir'[home[u]][i] = dir[home[u]][i],
           \A i \in UserEntries : dir[home[u]][i] # None =>
               table'[dir[home[u]][i]] = table[dir[home[u]][i]]
    PROVE  /\ vbits'[u] \subseteq UserPages /\ Owned(u)' = Owned(u)
           /\ \A i \in UserEntries : TableOf(u, i)' = TableOf(u, i)
           /\ \A p \in UserPages : UFrame(u, p)' = UFrame(u, p)
           /\ \A p \in Owned(u) : UFrame(u, p)' = UFrame(u, p)
           /\ \A p \in UserPages :
                 Unmapped(u, p)' /\ ~Uncleared(u, p)' => UserFrame(u, p)' = None
<1>1. vbits[u] \subseteq UserPages /\ Owned(u) \subseteq UserPages
  BY OwnedFacts
<1>2. Owned(u)' = Owned(u)
  BY DEF SameHand, Owned
<1>3. \A i \in UserEntries : TableOf(u, i)' = TableOf(u, i)
  BY DEF SameHand, TableOf
<1>4. ASSUME NEW p \in UserPages
      PROVE  UserFrame(u, p)' = UserFrame(u, p)
  BY UserPageParts DEF UserFrame, V2P
<1>5. ASSUME NEW p \in UserPages
      PROVE  UFrame(u, p)' = UFrame(u, p)
  BY <1>4 DEF SameHand, UFrame
<1>6. ASSUME NEW p \in UserPages, Unmapped(u, p)', ~Uncleared(u, p)'
      PROVE  UserFrame(u, p)' = None
  <2>1. Unmapped(u, p) /\ ~Uncleared(u, p)
    BY <1>6 DEF SameHand, Unmapped, Uncleared
  <2> QED
    BY <1>4, <2>1 DEF SpaceInv, MapsFit, UserMaps
<1> QED
  BY <1>1, <1>2, <1>3, <1>5, <1>6 DEF SameHand

LEMMA MainStays ==
    ASSUME ProcessesTypeOK, SpaceInv, SameHand(Main),
           \A p \in KernelPages : KernelFrame(p)' = KernelFrame(p)
    PROVE  /\ vbits'[Main] \subseteq KernelPages /\ Owned(Main)' = Owned(Main)
           /\ \A p \in KernelPages : KFrame(p)' = KFrame(p)
           /\ \A p \in Owned(Main) : KFrame(p)' = KFrame(p)
           /\ \A p \in KernelPages : Unmapped(Main, p)' => KernelFrame(p)' = None
<1>1. vbits[Main] \subseteq KernelPages /\ Owned(Main) \subseteq KernelPages
  BY OwnedFacts
<1>2. Owned(Main)' = Owned(Main)
  BY DEF SameHand, Owned
<1>3. \A p \in KernelPages : KFrame(p)' = KFrame(p)
  BY DEF SameHand, KFrame
<1>4. \A p \in KernelPages : Unmapped(Main, p)' => Unmapped(Main, p)
  BY DEF SameHand, Unmapped
<1> QED
  BY <1>1, <1>2, <1>3, <1>4 DEF SameHand, SpaceInv, MapsFit, KernelMaps

\* Page tables of the kernel that a step leaves alone.
LEMMA KernelTablesStay ==
    ASSUME \A i \in Entries : i >= UserTables => table'[BootTable(i)] = table[BootTable(i)]
    PROVE  \A p \in KernelPages : KernelFrame(p)' = KernelFrame(p)
  BY KernelPageParts, PoolFacts, Sizes DEF KernelFrame

-----------------------------------------------------------------------------
(* Who runs, and what it has in hand.                                      *)

LEMMA RunnerFacts ==
    ASSUME ProcessesInv, NEW t \in Processes \cup {Main}, Calls(t)
    PROVE  /\ t \in Threads /\ t # Idle /\ current = t /\ ~panic
           /\ pc[t] = "body" /\ cr3 = home[t]
           /\ t = Main \/ (t \in Built /\ t # Main)
           /\ Main \notin Built /\ home[Main] = BootDir
<1>1. t \in Processes => t \in Built
  BY DEF Calls, ProcessesInv, SpaceInv, PlacesFit, Created
<1>2. Main \notin Built /\ Main \in Threads
  BY ProcessesAssumption, ThreadsAssumption DEF Built
<1>3. home[Main] = BootDir /\ cr3 = home[current]
  BY <1>2 DEF ProcessesInv, SpaceInv, HomesFit, CpuFits
<1> QED
  BY <1>1, <1>2, <1>3, ProcessesAssumption, ThreadsAssumption DEF Calls

\* The page in hand and the table it is in.
LEMMA EntryFacts ==
    ASSUME ProcessesInv, NEW t \in Processes \cup {Main}, Calls(t),
           step[t] \in Taking \cup {"unmap"}
    PROVE  /\ Entry(t) = dir[home[t]][vaddr[t] \div PerTable]
           /\ vaddr[t] \in vbits[t] /\ vaddr[t] % PerTable \in Slots
           /\ t = Main => /\ vaddr[t] \in KernelPages
                          /\ Entry(t) = BootTable(vaddr[t] \div PerTable)
                          /\ Entry(t) \in PageFrames /\ Entry(t) # None
           /\ t # Main => /\ t \in Built /\ vaddr[t] \in UserPages
                          /\ vaddr[t] \div PerTable \in UserEntries
<1>1. ProcessesTypeOK /\ SpaceInv /\ KernelHalf /\ Main \in Threads
  BY ThreadsAssumption, ProcessesAssumption DEF ProcessesInv, SpaceInv, MapsFit
<1>2. cr3 = home[t] /\ (t = Main \/ (t \in Built /\ t # Main))
  BY RunnerFacts
<1>3. vaddr[t] \in vbits[t]
  <2>1. CASE step[t] \in Taking
    BY <1>1, <2>1 DEF SpaceInv, HandsFit, HandFits
  <2>2. CASE step[t] = "unmap"
    <3>1. vaddr[t] \in heap[t] /\ at[t] = "free"
      BY <1>1, <2>2 DEF SpaceInv, HandsFit, HandFits
    <3> QED
      BY <1>1, <1>2, <3>1 DEF SpaceInv, HeapsFit, Built
  <2> QED
    BY <2>1, <2>2
<1>4. CASE t = Main
  <2>1. vaddr[t] \in KernelPages
    BY <1>1, <1>3, <1>4, OwnedFacts
  <2> QED
    BY <1>1, <1>2, <1>3, <1>4, <2>1, KernelV2P, KernelPageParts DEF Entry
<1>5. CASE t \in Built /\ t # Main
  <2>1. vaddr[t] \in UserPages
    BY <1>1, <1>3, <1>5, OwnedFacts
  <2> QED
    BY <1>2, <1>3, <1>5, <2>1, UserPageParts DEF Entry
<1> QED
  BY <1>2, <1>4, <1>5

\* The frame of a mapped page is no directory and no page table.
LEMMA PageFacts ==
    ASSUME ProcessesInv, NEW t \in Processes \cup {Main}, Calls(t),
           step[t] \notin {"scan", "set", "unmap"} \cup Holding, NEW p \in vbits[t],
           t = Main => \A u \in Built : pgdir[u] # p
    PROVE  LET f == V2P(cr3, p) IN
           /\ t = Main => p \in Owned(Main) /\ f = KFrame(p) /\ f = KernelFrame(p)
           /\ t # Main => p \in Owned(t) /\ f = UFrame(t, p) /\ f = UserFrame(t, p)
           /\ f \in PoolOf(t) \cap taken /\ f \in PageFrames
           /\ \A u \in Threads : home[u] # f
           /\ \A u \in Built : \A i \in UserEntries : dir[home[u]][i] # f
           /\ \A i \in Entries : i >= UserTables => BootTable(i) # f
<1> DEFINE f == V2P(cr3, p)
<1>1. ProcessesTypeOK /\ SpaceInv /\ KernelHalf /\ Main \in Threads /\ cr3 = home[t]
  BY RunnerFacts, ThreadsAssumption, ProcessesAssumption DEF ProcessesInv, SpaceInv, MapsFit
<1>2. p \in Owned(t)
  BY DEF Owned
<1>3. \A i \in Entries : i >= UserTables =>
          BootTable(i) \in PageFrames /\ BootTable(i) \notin KernelPool \cup UserPool
  BY PoolFacts
<1>4. BootDir \notin KernelPool \cup UserPool
  BY Sizes DEF KernelPool, UserPool, BootDir, PoolEnd
<1>5. KernelPool \cap UserPool = {} /\ None \notin KernelPool \cup UserPool
  BY PoolFacts
<1>6. CASE t = Main
  <2>1. p \in KernelPages /\ step[Main] \notin Holding
    BY <1>1, <1>2, <1>6, OwnedFacts
  <2>2. f = KernelFrame(p) /\ f = KFrame(p)
    BY <1>1, <1>6, <2>1, KernelV2P DEF KFrame
  <2>3. f \in KernelPool \cap taken
    BY <1>1, <1>2, <1>6, <2>2 DEF SpaceInv, MapsFit, KernelMaps
  <2>4. ASSUME NEW u \in Built
        PROVE  home[u] # f
    <3>1. pgdir[u] \in Owned(Main) /\ home[u] = KFrame(pgdir[u])
      BY <1>1, HomesDiffer
    <3> QED
      BY <1>1, <1>2, <1>6, <2>2, <3>1 DEF SpaceInv, MapsFit, KernelMaps
  <2>5. \A u \in Threads \ Built : home[u] = BootDir
    BY <1>1 DEF SpaceInv, HomesFit
  <2>6. \A u \in Built : \A i \in UserEntries : dir[home[u]][i] # f
    BY <1>1, <1>2, <1>5, <1>6, <2>2, <2>3, TableFacts
  <2> HIDE DEF f
  <2> QED
    BY <1>2, <1>3, <1>4, <1>6, <2>2, <2>3, <2>4, <2>5, <2>6, PoolFacts DEF PoolOf, f
<1>7. CASE t # Main
  <2>1. t \in Built
    BY <1>7, RunnerFacts
  <2>2. f = UserFrame(t, p) /\ f = UFrame(t, p)
    BY <1>1, <1>7 DEF UserFrame, UFrame
  <2>3. f \in UserPool \cap taken
    BY <1>1, <1>2, <2>1, <2>2 DEF SpaceInv, MapsFit, UserMaps
  <2>4. \A u \in Built : home[u] \in KernelPool
    BY <1>1, HomesDiffer
  <2>5. \A u \in Threads \ Built : home[u] = BootDir
    BY <1>1 DEF SpaceInv, HomesFit
  <2>6. \A u \in Built : \A i \in UserEntries : dir[home[u]][i] # f
    BY <1>1, <1>5, <2>3, TableFacts
  <2> HIDE DEF f
  <2> QED
    BY <1>2, <1>3, <1>4, <1>5, <1>7, <2>2, <2>3, <2>4, <2>5, <2>6, PoolFacts DEF PoolOf, f
<1> QED
  BY <1>6, <1>7

\* A frame that is filled: only directories and tables that it holds change.
LEMMA FillFacts ==
    ASSUME ProcessesTypeOK, NEW f \in PageFrames, NEW w, Fill(f, w)
    PROVE  /\ \A g \in PageFrames \ {f} : dir'[g] = dir[g] /\ table'[g] = table[g]
           /\ \A i \in Entries : dir'[f][i] = w
           /\ \A i \in Slots : table'[f][i] = w
  BY DEF ProcessesTypeOK, Fill, Slots

\* A step that leaves the directories in use alone.
LEMMA HalfStays ==
    ASSUME KernelHalf, home[Main] = BootDir, Main \in Threads, UNCHANGED home,
           \A u \in Threads : \A i \in Entries :
               i >= UserTables \/ home[u] = BootDir => dir'[home[u]][i] = dir[home[u]][i]
    PROVE  KernelHalf'
  BY PoolFacts DEF KernelHalf

-----------------------------------------------------------------------------
(* The steps of malloc_page and mfree_page that move no frame.             *)

\* A step of t that leaves the frames of every page and table as they are.
LEMMA WorkMaps ==
    ASSUME ProcessesInv, NEW t \in Processes \cup {Main}, t = Main \/ t \in Built,
           UNCHANGED <<home, pgdir, taken>>, KernelHalf',
           \A u \in (Processes \cup {Main}) \ {t} : SameHand(u),
           \A u \in Built \ {t} : \A i \in UserEntries :
               /\ dir'[home[u]][i] = dir[home[u]][i]
               /\ dir[home[u]][i] # None => table'[dir[home[u]][i]] = table[dir[home[u]][i]],
           t # Main => \A p \in KernelPages : KernelFrame(p)' = KernelFrame(p),
           t = Main => /\ vbits'[Main] \subseteq KernelPages /\ Owned(Main)' = Owned(Main)
                       /\ \A p \in Owned(Main) : KFrame(p)' = KFrame(p)
                       /\ \A p \in KernelPages : Unmapped(Main, p)' => KernelFrame(p)' = None,
           t # Main => /\ vbits'[t] \subseteq UserPages /\ Owned(t)' = Owned(t)
                       /\ \A i \in UserEntries : TableOf(t, i)' = TableOf(t, i)
                       /\ \A p \in Owned(t) : UFrame(t, p)' = UFrame(t, p)
                       /\ \A p \in UserPages :
                             Unmapped(t, p)' /\ ~Uncleared(t, p)' => UserFrame(t, p)' = None
    PROVE  MapsFit'
<1>1. ProcessesTypeOK /\ SpaceInv /\ MapsFit
  BY DEF ProcessesInv, SpaceInv
<1>2. Built' = Built
  BY DEF Built
<1>3. /\ vbits'[Main] \subseteq KernelPages /\ Owned(Main)' = Owned(Main)
      /\ \A p \in Owned(Main) : KFrame(p)' = KFrame(p)
      /\ \A p \in KernelPages : Unmapped(Main, p)' => KernelFrame(p)' = None
  <2>1. CASE t = Main
    BY <2>1
  <2>2. CASE t # Main
    BY <1>1, <2>2, MainStays
  <2> QED
    BY <2>1, <2>2
<1>4. ASSUME NEW u \in Built
      PROVE  /\ vbits'[u] \subseteq UserPages /\ Owned(u)' = Owned(u)
             /\ \A i \in UserEntries : TableOf(u, i)' = TableOf(u, i)
             /\ \A p \in Owned(u) : UFrame(u, p)' = UFrame(u, p)
             /\ \A p \in UserPages :
                   Unmapped(u, p)' /\ ~Uncleared(u, p)' => UserFrame(u, p)' = None
  <2>1. u # Main /\ u \in Processes
    BY ProcessesAssumption DEF Built
  <2>2. CASE u = t
    BY <2>1, <2>2
  <2>3. CASE u # t
    <3>1. SameHand(u) /\ home'[u] = home[u]
      BY <2>1, <2>3
    <3>2. \A i \in UserEntries : dir'[home[u]][i] = dir[home[u]][i]
      BY <2>3
    <3>3. \A i \in UserEntries : dir[home[u]][i] # None =>
              table'[dir[home[u]][i]] = table[dir[home[u]][i]]
      BY <2>3
    <3> QED
      BY <1>1, <3>1, <3>2, <3>3, ProcessStays
  <2> QED
    BY <2>2, <2>3
<1> QED
  BY <1>1, <1>2, <1>3, <1>4, MapsKept

\* A step that leaves directories and page tables alone.
LEMMA QuietTables ==
    ASSUME SpaceInv, UNCHANGED <<dir, table, home>>
    PROVE  /\ KernelHalf'
           /\ \A p \in KernelPages : KernelFrame(p)' = KernelFrame(p)
           /\ \A u \in Built : \A p \in UserPages : UserFrame(u, p)' = UserFrame(u, p)
           /\ \A u \in Built : \A i \in UserEntries :
                 /\ dir'[home[u]][i] = dir[home[u]][i]
                 /\ dir[home[u]][i] # None =>
                       table'[dir[home[u]][i]] = table[dir[home[u]][i]]
<1>1. KernelHalf'
  BY DEF SpaceInv, MapsFit, KernelHalf
<1>2. \A p \in KernelPages : KernelFrame(p)' = KernelFrame(p)
  BY DEF KernelFrame
<1>3. \A u \in Built : \A p \in UserPages : UserFrame(u, p)' = UserFrame(u, p)
  BY DEF UserFrame, V2P
<1> QED
  BY <1>1, <1>2, <1>3

\* A frame that is filled and that is no directory and no page table.
LEMMA FillStays ==
    ASSUME ProcessesInv, NEW f \in PageFrames, NEW w, Fill(f, w), UNCHANGED home,
           \A u \in Threads : home[u] # f,
           \A u \in Built : \A i \in UserEntries : dir[home[u]][i] # f,
           \A i \in Entries : i >= UserTables => BootTable(i) # f
    PROVE  /\ KernelHalf'
           /\ \A u \in Threads : dir'[home[u]] = dir[home[u]]
           /\ \A p \in KernelPages : KernelFrame(p)' = KernelFrame(p)
           /\ \A u \in Built : \A p \in UserPages : UserFrame(u, p)' = UserFrame(u, p)
           /\ \A u \in Built : \A i \in UserEntries :
                 /\ dir'[home[u]][i] = dir[home[u]][i]
                 /\ dir[home[u]][i] # None =>
                       table'[dir[home[u]][i]] = table[dir[home[u]][i]]
<1>1. ProcessesTypeOK /\ SpaceInv /\ KernelHalf
  BY DEF ProcessesInv, SpaceInv, MapsFit
<1>2. /\ \A g \in PageFrames \ {f} : dir'[g] = dir[g] /\ table'[g] = table[g]
  BY <1>1, FillFacts
<1>3. \A u \in Threads : dir'[home[u]] = dir[home[u]]
  BY <1>1, <1>2 DEF ProcessesTypeOK
<1>4. Main \in Threads /\ home[Main] = BootDir /\ Built \subseteq Threads
  BY <1>1, ProcessesAssumption, ThreadsAssumption DEF SpaceInv, HomesFit, Built
<1>5. KernelHalf'
  BY <1>1, <1>3, <1>4, HalfStays
<1>6. \A i \in Entries : i >= UserTables => table'[BootTable(i)] = table[BootTable(i)]
  BY <1>2, PoolFacts
<1>7. \A p \in KernelPages : KernelFrame(p)' = KernelFrame(p)
  BY <1>6, KernelTablesStay
<1>8. ASSUME NEW u \in Built, NEW i \in UserEntries
      PROVE  /\ dir'[home[u]][i] = dir[home[u]][i]
             /\ dir[home[u]][i] # None =>
                   table'[dir[home[u]][i]] = table[dir[home[u]][i]]
  <2>1. dir[home[u]][i] # None => dir[home[u]][i] \in PageFrames
    BY <1>1, TableFacts
  <2> QED
    BY <1>2, <1>3, <1>4, <2>1
<1>9. ASSUME NEW u \in Built, NEW p \in UserPages
      PROVE  UserFrame(u, p)' = UserFrame(u, p)
  BY <1>8, UserPageParts DEF UserFrame, V2P
<1> QED
  BY <1>3, <1>5, <1>7, <1>8, <1>9

\* What every step of malloc_page and mfree_page leaves alone.
Work(t) ==
    \/ TakeAddress(t) \/ ScanFrame(t) \/ SetFrame(t)
    \/ ScanTable(t) \/ SetTable(t) \/ AddTable(t) \/ ClearTable(t)
    \/ MapPage(t) \/ ClearPage(t) \/ Pfree(t) \/ Unmap(t)

LEMMA WorkLeaves ==
    ASSUME ProcessesInv, NEW t \in Processes \cup {Main}, Work(t)
    PROVE  /\ Calls(t) /\ UNCHANGED <<home, pgdir, at, making, left>>
           /\ t \in Threads /\ Main \in Threads /\ Processes \subseteq Threads
           /\ \A u \in Threads \ {t} : step'[u] = step[u]
           /\ \A u \in (Processes \cup {Main}) \ {t} : SameHand(u) /\ heap'[u] = heap[u]
<1> USE ProcessesAssumption, ThreadsAssumption
<1>1. /\ step \in [Threads -> Steps] /\ DOMAIN heap = Threads
      /\ DOMAIN vaddr = Threads /\ DOMAIN page_phyaddr = Threads /\ DOMAIN pde_phyaddr = Threads
      /\ DOMAIN vbits = Processes \cup {Main}
  BY DEF ProcessesInv, ProcessesTypeOK
<1>2. CASE TakeAddress(t)
  BY <1>1, <1>2 DEF TakeAddress, Step, Within, Doing, SameHand
<1>3. CASE ScanFrame(t)
  BY <1>1, <1>3 DEF ScanFrame, Step, Doing, SameHand
<1>4. CASE SetFrame(t)
  BY <1>1, <1>4 DEF SetFrame, Step, Doing, SameHand, handVars
<1>5. CASE ScanTable(t)
  BY <1>1, <1>5 DEF ScanTable, Step, Doing, SameHand
<1>6. CASE SetTable(t)
  BY <1>1, <1>6 DEF SetTable, Step, Doing, SameHand, handVars
<1>7. CASE AddTable(t)
  BY <1>1, <1>7 DEF AddTable, Step, Doing, SameHand
<1>8. CASE ClearTable(t)
  BY <1>1, <1>8 DEF ClearTable, Step, Doing, SameHand, handVars
<1>9. CASE MapPage(t)
  BY <1>1, <1>9 DEF MapPage, Step, Doing, SameHand
<1>10. CASE ClearPage(t)
  BY <1>1, <1>10 DEF ClearPage, Step, Doing, SameHand
<1>11. CASE Pfree(t)
  BY <1>1, <1>11 DEF Pfree, Step, Within, SameHand
<1>12. CASE Unmap(t)
  BY <1>1, <1>12 DEF Unmap, Step, Doing, SameHand
<1> QED
  BY <1>2, <1>3, <1>4, <1>5, <1>6, <1>7, <1>8, <1>9, <1>10, <1>11, <1>12 DEF Work

\* The page that vaddr_get finds has no bit yet.
LEMMA TakenAddress ==
    ASSUME ProcessesInv, NEW t \in Processes \cup {Main}, TakeAddress(t)
    PROVE  /\ vaddr'[t] \notin vbits[t] /\ vbits'[t] = vbits[t] \cup {vaddr'[t]}
           /\ t = Main => vaddr'[t] \in KernelPages /\ at[t] # "begin"
           /\ t # Main => vaddr'[t] \in UserPages
           /\ t # Main /\ at[t] = "malloc" => vaddr'[t] \in HeapRange
           /\ at[t] = "begin" => vaddr'[t] = StackPage
           /\ step[t] = "in" /\ step'[t] = "scan" /\ at[t] \in Allocating
<1>1. ProcessesTypeOK /\ SpaceInv /\ PlacesFit /\ Calls(t) /\ t \in Threads
  BY WorkLeaves DEF ProcessesInv, SpaceInv, Work
<1>2. t = Main \/ (t \in Built /\ t # Main)
  BY <1>1, RunnerFacts
<1>3. /\ step[t] = "in" /\ step'[t] = "scan" /\ at[t] \in Allocating
      /\ vaddr'[t] = IF at[t] = "begin" THEN StackPage ELSE VaddrGet(t)
  BY <1>1 DEF TakeAddress, Within, Step, ProcessesTypeOK
<1>4. vbits'[t] = vbits[t] \cup {vaddr'[t]}
  BY <1>1 DEF TakeAddress, ProcessesTypeOK
<1>5. CASE t = Main
  <2>1. at[Main] \in {"pcb", "bitmap", "pgdir", "malloc"}
    BY <1>1, <1>3, <1>5 DEF PlacesFit, MainPlaces, Allocating
  <2> QED
    BY <1>1, <1>3, <1>4, <1>5, <2>1, MainAddress
<1>6. CASE t \in Built /\ t # Main
  <2>1. at[t] \in {"begin", "malloc"}
    BY <1>1, <1>3, <1>6 DEF PlacesFit, ProcessPlaces, Allocating, Built
  <2>2. at[t] = "begin" => vbits[t] = {}
    BY <1>1, <1>3, <1>6 DEF SpaceInv, HeapsFit, Built
  <2>3. at[t] = "malloc" => VaddrGet(t) \in HeapRange \ vbits[t]
    BY <1>1, <1>3, <1>6, HeapRoom
  <2> QED
    BY <1>3, <1>4, <1>6, <2>1, <2>2, <2>3, PoolFacts
<1> QED
  BY <1>2, <1>5, <1>6

LEMMA TakeAddressMaps ==
    ASSUME ProcessesInv, NEW t \in Processes \cup {Main}, TakeAddress(t)
    PROVE  MapsFit'
<1>1. ProcessesTypeOK /\ SpaceInv /\ MapsFit
  BY DEF ProcessesInv, SpaceInv
<1>2. Calls(t) /\ UNCHANGED <<home, pgdir, taken, dir, table>>
  BY WorkLeaves DEF TakeAddress, Work
<1>3. \A u \in (Processes \cup {Main}) \ {t} : SameHand(u)
  BY WorkLeaves DEF Work
<1>4. t = Main \/ (t \in Built /\ t # Main)
  BY <1>2, RunnerFacts
<1>5. /\ KernelHalf'
      /\ \A p \in KernelPages : KernelFrame(p)' = KernelFrame(p)
      /\ \A u \in Built : \A p \in UserPages : UserFrame(u, p)' = UserFrame(u, p)
      /\ \A u \in Built : \A i \in UserEntries :
            /\ dir'[home[u]][i] = dir[home[u]][i]
            /\ dir[home[u]][i] # None => table'[dir[home[u]][i]] = table[dir[home[u]][i]]
  BY <1>1, <1>2, QuietTables
<1>6. /\ vaddr'[t] \notin vbits[t] /\ vbits'[t] = vbits[t] \cup {vaddr'[t]}
      /\ step[t] = "in" /\ step'[t] = "scan"
      /\ t = Main => vaddr'[t] \in KernelPages
      /\ t # Main => vaddr'[t] \in UserPages
  BY TakenAddress
<1>7. Owned(t)' = Owned(t) /\ Owned(t) = vbits[t]
  BY <1>6 DEF Owned
<1>8. t = Main => /\ vbits'[Main] \subseteq KernelPages /\ Owned(Main)' = Owned(Main)
                  /\ \A p \in Owned(Main) : KFrame(p)' = KFrame(p)
                  /\ \A p \in KernelPages : Unmapped(Main, p)' => KernelFrame(p)' = None
  <2> SUFFICES ASSUME t = Main
               PROVE  /\ vbits'[Main] \subseteq KernelPages /\ Owned(Main)' = Owned(Main)
                      /\ \A p \in Owned(Main) : KFrame(p)' = KFrame(p)
                      /\ \A p \in KernelPages : Unmapped(Main, p)' => KernelFrame(p)' = None
    OBVIOUS
  <2>1. vbits[Main] \subseteq KernelPages
    BY <1>1, OwnedFacts
  <2>2. \A p \in Owned(Main) : KFrame(p)' = KFrame(p)
    BY <1>5, <1>6, <1>7, <2>1 DEF KFrame, Holding
  <2>3. \A p \in KernelPages : Unmapped(Main, p)' => Unmapped(Main, p)
    BY <1>6 DEF Unmapped
  <2> QED
    BY <1>1, <1>5, <1>6, <1>7, <2>1, <2>2, <2>3 DEF MapsFit, KernelMaps
<1>9. t # Main => /\ vbits'[t] \subseteq UserPages /\ Owned(t)' = Owned(t)
                  /\ \A i \in UserEntries : TableOf(t, i)' = TableOf(t, i)
                  /\ \A p \in Owned(t) : UFrame(t, p)' = UFrame(t, p)
                  /\ \A p \in UserPages :
                        Unmapped(t, p)' /\ ~Uncleared(t, p)' => UserFrame(t, p)' = None
  <2> SUFFICES ASSUME t # Main
               PROVE  /\ vbits'[t] \subseteq UserPages /\ Owned(t)' = Owned(t)
                      /\ \A i \in UserEntries : TableOf(t, i)' = TableOf(t, i)
                      /\ \A p \in Owned(t) : UFrame(t, p)' = UFrame(t, p)
                      /\ \A p \in UserPages :
                            Unmapped(t, p)' /\ ~Uncleared(t, p)' => UserFrame(t, p)' = None
    OBVIOUS
  <2>1. t \in Built /\ vbits[t] \subseteq UserPages
    BY <1>1, <1>4, OwnedFacts
  <2>2. \A p \in Owned(t) : UFrame(t, p)' = UFrame(t, p)
    BY <1>5, <1>6, <1>7, <2>1 DEF UFrame, Holding
  <2>3. \A i \in UserEntries : TableOf(t, i)' = TableOf(t, i)
    BY <1>2, <1>6 DEF TableOf
  <2>4. \A p \in UserPages : Unmapped(t, p)' => Unmapped(t, p) /\ ~Uncleared(t, p)
    BY <1>6 DEF Unmapped, Uncleared
  <2>5. \A p \in UserPages : Unmapped(t, p)' => UserFrame(t, p)' = None
    BY <1>1, <1>5, <2>1, <2>4 DEF MapsFit, UserMaps
  <2> QED
    BY <1>6, <1>7, <2>1, <2>2, <2>3, <2>5
<1> QED
  BY <1>2, <1>3, <1>4, <1>5, <1>8, <1>9, WorkMaps

LEMMA ScanMaps ==
    ASSUME ProcessesInv, NEW t \in Processes \cup {Main}, ScanFrame(t) \/ ScanTable(t)
    PROVE  MapsFit'
<1>1. ProcessesTypeOK /\ SpaceInv /\ MapsFit
  BY DEF ProcessesInv, SpaceInv
<1>2. Calls(t) /\ UNCHANGED <<home, pgdir, taken, dir, table, vaddr, vbits>> /\ t \in Threads
  BY WorkLeaves DEF ScanFrame, ScanTable, Work
<1>3. \A u \in (Processes \cup {Main}) \ {t} : SameHand(u)
  BY WorkLeaves DEF Work
<1>4. t = Main \/ (t \in Built /\ t # Main)
  BY <1>2, RunnerFacts
<1>5. /\ KernelHalf'
      /\ \A p \in KernelPages : KernelFrame(p)' = KernelFrame(p)
      /\ \A u \in Built : \A p \in UserPages : UserFrame(u, p)' = UserFrame(u, p)
      /\ \A u \in Built : \A i \in UserEntries :
            /\ dir'[home[u]][i] = dir[home[u]][i]
            /\ dir[home[u]][i] # None => table'[dir[home[u]][i]] = table[dir[home[u]][i]]
  BY <1>1, <1>2, QuietTables
<1>6. \/ step[t] = "scan" /\ step'[t] = "set"
      \/ step[t] = "map" /\ step'[t] = "tset" /\ page_phyaddr'[t] = page_phyaddr[t]
  BY <1>1, <1>2 DEF ScanFrame, ScanTable, Doing, Step, ProcessesTypeOK
<1>7. Owned(t)' = Owned(t)
  BY <1>2, <1>6 DEF Owned
<1>8. t = Main => /\ vbits'[Main] \subseteq KernelPages /\ Owned(Main)' = Owned(Main)
                  /\ \A p \in Owned(Main) : KFrame(p)' = KFrame(p)
                  /\ \A p \in KernelPages : Unmapped(Main, p)' => KernelFrame(p)' = None
  <2> SUFFICES ASSUME t = Main
               PROVE  /\ vbits'[Main] \subseteq KernelPages /\ Owned(Main)' = Owned(Main)
                      /\ \A p \in Owned(Main) : KFrame(p)' = KFrame(p)
                      /\ \A p \in KernelPages : Unmapped(Main, p)' => KernelFrame(p)' = None
    OBVIOUS
  <2>1. vbits[Main] \subseteq KernelPages /\ Owned(Main) \subseteq vbits[Main]
    BY <1>1, OwnedFacts
  <2>2. \A p \in Owned(Main) : KFrame(p)' = KFrame(p)
    BY <1>2, <1>5, <1>6, <2>1 DEF KFrame, Holding
  <2>3. \A p \in KernelPages : Unmapped(Main, p)' => Unmapped(Main, p)
    BY <1>2, <1>6 DEF Unmapped, Holding
  <2> QED
    BY <1>1, <1>2, <1>5, <1>7, <2>1, <2>2, <2>3 DEF MapsFit, KernelMaps
<1>9. t # Main => /\ vbits'[t] \subseteq UserPages /\ Owned(t)' = Owned(t)
                  /\ \A i \in UserEntries : TableOf(t, i)' = TableOf(t, i)
                  /\ \A p \in Owned(t) : UFrame(t, p)' = UFrame(t, p)
                  /\ \A p \in UserPages :
                        Unmapped(t, p)' /\ ~Uncleared(t, p)' => UserFrame(t, p)' = None
  <2> SUFFICES ASSUME t # Main
               PROVE  /\ vbits'[t] \subseteq UserPages /\ Owned(t)' = Owned(t)
                      /\ \A i \in UserEntries : TableOf(t, i)' = TableOf(t, i)
                      /\ \A p \in Owned(t) : UFrame(t, p)' = UFrame(t, p)
                      /\ \A p \in UserPages :
                            Unmapped(t, p)' /\ ~Uncleared(t, p)' => UserFrame(t, p)' = None
    OBVIOUS
  <2>1. t \in Built /\ vbits[t] \subseteq UserPages /\ Owned(t) \subseteq vbits[t]
    BY <1>1, <1>4, OwnedFacts
  <2>2. \A p \in Owned(t) : UFrame(t, p)' = UFrame(t, p)
    BY <1>2, <1>5, <1>6, <2>1 DEF UFrame, Holding
  <2>3. \A i \in UserEntries : TableOf(t, i)' = TableOf(t, i)
    BY <1>2, <1>6 DEF TableOf
  <2>4. \A p \in UserPages : Unmapped(t, p)' => Unmapped(t, p) /\ ~Uncleared(t, p)
    BY <1>2, <1>6 DEF Unmapped, Uncleared, Holding
  <2>5. \A p \in UserPages : Unmapped(t, p)' => UserFrame(t, p)' = None
    BY <1>1, <1>5, <2>1, <2>4 DEF MapsFit, UserMaps
  <2> QED
    BY <1>2, <1>7, <2>1, <2>2, <2>3, <2>5
<1> QED
  BY <1>2, <1>3, <1>4, <1>5, <1>8, <1>9, WorkMaps

\* A page table is made for a process: main's entries all have theirs.
LEMMA TableMaker ==
    ASSUME ProcessesInv, NEW t \in Processes \cup {Main}, Calls(t),
           step[t] \in {"tset", "pde", "zero", "pte"}
    PROVE  /\ t \in Built /\ t # Main /\ t \in Threads /\ cr3 = home[t]
           /\ vaddr[t] \in UserPages /\ vaddr[t] \in vbits[t]
           /\ vaddr[t] \div PerTable \in UserEntries
           /\ Entry(t) = dir[home[t]][vaddr[t] \div PerTable]
           /\ step[t] \in {"tset", "pde"} => Entry(t) = None
           /\ step[t] \in {"zero", "pte"} => Entry(t) # None
<1>1. t # Main /\ HandFits(t)
  BY DEF ProcessesInv, SpaceInv, HandsFit, HandFits
<1>2. step[t] \in Taking
  BY DEF Taking, Holding
<1>3. /\ Entry(t) = dir[home[t]][vaddr[t] \div PerTable]
      /\ t \in Built /\ vaddr[t] \in UserPages /\ vaddr[t] \in vbits[t]
      /\ vaddr[t] \div PerTable \in UserEntries
  BY <1>1, <1>2, EntryFacts
<1>4. /\ step[t] \in {"tset", "pde"} => dir[home[t]][vaddr[t] \div PerTable] = None
      /\ step[t] \in {"zero", "pte"} => dir[home[t]][vaddr[t] \div PerTable] # None
  BY <1>1 DEF HandFits
<1> QED
  BY <1>1, <1>3, <1>4, RunnerFacts

\* The new entry shows in the directory what t had in hand.
LEMMA AddTableMaps ==
    ASSUME ProcessesInv, NEW t \in Processes \cup {Main}, AddTable(t)
    PROVE  /\ MapsFit'
           /\ \A p \in KernelPages : KernelFrame(p)' = KernelFrame(p)
           /\ dir' \in [PageFrames -> [Entries -> PageFrames \cup {None}]]
           /\ dir'[home[t]][vaddr[t] \div PerTable] # None
           /\ \A p \in Owned(t) : p \div PerTable = vaddr[t] \div PerTable => p = vaddr[t]
           /\ \A u \in Threads \ {t} : dir'[home[u]] = dir[home[u]]
<1> DEFINE i == vaddr[t] \div PerTable
<1>1. ProcessesTypeOK /\ SpaceInv /\ MapsFit /\ KernelHalf
  BY DEF ProcessesInv, SpaceInv, MapsFit
<1>2. /\ Calls(t) /\ UNCHANGED <<home, pgdir, taken, table, vaddr, vbits, page_phyaddr>>
      /\ t \in Threads /\ Main \in Threads /\ Processes \subseteq Threads
  BY WorkLeaves DEF AddTable, Work
<1>3. \A u \in (Processes \cup {Main}) \ {t} : SameHand(u)
  BY WorkLeaves DEF Work
<1>4. step[t] = "pde" /\ step'[t] = "zero"
  BY <1>1, <1>2 DEF AddTable, Doing, Step, ProcessesTypeOK
<1>5. /\ t \in Built /\ t # Main /\ cr3 = home[t] /\ i \in UserEntries
      /\ vaddr[t] \in UserPages /\ dir[home[t]][i] = None
  BY <1>2, <1>4, TableMaker
<1>6. TableOf(t, i) = pde_phyaddr[t]
  BY <1>4 DEF TableOf
<1>7. home[t] \in PageFrames /\ i \in Entries /\ home[t] # BootDir
      /\ \A u \in Threads \ {t} : home[u] # home[t]
  BY <1>1, <1>2, <1>5, HomesDiffer, PoolFacts DEF ProcessesTypeOK
<1>8. /\ dir'[home[t]][i] = pde_phyaddr[t]
      /\ \A j \in Entries \ {i} : dir'[home[t]][j] = dir[home[t]][j]
      /\ \A f \in PageFrames \ {home[t]} : dir'[f] = dir[f]
      /\ dir' \in [PageFrames -> [Entries -> PageFrames \cup {None}]]
  <2>1. dir' = [dir EXCEPT ![home[t]][i] = pde_phyaddr[t]]
    BY <1>5 DEF AddTable
  <2> HIDE DEF i
  <2> QED
    BY <1>1, <1>2, <1>7, <2>1 DEF ProcessesTypeOK
<1>9. pde_phyaddr[t] # None
  BY <1>1, <1>4 DEF SpaceInv, HandsFit, HandFits
<1>10. \A u \in Threads \ {t} : dir'[home[u]] = dir[home[u]]
  BY <1>1, <1>7, <1>8 DEF ProcessesTypeOK
<1>11. KernelHalf'
  <2>1. ASSUME NEW u \in Threads, NEW j \in Entries, j >= UserTables \/ home[u] = BootDir
        PROVE  dir'[home[u]][j] = dir[home[u]][j]
    <3>1. CASE u # t
      BY <1>10, <3>1
    <3>2. CASE u = t
      <4>1. j # i
        BY <1>5, <1>7, <2>1, <3>2, Sizes DEF UserEntries
      <4> QED
        BY <1>8, <3>2, <4>1
    <3> QED
      BY <3>1, <3>2
  <2>2. home[Main] = BootDir
    BY <1>2, RunnerFacts
  <2> HIDE DEF i
  <2> QED
    BY <1>1, <1>2, <2>1, <2>2, HalfStays
<1>12. \A p \in KernelPages : KernelFrame(p)' = KernelFrame(p)
  BY <1>2 DEF KernelFrame
<1>13. \A u \in Built \ {t} : \A j \in UserEntries : dir'[home[u]][j] = dir[home[u]][j]
  BY <1>2, <1>10 DEF Built
<1>14. Owned(t)' = Owned(t)
  BY <1>2, <1>4 DEF Owned
<1>15. \A j \in UserEntries : TableOf(t, j)' = TableOf(t, j)
  <2>1. ASSUME NEW j \in UserEntries
        PROVE  TableOf(t, j)' = TableOf(t, j)
    <3>1. CASE j = i
      BY <1>2, <1>4, <1>6, <1>8, <3>1 DEF TableOf
    <3>2. CASE j # i
      BY <1>2, <1>4, <1>8, <3>2, PoolFacts DEF TableOf
    <3> QED
      BY <3>1, <3>2
  <2> QED
    BY <2>1
<1>16. ASSUME NEW p \in UserPages, p \div PerTable # i
       PROVE  UserFrame(t, p)' = UserFrame(t, p)
  <2>1. p \div PerTable \in Entries \ {i}
    BY <1>16, UserPageParts, PoolFacts
  <2> HIDE DEF i
  <2> QED
    BY <1>2, <1>8, <2>1 DEF UserFrame, V2P
<1>17. ASSUME NEW p \in UserPages, p \div PerTable = i
       PROVE  UserFrame(t, p) = None
  BY <1>5, <1>17 DEF UserFrame, V2P
<1>18. Owned(t) \subseteq UserPages /\ vbits[t] \subseteq UserPages
  BY <1>1, <1>5, OwnedFacts
<1>19. ASSUME NEW p \in Owned(t)
       PROVE  /\ UFrame(t, p)' = UFrame(t, p)
              /\ p \div PerTable = i => p = vaddr[t]
  <2>1. CASE p = vaddr[t]
    BY <1>2, <1>4, <2>1 DEF UFrame, Holding
  <2>2. CASE p # vaddr[t]
    <3>1. UFrame(t, p) = UserFrame(t, p) /\ UFrame(t, p)' = UserFrame(t, p)'
      BY <1>2, <2>2 DEF UFrame
    <3>2. UFrame(t, p) \in UserPool
      BY <1>1, <1>5, <1>19 DEF MapsFit, UserMaps
    <3>3. p \div PerTable # i
      BY <1>17, <1>18, <1>19, <3>1, <3>2, PoolFacts
    <3> QED
      BY <1>16, <1>18, <1>19, <3>1, <3>3
  <2> QED
    BY <2>1, <2>2
<1>20. ASSUME NEW p \in UserPages, Unmapped(t, p)', ~Uncleared(t, p)'
       PROVE  UserFrame(t, p)' = None
  <2>1. p \div PerTable # i
    BY <1>2, <1>4, <1>20 DEF Uncleared
  <2>2. Unmapped(t, p) /\ ~Uncleared(t, p)
    BY <1>2, <1>4, <1>20 DEF Unmapped, Uncleared, Holding
  <2>3. UserFrame(t, p) = None
    BY <1>1, <1>5, <2>2 DEF MapsFit, UserMaps
  <2> QED
    BY <1>16, <2>1, <2>3
<1>21. MapsFit'
  <2>1. vbits'[t] \subseteq UserPages
    BY <1>2, <1>18
  <2> HIDE DEF i
  <2> QED
    BY <1>2, <1>3, <1>5, <1>11, <1>12, <1>13, <1>14, <1>15, <1>19, <1>20, <2>1, WorkMaps
<1> QED
  BY <1>8, <1>9, <1>10, <1>12, <1>19, <1>21

LEMMA FillTypes ==
    ASSUME ProcessesTypeOK, NEW f, NEW w \in PageFrames \cup {None}, Fill(f, w)
    PROVE  /\ dir' \in [PageFrames -> [Entries -> PageFrames \cup {None}]]
           /\ table' \in [PageFrames -> [Slots -> PageFrames \cup {None}]]
  BY DEF ProcessesTypeOK, Fill, Slots

\* The new page table is cleared: the pages behind it own nothing yet.
LEMMA ClearTableMaps ==
    ASSUME ProcessesInv, NEW t \in Processes \cup {Main}, ClearTable(t)
    PROVE  /\ MapsFit'
           /\ \A p \in KernelPages : KernelFrame(p)' = KernelFrame(p)
           /\ \A u \in Threads : dir'[home[u]] = dir[home[u]]
<1> DEFINE i == vaddr[t] \div PerTable
           f == dir[home[t]][i]
<1>1. ProcessesTypeOK /\ SpaceInv /\ MapsFit /\ KernelHalf
  BY DEF ProcessesInv, SpaceInv, MapsFit
<1>2. /\ Calls(t) /\ UNCHANGED <<home, pgdir, taken, vaddr, vbits, page_phyaddr, pde_phyaddr>>
      /\ t \in Threads /\ Main \in Threads /\ Processes \subseteq Threads
  BY WorkLeaves DEF ClearTable, Work, handVars
<1>3. \A u \in (Processes \cup {Main}) \ {t} : SameHand(u)
  BY WorkLeaves DEF Work
<1>4. step[t] = "zero" /\ step'[t] = "pte"
  BY <1>1, <1>2 DEF ClearTable, Doing, Step, ProcessesTypeOK
<1>5. /\ t \in Built /\ t # Main /\ i \in UserEntries /\ vaddr[t] \in UserPages
      /\ Entry(t) = f /\ f # None
  BY <1>2, <1>4, TableMaker
<1>6. /\ f \in PageFrames
      /\ \A j \in Entries : j >= UserTables => BootTable(j) # f
      /\ \A u \in Threads : home[u] # f
      /\ \A u \in Built : \A j \in UserEntries : dir[home[u]][j] = f => u = t /\ j = i
  BY <1>1, <1>5, TableFacts
<1> HIDE DEF f, i
<1>7. /\ \A g \in PageFrames \ {f} : dir'[g] = dir[g] /\ table'[g] = table[g]
      /\ \A s \in Slots : table'[f][s] = None
  BY <1>1, <1>5, <1>6, FillFacts DEF ClearTable
<1>8. \A u \in Threads : dir'[home[u]] = dir[home[u]]
  BY <1>1, <1>6, <1>7 DEF ProcessesTypeOK
<1>9. home[Main] = BootDir
  BY <1>2, RunnerFacts
<1>10. KernelHalf'
  BY <1>1, <1>2, <1>8, <1>9, HalfStays
<1>11. \A j \in Entries : j >= UserTables => table'[BootTable(j)] = table[BootTable(j)]
  BY <1>6, <1>7, PoolFacts
<1>12. \A p \in KernelPages : KernelFrame(p)' = KernelFrame(p)
  BY <1>11, KernelTablesStay
<1>13. ASSUME NEW u \in Built, NEW j \in UserEntries, u # t \/ j # i
       PROVE  /\ dir'[home[u]][j] = dir[home[u]][j]
              /\ dir[home[u]][j] # None => table'[dir[home[u]][j]] = table[dir[home[u]][j]]
  <2>1. u \in Threads
    BY <1>2 DEF Built
  <2>2. dir[home[u]][j] # None => dir[home[u]][j] \in PageFrames
    BY <1>1, TableFacts
  <2>3. dir[home[u]][j] # f
    BY <1>6, <1>13
  <2> QED
    BY <1>7, <1>8, <2>1, <2>2, <2>3
<1>14. Owned(t)' = Owned(t)
  BY <1>2, <1>4 DEF Owned
<1>15. \A j \in UserEntries : TableOf(t, j)' = TableOf(t, j)
  BY <1>2, <1>4, <1>8 DEF TableOf
<1>16. ASSUME NEW p \in UserPages, p \div PerTable # i
       PROVE  UserFrame(t, p)' = UserFrame(t, p)
  <2>1. p \div PerTable \in UserEntries
    BY UserPageParts
  <2> QED
    BY <1>2, <1>5, <1>13, <1>16, <2>1 DEF UserFrame, V2P
<1>17. ASSUME NEW p \in UserPages, p \div PerTable = i
       PROVE  UserFrame(t, p)' = None
  <2>1. dir'[home'[t]][p \div PerTable] = f
    BY <1>2, <1>8, <1>17 DEF f
  <2>2. p % PerTable \in Slots
    BY UserPageParts
  <2> QED
    BY <1>5, <1>7, <2>1, <2>2 DEF UserFrame, V2P
<1>18. Owned(t) \subseteq UserPages /\ vbits[t] \subseteq UserPages
  BY <1>1, <1>5, OwnedFacts
<1>19. ASSUME NEW p \in Owned(t)
       PROVE  UFrame(t, p)' = UFrame(t, p)
  <2>1. CASE p = vaddr[t]
    BY <1>2, <1>4, <2>1 DEF UFrame, Holding
  <2>2. CASE p # vaddr[t]
    <3>1. UFrame(t, p) = UserFrame(t, p) /\ UFrame(t, p)' = UserFrame(t, p)'
      BY <1>2, <2>2 DEF UFrame
    <3>2. p \div PerTable # i
      BY <1>1, <1>4, <1>19, <2>2 DEF SpaceInv, HandsFit, HandFits, i
    <3> QED
      BY <1>16, <1>18, <1>19, <3>1, <3>2
  <2> QED
    BY <2>1, <2>2
<1>20. ASSUME NEW p \in UserPages, Unmapped(t, p)'
       PROVE  UserFrame(t, p)' = None
  <2>1. CASE p \div PerTable = i
    BY <1>17, <2>1
  <2>2. CASE p \div PerTable # i
    <3>1. Unmapped(t, p) /\ ~Uncleared(t, p)
      BY <1>2, <1>4, <1>20, <2>2 DEF Unmapped, Uncleared, Holding, i
    <3>2. UserFrame(t, p) = None
      BY <1>1, <1>5, <3>1 DEF MapsFit, UserMaps
    <3> QED
      BY <1>16, <2>2, <3>2
  <2> QED
    BY <2>1, <2>2
<1>21. MapsFit'
  <2>1. vbits'[t] \subseteq UserPages
    BY <1>2, <1>18
  <2>2. \A u \in Built \ {t} : \A j \in UserEntries :
            /\ dir'[home[u]][j] = dir[home[u]][j]
            /\ dir[home[u]][j] # None => table'[dir[home[u]][j]] = table[dir[home[u]][j]]
    BY <1>13
  <2> QED
    BY <1>2, <1>3, <1>5, <1>10, <1>12, <1>14, <1>15, <1>19, <1>20, <2>1, <2>2, WorkMaps
<1> QED
  BY <1>8, <1>12, <1>21

\* What page_table_add asserts: the entry it writes is free.
LEMMA EntryFree ==
    ASSUME ProcessesInv, NEW t \in Processes \cup {Main}, MapPage(t)
    PROVE  /\ Calls(t) /\ step[t] \in {"map", "pte"}
           /\ Entry(t) # None /\ Entry(t) \in PageFrames
           /\ table[Entry(t)][vaddr[t] % PerTable] = None
           /\ \A u \in Built \ {t} : \A i \in UserEntries : dir[home[u]][i] # Entry(t)
<1>1. ProcessesTypeOK /\ SpaceInv /\ MapsFit
  BY DEF ProcessesInv, SpaceInv, MapsFit
<1>2. Calls(t) /\ step[t] \in {"map", "pte"} /\ Entry(t) # None
  BY DEF MapPage, Doing
<1>3. step[t] \in Taking /\ step[t] \in Holding /\ step[t] # "zero"
  BY <1>2 DEF Taking, Holding
<1>4. Unmapped(t, vaddr[t])
  BY <1>3 DEF Unmapped
<1>5. /\ Entry(t) = dir[home[t]][vaddr[t] \div PerTable]
      /\ t = Main => /\ vaddr[t] \in KernelPages
                     /\ Entry(t) = BootTable(vaddr[t] \div PerTable)
                     /\ Entry(t) \in PageFrames
      /\ t # Main => /\ t \in Built /\ vaddr[t] \in UserPages
                     /\ vaddr[t] \div PerTable \in UserEntries
  BY <1>2, <1>3, EntryFacts
<1>6. CASE t = Main
  <2>1. KernelFrame(vaddr[t]) = None
    BY <1>1, <1>4, <1>5, <1>6 DEF MapsFit, KernelMaps
  <2>2. \A u \in Built : \A i \in UserEntries : dir[home[u]][i] # Entry(t)
    <3>1. vaddr[t] \div PerTable \in Entries /\ vaddr[t] \div PerTable >= UserTables
      BY <1>5, <1>6, KernelPageParts, Sizes, PoolFacts
    <3> QED
      BY <1>1, <1>2, <1>5, <1>6, <3>1, TableFacts
  <2> QED
    BY <1>2, <1>5, <1>6, <2>1, <2>2 DEF KernelFrame
<1>7. CASE t # Main
  <2>1. UserFrame(t, vaddr[t]) = None
    BY <1>1, <1>3, <1>4, <1>5, <1>7 DEF MapsFit, UserMaps, Uncleared
  <2>2. table[Entry(t)][vaddr[t] % PerTable] = None
    BY <1>2, <1>5, <2>1 DEF UserFrame, V2P
  <2>3. Entry(t) \in PageFrames
    BY <1>1, <1>2, <1>5, <1>7, TableFacts
  <2>4. \A u \in Built \ {t} : \A i \in UserEntries : dir[home[u]][i] # Entry(t)
    BY <1>1, <1>2, <1>5, <1>7, TableFacts
  <2> QED
    BY <1>2, <2>2, <2>3, <2>4
<1> QED
  BY <1>6, <1>7

\* A page table that changes in one entry, of t's page p.
LEMMA EntryWritten ==
    ASSUME ProcessesInv, NEW t \in Processes \cup {Main}, Calls(t),
           step[t] \in Taking \cup {"unmap"}, Entry(t) # None, NEW w,
           table' = [table EXCEPT ![Entry(t)][vaddr[t] % PerTable] = w],
           UNCHANGED <<dir, home>>
    PROVE  /\ KernelHalf'
           /\ \A u \in Built \ {t} : \A i \in UserEntries :
                 /\ dir'[home[u]][i] = dir[home[u]][i]
                 /\ dir[home[u]][i] # None => table'[dir[home[u]][i]] = table[dir[home[u]][i]]
           /\ \A p \in KernelPages :
                 KernelFrame(p)' = IF t = Main /\ p = vaddr[t] THEN w ELSE KernelFrame(p)
           /\ t # Main => \A p \in UserPages :
                 UserFrame(t, p)' = IF p = vaddr[t] THEN w ELSE UserFrame(t, p)
<1> DEFINE f == Entry(t)
           v == vaddr[t]
           s == v % PerTable
<1>1. ProcessesTypeOK /\ SpaceInv /\ MapsFit /\ KernelHalf
  BY DEF ProcessesInv, SpaceInv, MapsFit
<1>2. /\ f = dir[home[t]][v \div PerTable] /\ s \in Slots
      /\ t = Main => /\ v \in KernelPages
                     /\ f = BootTable(v \div PerTable) /\ f \in PageFrames
      /\ t # Main => /\ t \in Built /\ v \in UserPages
                     /\ v \div PerTable \in UserEntries
  BY EntryFacts
<1>20. ASSUME NEW u \in Built, NEW i \in UserEntries, dir[home[u]][i] # None
       PROVE  /\ dir[home[u]][i] \in PageFrames
              /\ \A j \in Entries : j >= UserTables => BootTable(j) # dir[home[u]][i]
              /\ \A x \in Built : \A j \in UserEntries :
                    dir[home[x]][j] = dir[home[u]][i] => x = u /\ j = i
  BY <1>1, <1>20, TableFacts
<1>3. f \in PageFrames
  <2>1. CASE t = Main
    BY <1>2, <2>1
  <2>2. CASE t # Main
    BY <1>2, <1>20, <2>2
  <2> QED
    BY <2>1, <2>2
<1>4. table' = [table EXCEPT ![f][s] = w] /\ f # None
  OBVIOUS
<1> HIDE DEF f, s
<1>5. /\ table'[f][s] = w
      /\ \A x \in Slots \ {s} : table'[f][x] = table[f][x]
      /\ \A g \in PageFrames \ {f} : table'[g] = table[g]
  <2>1. table \in [PageFrames -> [Slots -> PageFrames \cup {None}]]
    BY <1>1 DEF ProcessesTypeOK
  <2>2. table[f] \in [Slots -> PageFrames \cup {None}]
    BY <1>3, <2>1
  <2>3. DOMAIN table = PageFrames
    BY <2>1
  <2>4. table'[f] = [table[f] EXCEPT ![s] = w]
    BY <1>3, <1>4, <2>3
  <2>5. \A g \in PageFrames \ {f} : table'[g] = table[g]
    BY <1>4, <2>3
  <2>6. s \in Slots /\ DOMAIN table[f] = Slots
    BY <1>2, <2>2
  <2>7. table'[f][s] = w /\ \A x \in Slots \ {s} : table'[f][x] = table[f][x]
    BY <2>4, <2>6
  <2> QED
    BY <2>5, <2>7
<1>6. KernelHalf'
  BY <1>1 DEF KernelHalf
<1>7. \A u \in Built \ {t} : \A i \in UserEntries : dir[home[u]][i] # f
  <2>1. CASE t = Main
    <3>1. v \div PerTable \in Entries /\ v \div PerTable >= UserTables
      BY <1>2, <2>1, KernelPageParts, Sizes, PoolFacts
    <3>2. f = BootTable(v \div PerTable)
      BY <1>2, <2>1
    <3>3. ASSUME NEW u \in Built \ {t}, NEW i \in UserEntries, dir[home[u]][i] = f
          PROVE  FALSE
      BY <1>4, <3>1, <3>2, <3>3, <1>20
    <3> QED
      BY <3>3
  <2>2. CASE t # Main
    <3>1. t \in Built /\ v \div PerTable \in UserEntries /\ f = dir[home[t]][v \div PerTable]
      BY <1>2, <2>2
    <3> QED
      BY <1>4, <1>20, <3>1
  <2> QED
    BY <2>1, <2>2
<1>8. ASSUME NEW u \in Built \ {t}, NEW i \in UserEntries
      PROVE  /\ dir'[home[u]][i] = dir[home[u]][i]
             /\ dir[home[u]][i] # None => table'[dir[home[u]][i]] = table[dir[home[u]][i]]
  <2>1. dir[home[u]][i] # None => dir[home[u]][i] \in PageFrames
    BY <1>20
  <2> QED
    BY <1>5, <1>7, <2>1
<1>9. t # Main => \A j \in Entries : j >= UserTables => BootTable(j) # f
  BY <1>2, <1>4, <1>20
<1>10. t # Main => \A p \in KernelPages : KernelFrame(p)' = KernelFrame(p)
  <2>1. t # Main => \A j \in Entries : j >= UserTables => table'[BootTable(j)] = table[BootTable(j)]
    BY <1>5, <1>9, PoolFacts
  <2> QED
    BY <2>1, KernelTablesStay
<1>11. ASSUME t = Main, NEW p \in KernelPages
       PROVE  KernelFrame(p)' = IF p = v THEN w ELSE KernelFrame(p)
  <2>1. p % PerTable \in Slots /\ BootTable(p \div PerTable) \in PageFrames
    BY <1>1, ThreadsAssumption, KernelV2P, KernelPageParts
  <2>2. CASE p = v
    <3>1. BootTable(p \div PerTable) = f /\ p % PerTable = s
      BY <1>2, <1>11, <2>2 DEF s
    <3> QED
      BY <1>5, <2>2, <3>1 DEF KernelFrame
  <2>3. CASE BootTable(p \div PerTable) # f
    <3>1. p # v
      BY <1>2, <1>11, <2>3
    <3>2. table'[BootTable(p \div PerTable)] = table[BootTable(p \div PerTable)]
      BY <1>5, <2>1, <2>3
    <3> QED
      BY <3>1, <3>2 DEF KernelFrame
  <2>4. CASE BootTable(p \div PerTable) = f /\ p # v
    <3>1. p \div PerTable = v \div PerTable
      <4>1. v \div PerTable \in Entries /\ v \div PerTable >= UserTables
        BY <1>2, <1>11, KernelPageParts, Sizes, PoolFacts
      <4>2. p \div PerTable \in Entries /\ p \div PerTable >= UserTables
        BY KernelPageParts, Sizes, PoolFacts
      <4> QED
        BY <1>2, <1>11, <2>4, <4>1, <4>2, PoolFacts
    <3>2. p % PerTable # s
      BY <1>2, <1>11, <2>4, <3>1, SamePage DEF s
    <3> QED
      BY <1>5, <2>1, <2>4, <3>2 DEF KernelFrame
  <2> QED
    BY <2>2, <2>3, <2>4
<1>12. ASSUME t # Main, NEW p \in UserPages
       PROVE  UserFrame(t, p)' = IF p = v THEN w ELSE UserFrame(t, p)
  <2>1. p % PerTable \in Slots /\ p \div PerTable \in UserEntries
    BY UserPageParts
  <2>2. dir[home[t]][p \div PerTable] # None => dir[home[t]][p \div PerTable] \in PageFrames
    BY <1>2, <1>12, <2>1, <1>20
  <2>3. CASE p = v
    <3>1. dir'[home'[t]][p \div PerTable] = f /\ p % PerTable = s
      BY <1>2, <2>3 DEF s
    <3>2. UserFrame(t, p)' = table'[f][s]
      BY <1>4, <3>1 DEF UserFrame, V2P
    <3> QED
      BY <1>5, <2>3, <3>2
  <2>4. CASE dir[home[t]][p \div PerTable] # f
    <3> DEFINE g == dir[home[t]][p \div PerTable]
    <3>1. p # v /\ dir'[home'[t]][p \div PerTable] = g
      BY <1>2, <2>4
    <3>2. g # None => table'[g] = table[g]
      BY <1>5, <2>2, <2>4
    <3> QED
      BY <3>1, <3>2 DEF UserFrame, V2P
  <2>5. CASE dir[home[t]][p \div PerTable] = f /\ p # v
    <3>1. p \div PerTable = v \div PerTable
      <4>1. t \in Built /\ v \div PerTable \in UserEntries
        BY <1>2, <1>12
      <4>2. dir[home[t]][v \div PerTable] = f
        BY <1>2
      <4> QED
        BY <1>4, <2>1, <2>5, <4>1, <4>2, <1>20
    <3>2. p % PerTable # s
      BY <1>2, <1>12, <2>5, <3>1, SamePage DEF s
    <3> QED
      BY <1>5, <2>1, <2>5, <3>2 DEF UserFrame, V2P
  <2> QED
    BY <2>3, <2>4, <2>5
<1>13. \A p \in KernelPages :
           KernelFrame(p)' = IF t = Main /\ p = v THEN w ELSE KernelFrame(p)
  BY <1>10, <1>11
<1>14. t # Main => \A p \in UserPages :
           UserFrame(t, p)' = IF p = v THEN w ELSE UserFrame(t, p)
  BY <1>12
<1>15. \A u \in Built \ {t} : \A i \in UserEntries :
           /\ dir'[home[u]][i] = dir[home[u]][i]
           /\ dir[home[u]][i] # None => table'[dir[home[u]][i]] = table[dir[home[u]][i]]
  BY <1>8
<1> QED
  BY <1>6, <1>13, <1>14, <1>15

\* The page is in its table now, and in hand no longer.
LEMMA MapPageMaps ==
    ASSUME ProcessesInv, NEW t \in Processes \cup {Main}, MapPage(t)
    PROVE  /\ MapsFit' /\ panic' = FALSE /\ UNCHANGED vars
           /\ \A p \in KernelPages \ {vaddr[t]} : KernelFrame(p)' = KernelFrame(p)
           /\ t # Main => \A p \in KernelPages : KernelFrame(p)' = KernelFrame(p)
           /\ table' \in [PageFrames -> [Slots -> PageFrames \cup {None}]]
           /\ step'[t] = IF at[t] = "begin" THEN "done" ELSE "clear"
           /\ at[t] # "begin" => vaddr' = vaddr
<1> DEFINE v == vaddr[t]
<1>1. ProcessesTypeOK /\ SpaceInv /\ MapsFit
  BY DEF ProcessesInv, SpaceInv
<1>2. /\ Calls(t) /\ UNCHANGED <<home, pgdir, taken, dir, vbits, pde_phyaddr>>
      /\ t \in Threads /\ Main \in Threads /\ Processes \subseteq Threads
  BY WorkLeaves DEF MapPage, Work
<1>3. \A u \in (Processes \cup {Main}) \ {t} : SameHand(u)
  BY WorkLeaves DEF Work
<1>4. /\ step[t] \in {"map", "pte"} /\ Entry(t) # None /\ Entry(t) \in PageFrames
      /\ table[Entry(t)][v % PerTable] = None
  BY EntryFree
<1>5. step[t] \in Taking /\ step[t] \in Holding
  BY <1>4 DEF Taking, Holding
<1>6. /\ v % PerTable \in Slots
      /\ v \in vbits[t]
      /\ t = Main => v \in KernelPages
      /\ t # Main => t \in Built /\ v \in UserPages
  BY <1>2, <1>5, EntryFacts
<1>7. /\ step'[t] = IF at[t] = "begin" THEN "done" ELSE "clear"
      /\ at[t] # "begin" => vaddr' = vaddr
      /\ table' = [table EXCEPT ![Entry(t)][v % PerTable] = page_phyaddr[t]]
  BY <1>1, <1>2 DEF MapPage, Step, ProcessesTypeOK
<1>8. panic' = FALSE /\ UNCHANGED vars
  <2>1. ~panic
    BY <1>2 DEF Calls
  <2>2. KAssert(table[Entry(t)][v % PerTable] = None) /\ UNCHANGED quietVars
    BY DEF MapPage, quietVars
  <2>3. panic \in BOOLEAN
    BY DEF ProcessesInv, Inv, TypeOK, SchedTypeOK
  <2>4. panic' = FALSE /\ panic = FALSE
    BY <1>4, <2>1, <2>2, <2>3 DEF KAssert
  <2> QED
    BY <2>2, <2>4 DEF quietVars, vars, schedVars
<1>9. table' \in [PageFrames -> [Slots -> PageFrames \cup {None}]]
  <2>1. page_phyaddr[t] \in PageFrames \cup {None}
    BY <1>1, <1>2 DEF ProcessesTypeOK
  <2> QED
    BY <1>1, <1>4, <1>6, <1>7, <2>1 DEF ProcessesTypeOK
<1>10. /\ KernelHalf'
       /\ \A u \in Built \ {t} : \A i \in UserEntries :
             /\ dir'[home[u]][i] = dir[home[u]][i]
             /\ dir[home[u]][i] # None => table'[dir[home[u]][i]] = table[dir[home[u]][i]]
       /\ \A p \in KernelPages :
             KernelFrame(p)' = IF t = Main /\ p = v THEN page_phyaddr[t] ELSE KernelFrame(p)
       /\ t # Main => \A p \in UserPages :
             UserFrame(t, p)' = IF p = v THEN page_phyaddr[t] ELSE UserFrame(t, p)
  BY <1>2, <1>4, <1>5, <1>7, EntryWritten
<1>11. step'[t] \notin {"scan", "set", "unmap", "pde", "zero"} \cup Holding
  BY <1>7 DEF Holding
<1>12. Owned(t)' = Owned(t) /\ Owned(t) = vbits[t]
  BY <1>2, <1>4, <1>11 DEF Owned
<1>13. \A p : Unmapped(t, p)' => p # v /\ Unmapped(t, p) /\ ~Uncleared(t, p)
  BY <1>2, <1>4, <1>6, <1>11 DEF Unmapped, Uncleared
<1> HIDE DEF v
<1>14. t = Main => /\ vbits'[Main] \subseteq KernelPages /\ Owned(Main)' = Owned(Main)
                   /\ \A p \in Owned(Main) : KFrame(p)' = KFrame(p)
                   /\ \A p \in KernelPages : Unmapped(Main, p)' => KernelFrame(p)' = None
  <2> SUFFICES ASSUME t = Main
               PROVE  /\ vbits'[Main] \subseteq KernelPages /\ Owned(Main)' = Owned(Main)
                      /\ \A p \in Owned(Main) : KFrame(p)' = KFrame(p)
                      /\ \A p \in KernelPages : Unmapped(Main, p)' => KernelFrame(p)' = None
    OBVIOUS
  <2>1. vbits[Main] \subseteq KernelPages /\ Owned(Main) \subseteq vbits[Main]
    BY <1>1, OwnedFacts
  <2>2. ASSUME NEW p \in Owned(Main)
        PROVE  KFrame(p)' = KFrame(p)
    <3>1. KFrame(p)' = KernelFrame(p)'
      BY <1>11 DEF KFrame
    <3>2. KFrame(p) = IF p = v THEN page_phyaddr[Main] ELSE KernelFrame(p)
      BY <1>5 DEF KFrame, v
    <3> QED
      BY <1>10, <2>1, <3>1, <3>2
  <2>3. \A p \in KernelPages : Unmapped(Main, p)' => KernelFrame(p)' = None
    BY <1>1, <1>10, <1>13 DEF MapsFit, KernelMaps
  <2> QED
    BY <1>2, <1>12, <2>1, <2>2, <2>3
<1>15. t # Main => /\ vbits'[t] \subseteq UserPages /\ Owned(t)' = Owned(t)
                   /\ \A i \in UserEntries : TableOf(t, i)' = TableOf(t, i)
                   /\ \A p \in Owned(t) : UFrame(t, p)' = UFrame(t, p)
                   /\ \A p \in UserPages :
                         Unmapped(t, p)' /\ ~Uncleared(t, p)' => UserFrame(t, p)' = None
  <2> SUFFICES ASSUME t # Main
               PROVE  /\ vbits'[t] \subseteq UserPages /\ Owned(t)' = Owned(t)
                      /\ \A i \in UserEntries : TableOf(t, i)' = TableOf(t, i)
                      /\ \A p \in Owned(t) : UFrame(t, p)' = UFrame(t, p)
                      /\ \A p \in UserPages :
                            Unmapped(t, p)' /\ ~Uncleared(t, p)' => UserFrame(t, p)' = None
    OBVIOUS
  <2>1. t \in Built /\ vbits[t] \subseteq UserPages /\ Owned(t) \subseteq vbits[t]
    BY <1>1, <1>6, OwnedFacts
  <2>2. ASSUME NEW p \in Owned(t)
        PROVE  UFrame(t, p)' = UFrame(t, p)
    <3>1. UFrame(t, p)' = UserFrame(t, p)'
      BY <1>11 DEF UFrame
    <3>2. UFrame(t, p) = IF p = v THEN page_phyaddr[t] ELSE UserFrame(t, p)
      BY <1>5 DEF UFrame, v
    <3> QED
      BY <1>10, <2>1, <3>1, <3>2
  <2>3. \A i \in UserEntries : TableOf(t, i)' = TableOf(t, i)
    BY <1>2, <1>4, <1>11 DEF TableOf
  <2>4. \A p \in UserPages : Unmapped(t, p)' => UserFrame(t, p)' = None
    BY <1>1, <1>10, <1>13, <2>1 DEF MapsFit, UserMaps
  <2> QED
    BY <1>2, <1>12, <2>1, <2>2, <2>3, <2>4
<1>16. MapsFit'
  BY <1>2, <1>3, <1>6, <1>10, <1>14, <1>15, WorkMaps
<1> QED
  BY <1>7, <1>8, <1>9, <1>10, <1>16 DEF v

\* The page that is cleared is mapped and in hand.
LEMMA ClearedPage ==
    ASSUME ProcessesInv, NEW t \in Processes \cup {Main}, Calls(t), step[t] = "clear"
    PROVE  LET f == V2P(cr3, vaddr[t]) IN
           /\ vaddr[t] \in vbits[t]
           /\ t = Main => vaddr[t] \in Owned(Main) /\ f = KFrame(vaddr[t])
                            /\ f = KernelFrame(vaddr[t])
           /\ f \in PoolOf(t) \cap taken /\ f \in PageFrames
           /\ \A u \in Threads : home[u] # f
           /\ \A u \in Built : \A i \in UserEntries : dir[home[u]][i] # f
           /\ \A i \in Entries : i >= UserTables => BootTable(i) # f
<1>1. step[t] \in Taking /\ step[t] \notin {"scan", "set", "unmap"} \cup Holding
  BY DEF Taking, Holding
<1>2. vaddr[t] \in vbits[t]
  BY <1>1, EntryFacts
<1>3. t = Main => \A u \in Built : pgdir[u] # vaddr[t]
  BY <1>1 DEF ProcessesInv, SpaceInv, HomesFit
<1> QED
  BY <1>1, <1>2, <1>3, PageFacts

LEMMA ClearPageMaps ==
    ASSUME ProcessesInv, NEW t \in Processes \cup {Main}, ClearPage(t)
    PROVE  /\ MapsFit'
           /\ \A p \in KernelPages : KernelFrame(p)' = KernelFrame(p)
           /\ \A u \in Threads : dir'[home[u]] = dir[home[u]]
<1>1. ProcessesTypeOK /\ SpaceInv /\ MapsFit
  BY DEF ProcessesInv, SpaceInv
<1>2. /\ Calls(t) /\ UNCHANGED <<home, pgdir, taken, vbits>>
      /\ t \in Threads /\ Main \in Threads /\ Processes \subseteq Threads
  BY WorkLeaves DEF ClearPage, Work
<1>3. \A u \in (Processes \cup {Main}) \ {t} : SameHand(u)
  BY WorkLeaves DEF Work
<1>4. step[t] = "clear" /\ step'[t] = "done"
  BY <1>1, <1>2 DEF ClearPage, Doing, Step, ProcessesTypeOK
<1>5. t = Main \/ (t \in Built /\ t # Main)
  BY <1>2, RunnerFacts
<1>6. /\ KernelHalf'
      /\ \A u \in Threads : dir'[home[u]] = dir[home[u]]
      /\ \A p \in KernelPages : KernelFrame(p)' = KernelFrame(p)
      /\ \A u \in Built : \A p \in UserPages : UserFrame(u, p)' = UserFrame(u, p)
      /\ \A u \in Built : \A i \in UserEntries :
            /\ dir'[home[u]][i] = dir[home[u]][i]
            /\ dir[home[u]][i] # None => table'[dir[home[u]][i]] = table[dir[home[u]][i]]
  <2> DEFINE f == V2P(cr3, vaddr[t])
  <2>1. /\ f \in PageFrames
        /\ \A u \in Threads : home[u] # f
        /\ \A u \in Built : \A i \in UserEntries : dir[home[u]][i] # f
        /\ \A i \in Entries : i >= UserTables => BootTable(i) # f
    BY <1>2, <1>4, ClearedPage
  <2>2. Fill(f, None)
    BY DEF ClearPage
  <2> HIDE DEF f
  <2> QED
    BY <1>2, <2>1, <2>2, FillStays
<1>7. /\ step'[t] \notin {"scan", "set", "unmap", "pde", "zero"} \cup Holding
      /\ step[t] \notin {"scan", "set", "unmap", "pde", "zero"} \cup Holding
  BY <1>4 DEF Holding
<1>8. Owned(t)' = Owned(t) /\ Owned(t) = vbits[t]
  BY <1>2, <1>7 DEF Owned
<1>9. \A p : Unmapped(t, p)' => Unmapped(t, p) /\ ~Uncleared(t, p)
  BY <1>2, <1>7 DEF Unmapped, Uncleared
<1>10. t = Main => /\ vbits'[Main] \subseteq KernelPages /\ Owned(Main)' = Owned(Main)
                   /\ \A p \in Owned(Main) : KFrame(p)' = KFrame(p)
                   /\ \A p \in KernelPages : Unmapped(Main, p)' => KernelFrame(p)' = None
  <2> SUFFICES ASSUME t = Main
               PROVE  /\ vbits'[Main] \subseteq KernelPages /\ Owned(Main)' = Owned(Main)
                      /\ \A p \in Owned(Main) : KFrame(p)' = KFrame(p)
                      /\ \A p \in KernelPages : Unmapped(Main, p)' => KernelFrame(p)' = None
    OBVIOUS
  <2>1. vbits[Main] \subseteq KernelPages /\ Owned(Main) \subseteq vbits[Main]
    BY <1>1, OwnedFacts
  <2>2. \A p \in Owned(Main) : KFrame(p)' = KFrame(p)
    BY <1>6, <1>7, <2>1 DEF KFrame
  <2>3. \A p \in KernelPages : Unmapped(Main, p)' => KernelFrame(p)' = None
    BY <1>1, <1>6, <1>9 DEF MapsFit, KernelMaps
  <2> QED
    BY <1>2, <1>8, <2>1, <2>2, <2>3
<1>11. t # Main => /\ vbits'[t] \subseteq UserPages /\ Owned(t)' = Owned(t)
                   /\ \A i \in UserEntries : TableOf(t, i)' = TableOf(t, i)
                   /\ \A p \in Owned(t) : UFrame(t, p)' = UFrame(t, p)
                   /\ \A p \in UserPages :
                         Unmapped(t, p)' /\ ~Uncleared(t, p)' => UserFrame(t, p)' = None
  <2> SUFFICES ASSUME t # Main
               PROVE  /\ vbits'[t] \subseteq UserPages /\ Owned(t)' = Owned(t)
                      /\ \A i \in UserEntries : TableOf(t, i)' = TableOf(t, i)
                      /\ \A p \in Owned(t) : UFrame(t, p)' = UFrame(t, p)
                      /\ \A p \in UserPages :
                            Unmapped(t, p)' /\ ~Uncleared(t, p)' => UserFrame(t, p)' = None
    OBVIOUS
  <2>1. t \in Built /\ vbits[t] \subseteq UserPages /\ Owned(t) \subseteq vbits[t]
    BY <1>1, <1>5, OwnedFacts
  <2>2. \A p \in Owned(t) : UFrame(t, p)' = UFrame(t, p)
    BY <1>6, <1>7, <2>1 DEF UFrame
  <2>3. \A i \in UserEntries : TableOf(t, i)' = TableOf(t, i)
    BY <1>2, <1>6, <1>7, <2>1 DEF TableOf
  <2>4. \A p \in UserPages : Unmapped(t, p)' => UserFrame(t, p)' = None
    BY <1>1, <1>6, <1>9, <2>1 DEF MapsFit, UserMaps
  <2> QED
    BY <1>2, <1>8, <2>1, <2>2, <2>3, <2>4
<1>12. MapsFit'
  BY <1>2, <1>3, <1>5, <1>6, <1>10, <1>11, WorkMaps
<1> QED
  BY <1>6, <1>12

\* The page has given its frame back; now it loses its entry and its bit.
LEMMA UnmapMaps ==
    ASSUME ProcessesInv, NEW t \in Processes \cup {Main}, Unmap(t)
    PROVE  /\ MapsFit'
           /\ \A p \in KernelPages \ {vaddr[t]} : KernelFrame(p)' = KernelFrame(p)
           /\ t # Main => \A p \in KernelPages : KernelFrame(p)' = KernelFrame(p)
           /\ table' \in [PageFrames -> [Slots -> PageFrames \cup {None}]]
<1> DEFINE v == vaddr[t]
<1>1. ProcessesTypeOK /\ SpaceInv /\ MapsFit
  BY DEF ProcessesInv, SpaceInv
<1>2. /\ Calls(t) /\ UNCHANGED <<home, pgdir, taken, dir, pde_phyaddr, page_phyaddr>>
      /\ t \in Threads /\ Main \in Threads /\ Processes \subseteq Threads
  BY WorkLeaves DEF Unmap, Work
<1>3. \A u \in (Processes \cup {Main}) \ {t} : SameHand(u)
  BY WorkLeaves DEF Work
<1>4. step[t] = "unmap" /\ step'[t] = "done"
  BY <1>1, <1>2 DEF Unmap, Doing, Step, ProcessesTypeOK
<1>5. /\ Entry(t) = dir[home[t]][v \div PerTable]
      /\ v \in vbits[t] /\ v % PerTable \in Slots
      /\ t = Main => v \in KernelPages /\ Entry(t) # None
      /\ t # Main => t \in Built /\ v \in UserPages
  BY <1>2, <1>4, EntryFacts
<1>6. /\ vbits'[t] = vbits[t] \ {v}
      /\ table' = [table EXCEPT ![Entry(t)][v % PerTable] = None]
  BY <1>1 DEF Unmap, ProcessesTypeOK
<1>7. /\ KernelHalf'
      /\ \A u \in Built \ {t} : \A i \in UserEntries :
            /\ dir'[home[u]][i] = dir[home[u]][i]
            /\ dir[home[u]][i] # None => table'[dir[home[u]][i]] = table[dir[home[u]][i]]
      /\ \A p \in KernelPages :
            KernelFrame(p)' = IF t = Main /\ p = v THEN None ELSE KernelFrame(p)
      /\ t # Main => \A p \in UserPages :
            UserFrame(t, p)' = IF p = v THEN None ELSE UserFrame(t, p)
  <2>1. CASE Entry(t) # None
    BY <1>2, <1>4, <1>6, <2>1, EntryWritten
  <2>2. CASE Entry(t) = None
    <3>1. table' = table
      <4>1. None \notin PageFrames
        BY PoolFacts
      <4>2. table' = [table EXCEPT ![None][v % PerTable] = None]
        BY <1>6, <2>2
      <4> QED
        BY <1>1, <4>1, <4>2 DEF ProcessesTypeOK
    <3>2. /\ KernelHalf'
          /\ \A p \in KernelPages : KernelFrame(p)' = KernelFrame(p)
          /\ \A u \in Built : \A p \in UserPages : UserFrame(u, p)' = UserFrame(u, p)
          /\ \A u \in Built : \A i \in UserEntries :
                /\ dir'[home[u]][i] = dir[home[u]][i]
                /\ dir[home[u]][i] # None =>
                      table'[dir[home[u]][i]] = table[dir[home[u]][i]]
      BY <1>1, <1>2, <3>1, QuietTables
    <3>3. t # Main /\ UserFrame(t, v) = None
      BY <1>5, <2>2 DEF UserFrame, V2P
    <3> HIDE DEF v
    <3> QED
      BY <1>5, <3>2, <3>3
  <2> QED
    BY <2>1, <2>2
<1>8. /\ step'[t] \notin {"scan", "set", "unmap", "pde", "zero"} \cup Holding
      /\ step[t] \notin {"scan", "set", "pde", "zero"} \cup Holding
  BY <1>4 DEF Holding
<1>9. Owned(t)' = Owned(t) /\ Owned(t) = vbits[t] \ {v}
  BY <1>4, <1>6, <1>8 DEF Owned
<1>10. \A p : Unmapped(t, p)' => p = v \/ (Unmapped(t, p) /\ ~Uncleared(t, p))
  BY <1>6, <1>8 DEF Unmapped, Uncleared
<1>11. table' \in [PageFrames -> [Slots -> PageFrames \cup {None}]]
  BY <1>1, <1>5, <1>6 DEF ProcessesTypeOK
<1> HIDE DEF v
<1>12. t = Main => /\ vbits'[Main] \subseteq KernelPages /\ Owned(Main)' = Owned(Main)
                   /\ \A p \in Owned(Main) : KFrame(p)' = KFrame(p)
                   /\ \A p \in KernelPages : Unmapped(Main, p)' => KernelFrame(p)' = None
  <2> SUFFICES ASSUME t = Main
               PROVE  /\ vbits'[Main] \subseteq KernelPages /\ Owned(Main)' = Owned(Main)
                      /\ \A p \in Owned(Main) : KFrame(p)' = KFrame(p)
                      /\ \A p \in KernelPages : Unmapped(Main, p)' => KernelFrame(p)' = None
    OBVIOUS
  <2>1. vbits[Main] \subseteq KernelPages
    BY <1>1, OwnedFacts
  <2>2. \A p \in Owned(Main) : KFrame(p)' = KFrame(p)
    BY <1>7, <1>8, <1>9, <2>1 DEF KFrame
  <2>3. \A p \in KernelPages : Unmapped(Main, p)' => KernelFrame(p)' = None
    BY <1>1, <1>7, <1>10 DEF MapsFit, KernelMaps
  <2> QED
    BY <1>6, <1>9, <2>1, <2>2, <2>3
<1>13. t # Main => /\ vbits'[t] \subseteq UserPages /\ Owned(t)' = Owned(t)
                   /\ \A i \in UserEntries : TableOf(t, i)' = TableOf(t, i)
                   /\ \A p \in Owned(t) : UFrame(t, p)' = UFrame(t, p)
                   /\ \A p \in UserPages :
                         Unmapped(t, p)' /\ ~Uncleared(t, p)' => UserFrame(t, p)' = None
  <2> SUFFICES ASSUME t # Main
               PROVE  /\ vbits'[t] \subseteq UserPages /\ Owned(t)' = Owned(t)
                      /\ \A i \in UserEntries : TableOf(t, i)' = TableOf(t, i)
                      /\ \A p \in Owned(t) : UFrame(t, p)' = UFrame(t, p)
                      /\ \A p \in UserPages :
                            Unmapped(t, p)' /\ ~Uncleared(t, p)' => UserFrame(t, p)' = None
    OBVIOUS
  <2>1. t \in Built /\ vbits[t] \subseteq UserPages
    BY <1>1, <1>5, OwnedFacts
  <2>2. \A p \in Owned(t) : UFrame(t, p)' = UFrame(t, p)
    BY <1>7, <1>8, <1>9, <2>1 DEF UFrame
  <2>3. \A i \in UserEntries : TableOf(t, i)' = TableOf(t, i)
    BY <1>2, <1>8 DEF TableOf
  <2>4. \A p \in UserPages : Unmapped(t, p)' => UserFrame(t, p)' = None
    BY <1>1, <1>7, <1>10, <2>1 DEF MapsFit, UserMaps
  <2> QED
    BY <1>6, <1>9, <2>1, <2>2, <2>3, <2>4
<1>14. MapsFit'
  BY <1>2, <1>3, <1>5, <1>7, <1>12, <1>13, WorkMaps
<1> QED
  BY <1>7, <1>11, <1>14 DEF v

-----------------------------------------------------------------------------
(* The steps that take a frame or give one back.                           *)

\* A step of t that leaves directories and page tables alone, seen from the
\* others: their pages and tables have the same frames.
LEMMA OtherMaps ==
    ASSUME ProcessesInv, NEW t \in Processes \cup {Main},
           UNCHANGED <<home, pgdir>>,
           \A u \in (Processes \cup {Main}) \ {t} : SameHand(u),
           \A p \in KernelPages : KernelFrame(p)' = KernelFrame(p),
           \A u \in Built : \A i \in UserEntries :
               /\ dir'[home[u]][i] = dir[home[u]][i]
               /\ dir[home[u]][i] # None => table'[dir[home[u]][i]] = table[dir[home[u]][i]]
    PROVE  /\ Built' = Built
           /\ t # Main => /\ vbits'[Main] \subseteq KernelPages /\ Owned(Main)' = Owned(Main)
                          /\ \A p \in Owned(Main) : KFrame(p)' = KFrame(p)
                          /\ \A p \in KernelPages : Unmapped(Main, p)' => KernelFrame(p)' = None
           /\ \A u \in Built \ {t} :
                 /\ vbits'[u] \subseteq UserPages /\ Owned(u)' = Owned(u)
                 /\ \A i \in UserEntries : TableOf(u, i)' = TableOf(u, i)
                 /\ \A p \in Owned(u) : UFrame(u, p)' = UFrame(u, p)
                 /\ \A p \in UserPages :
                       Unmapped(u, p)' /\ ~Uncleared(u, p)' => UserFrame(u, p)' = None
<1>1. ProcessesTypeOK /\ SpaceInv
  BY DEF ProcessesInv
<1>2. Built' = Built
  BY DEF Built
<1>3. t # Main => /\ vbits'[Main] \subseteq KernelPages /\ Owned(Main)' = Owned(Main)
                  /\ \A p \in Owned(Main) : KFrame(p)' = KFrame(p)
                  /\ \A p \in KernelPages : Unmapped(Main, p)' => KernelFrame(p)' = None
  BY <1>1, MainStays
<1>4. ASSUME NEW u \in Built \ {t}
      PROVE  /\ vbits'[u] \subseteq UserPages /\ Owned(u)' = Owned(u)
             /\ \A i \in UserEntries : TableOf(u, i)' = TableOf(u, i)
             /\ \A p \in Owned(u) : UFrame(u, p)' = UFrame(u, p)
             /\ \A p \in UserPages :
                   Unmapped(u, p)' /\ ~Uncleared(u, p)' => UserFrame(u, p)' = None
  <2>1. SameHand(u) /\ home'[u] = home[u]
    BY DEF Built
  <2>2. \A i \in UserEntries : dir'[home[u]][i] = dir[home[u]][i]
    OBVIOUS
  <2>3. \A i \in UserEntries : dir[home[u]][i] # None =>
            table'[dir[home[u]][i]] = table[dir[home[u]][i]]
    OBVIOUS
  <2> QED
    BY <1>1, <2>1, <2>2, <2>3, ProcessStays
<1> QED
  BY <1>2, <1>3, <1>4

\* What owns a frame after a step: MapsFit in terms of it.
LEMMA MapsFrom ==
    ASSUME MapsFit, KernelHalf', Built' = Built, vbits'[Main] \subseteq KernelPages,
           \A p \in KernelPages : Unmapped(Main, p)' => KernelFrame(p)' = None,
           \A u \in Built :
               /\ vbits'[u] \subseteq UserPages
               /\ \A p \in UserPages :
                     Unmapped(u, p)' /\ ~Uncleared(u, p)' => UserFrame(u, p)' = None,
           \* the frames of the owners
           \A p \in Owned(Main)' : KFrame(p)' \in KernelPool \cap taken',
           \A u \in Built : \A i \in UserEntries :
               TableOf(u, i)' # None => TableOf(u, i)' \in KernelPool \cap taken',
           \A u \in Built : \A p \in Owned(u)' : UFrame(u, p)' \in UserPool \cap taken',
           \* are different
           \A p, q \in Owned(Main)' : KFrame(p)' = KFrame(q)' => p = q,
           \A u \in Built : \A i \in UserEntries : TableOf(u, i)' # None =>
               /\ \A p \in Owned(Main)' : KFrame(p)' # TableOf(u, i)'
               /\ \A w \in Built : \A j \in UserEntries :
                     TableOf(w, j)' = TableOf(u, i)' => w = u /\ j = i,
           \A u, w \in Built : \A p \in Owned(u)' : \A q \in Owned(w)' :
               UFrame(w, q)' = UFrame(u, p)' => w = u /\ q = p,
           \* and are all that is taken
           \A f \in taken' :
               \/ \E p \in Owned(Main)' : f = KFrame(p)'
               \/ \E u \in Built : \E i \in UserEntries : f = TableOf(u, i)'
               \/ \E u \in Built : \E p \in Owned(u)' : f = UFrame(u, p)'
    PROVE  MapsFit'
<1>1. KernelMaps'
  BY DEF KernelMaps
<1>2. TablesFit'
  BY DEF TablesFit
<1>3. UserMaps'
  BY DEF UserMaps
<1>4. AllUsed'
  BY DEF AllUsed
<1> QED
  BY <1>1, <1>2, <1>3, <1>4 DEF MapsFit

\* palloc's bitmap_set: the page in hand owns the frame.
LEMMA SetFrameMaps ==
    ASSUME ProcessesInv, NEW t \in Processes \cup {Main}, SetFrame(t)
    PROVE  /\ MapsFit' /\ taken' \subseteq KernelPool \cup UserPool
           /\ \A p \in KernelPages : KernelFrame(p)' = KernelFrame(p)
<1> DEFINE v == vaddr[t]
           f == page_phyaddr[t]
<1>1. ProcessesTypeOK /\ SpaceInv /\ MapsFit
  BY DEF ProcessesInv, SpaceInv
<1>2. /\ Calls(t)
      /\ UNCHANGED <<home, pgdir, dir, table, vbits, vaddr, page_phyaddr, pde_phyaddr>>
      /\ t \in Threads /\ Main \in Threads /\ Processes \subseteq Threads
  BY WorkLeaves DEF SetFrame, Work, handVars
<1>3. \A u \in (Processes \cup {Main}) \ {t} : SameHand(u)
  BY WorkLeaves DEF Work
<1>4. step[t] = "set" /\ step'[t] = "map" /\ taken' = taken \cup {f}
  BY <1>1, <1>2 DEF SetFrame, Doing, Step, ProcessesTypeOK
<1>5. t = Main \/ (t \in Built /\ t # Main)
  BY <1>2, RunnerFacts
<1>6. f \in PoolOf(t) /\ f \notin taken
  BY <1>1, <1>4 DEF SpaceInv, HandsFit, HandFits
<1>7. step[t] \in Taking /\ step[t] \notin Holding /\ step'[t] \in Holding
  BY <1>4 DEF Taking, Holding
<1>8. v \in vbits[t]
  BY <1>2, <1>7, EntryFacts
<1>9. /\ KernelHalf'
      /\ \A p \in KernelPages : KernelFrame(p)' = KernelFrame(p)
      /\ \A u \in Built : \A p \in UserPages : UserFrame(u, p)' = UserFrame(u, p)
      /\ \A u \in Built : \A i \in UserEntries :
            /\ dir'[home[u]][i] = dir[home[u]][i]
            /\ dir[home[u]][i] # None => table'[dir[home[u]][i]] = table[dir[home[u]][i]]
  BY <1>1, <1>2, QuietTables
<1>10. /\ Built' = Built
       /\ t # Main => /\ vbits'[Main] \subseteq KernelPages /\ Owned(Main)' = Owned(Main)
                      /\ \A p \in Owned(Main) : KFrame(p)' = KFrame(p)
                      /\ \A p \in KernelPages : Unmapped(Main, p)' => KernelFrame(p)' = None
       /\ \A u \in Built \ {t} :
             /\ vbits'[u] \subseteq UserPages /\ Owned(u)' = Owned(u)
             /\ \A i \in UserEntries : TableOf(u, i)' = TableOf(u, i)
             /\ \A p \in Owned(u) : UFrame(u, p)' = UFrame(u, p)
             /\ \A p \in UserPages :
                   Unmapped(u, p)' /\ ~Uncleared(u, p)' => UserFrame(u, p)' = None
  BY <1>2, <1>3, <1>9, OtherMaps
<1>11. Owned(t)' = Owned(t) \cup {v} /\ v \notin Owned(t)
  BY <1>2, <1>4, <1>8 DEF Owned
<1>12. \A p : Unmapped(t, p)' => Unmapped(t, p) /\ ~Uncleared(t, p)
  BY <1>2, <1>4, <1>7 DEF Unmapped, Uncleared
<1>13. v = vaddr[t] /\ f = page_phyaddr[t] /\ vaddr' = vaddr /\ page_phyaddr' = page_phyaddr
  BY <1>2
<1> HIDE DEF v, f
<1>14. /\ KernelPool \cap UserPool = {} /\ None \notin KernelPool \cup UserPool
  BY PoolFacts
<1>15. /\ Owned(Main) \subseteq KernelPages /\ vbits[Main] \subseteq KernelPages
       /\ \A u \in Built : Owned(u) \subseteq UserPages /\ vbits[u] \subseteq UserPages
  BY <1>1, OwnedFacts
<1>16. KernelMaps /\ TablesFit /\ UserMaps /\ AllUsed
  BY <1>1 DEF MapsFit
<1>17. CASE t = Main
  <2>1. f \in KernelPool
    BY <1>6, <1>17 DEF PoolOf
  <2>2. \A p \in Owned(Main) : KFrame(p)' = KFrame(p)
    BY <1>7, <1>9, <1>11, <1>13, <1>15, <1>17 DEF KFrame
  <2>3. \A p \in {v} : KFrame(p)' = f
    BY <1>7, <1>13, <1>17 DEF KFrame
  <2>4. \A p \in KernelPages : Unmapped(Main, p)' => KernelFrame(p)' = None
    BY <1>9, <1>12, <1>16, <1>17 DEF KernelMaps
  <2>5. vbits'[Main] \subseteq KernelPages
    BY <1>2, <1>15
  <2>6. \A u \in Built : u # t
    BY <1>17, ProcessesAssumption DEF Built
  <2>7. /\ \A p \in Owned(Main)' : KFrame(p)' \in KernelPool \cap taken'
        /\ \A p, q \in Owned(Main)' : KFrame(p)' = KFrame(q)' => p = q
    BY <1>4, <1>6, <1>11, <1>16, <1>17, <2>1, <2>2, <2>3 DEF KernelMaps
  <2>8. \A u \in Built : \A i \in UserEntries : TableOf(u, i)' # None =>
            /\ TableOf(u, i)' \in KernelPool \cap taken'
            /\ \A p \in Owned(Main)' : KFrame(p)' # TableOf(u, i)'
            /\ \A w \in Built : \A j \in UserEntries :
                  TableOf(w, j)' = TableOf(u, i)' => w = u /\ j = i
    BY <1>4, <1>6, <1>10, <1>11, <1>16, <1>17, <2>2, <2>3, <2>6 DEF TablesFit
  <2>9. \A u \in Built : \A p \in Owned(u)' :
            /\ UFrame(u, p)' \in UserPool \cap taken'
            /\ \A w \in Built : \A q \in Owned(w)' :
                  UFrame(w, q)' = UFrame(u, p)' => w = u /\ q = p
    BY <1>4, <1>10, <1>16, <2>6 DEF UserMaps
  <2>10. ASSUME NEW g \in taken'
         PROVE  \/ \E p \in Owned(Main)' : g = KFrame(p)'
                \/ \E u \in Built : \E i \in UserEntries : g = TableOf(u, i)'
                \/ \E u \in Built : \E p \in Owned(u)' : g = UFrame(u, p)'
    <3>1. CASE g = f
      BY <1>11, <1>17, <2>3, <3>1
    <3>2. CASE g \in taken
      <4>1. \/ \E p \in Owned(Main) : g = KFrame(p)
            \/ \E u \in Built : \E i \in UserEntries : g = TableOf(u, i)
            \/ \E u \in Built : \E p \in Owned(u) : g = UFrame(u, p)
        BY <1>16, <3>2 DEF AllUsed
      <4> QED
        BY <1>10, <1>11, <1>17, <2>2, <2>6, <4>1
    <3> QED
      BY <1>4, <3>1, <3>2
  <2>11. MapsFit'
    BY <1>1, <1>9, <1>10, <2>4, <2>5, <2>6, <2>7, <2>8, <2>9, <2>10, MapsFrom
  <2> QED
    BY <1>1, <1>4, <1>9, <2>1, <2>11 DEF ProcessesTypeOK
<1>18. CASE t \in Built /\ t # Main
  <2>1. f \in UserPool
    BY <1>6, <1>18 DEF PoolOf
  <2>2. \A p \in Owned(t) : UFrame(t, p)' = UFrame(t, p)
    BY <1>7, <1>9, <1>11, <1>13, <1>15, <1>18 DEF UFrame
  <2>3. \A p \in {v} : UFrame(t, p)' = f
    BY <1>7, <1>13 DEF UFrame
  <2>4. \A p \in UserPages : Unmapped(t, p)' => UserFrame(t, p)' = None
    BY <1>9, <1>12, <1>16, <1>18 DEF UserMaps
  <2>5. \A u \in Built : /\ vbits'[u] \subseteq UserPages
                         /\ \A p \in UserPages :
                               Unmapped(u, p)' /\ ~Uncleared(u, p)' => UserFrame(u, p)' = None
    BY <1>2, <1>10, <1>15, <2>4
  <2>6. \A i \in UserEntries : TableOf(t, i)' = TableOf(t, i)
    BY <1>2, <1>4 DEF TableOf
  <2>7. /\ \A p \in Owned(Main)' : KFrame(p)' \in KernelPool \cap taken'
        /\ \A p, q \in Owned(Main)' : KFrame(p)' = KFrame(q)' => p = q
    BY <1>4, <1>10, <1>16, <1>18 DEF KernelMaps
  <2>8. \A u \in Built : \A i \in UserEntries : TableOf(u, i)' = TableOf(u, i)
    BY <1>10, <2>6
  <2>9. \A u \in Built : \A i \in UserEntries : TableOf(u, i)' # None =>
            /\ TableOf(u, i)' \in KernelPool \cap taken'
            /\ \A p \in Owned(Main)' : KFrame(p)' # TableOf(u, i)'
            /\ \A w \in Built : \A j \in UserEntries :
                  TableOf(w, j)' = TableOf(u, i)' => w = u /\ j = i
    BY <1>4, <1>10, <1>16, <1>18, <2>8 DEF TablesFit
  <2>10. ASSUME NEW u \in Built, NEW p \in Owned(u)'
         PROVE  \/ u = t /\ p = v /\ UFrame(u, p)' = f
                \/ p \in Owned(u) /\ UFrame(u, p)' = UFrame(u, p) /\ UFrame(u, p) \in taken
                     /\ UFrame(u, p) \in UserPool
    BY <1>10, <1>11, <1>16, <2>2, <2>3 DEF UserMaps
  <2>11. \A u, w \in Built : \A p \in Owned(u)' : \A q \in Owned(w)' :
             UFrame(w, q)' = UFrame(u, p)' => w = u /\ q = p
    BY <1>6, <1>16, <2>10 DEF UserMaps
  <2>12. \A u \in Built : \A p \in Owned(u)' : UFrame(u, p)' \in UserPool \cap taken'
    BY <1>4, <2>1, <2>10
  <2>13. ASSUME NEW g \in taken'
         PROVE  \/ \E p \in Owned(Main)' : g = KFrame(p)'
                \/ \E u \in Built : \E i \in UserEntries : g = TableOf(u, i)'
                \/ \E u \in Built : \E p \in Owned(u)' : g = UFrame(u, p)'
    <3>1. CASE g = f
      BY <1>11, <1>18, <2>3, <3>1
    <3>2. CASE g \in taken
      <4>1. CASE \E p \in Owned(Main) : g = KFrame(p)
        BY <1>10, <1>18, <4>1
      <4>2. CASE \E u \in Built : \E i \in UserEntries : g = TableOf(u, i)
        BY <2>8, <4>2
      <4>3. CASE \E u \in Built : \E p \in Owned(u) : g = UFrame(u, p)
        <5>1. PICK u \in Built : \E p \in Owned(u) : g = UFrame(u, p)
          BY <4>3
        <5>2. \E p \in Owned(u)' : g = UFrame(u, p)'
          BY <1>10, <1>11, <2>2, <5>1
        <5> QED
          BY <5>2
      <4> QED
        BY <1>16, <3>2, <4>1, <4>2, <4>3 DEF AllUsed
    <3> QED
      BY <1>4, <3>1, <3>2
  <2>14. MapsFit'
    BY <1>1, <1>9, <1>10, <1>18, <2>5, <2>7, <2>9, <2>11, <2>12, <2>13, MapsFrom
  <2> QED
    BY <1>1, <1>4, <1>9, <2>1, <2>14 DEF ProcessesTypeOK
<1> QED
  BY <1>5, <1>17, <1>18

\* The same for a page table.
LEMMA SetTableMaps ==
    ASSUME ProcessesInv, NEW t \in Processes \cup {Main}, SetTable(t)
    PROVE  /\ MapsFit' /\ taken' \subseteq KernelPool \cup UserPool
           /\ \A p \in KernelPages : KernelFrame(p)' = KernelFrame(p)
<1> DEFINE i == vaddr[t] \div PerTable
           f == pde_phyaddr[t]
<1>1. ProcessesTypeOK /\ SpaceInv /\ MapsFit
  BY DEF ProcessesInv, SpaceInv
<1>2. /\ Calls(t)
      /\ UNCHANGED <<home, pgdir, dir, table, vbits, vaddr, page_phyaddr, pde_phyaddr>>
      /\ t \in Threads /\ Main \in Threads /\ Processes \subseteq Threads
  BY WorkLeaves DEF SetTable, Work, handVars
<1>3. \A u \in (Processes \cup {Main}) \ {t} : SameHand(u)
  BY WorkLeaves DEF Work
<1>4. step[t] = "tset" /\ step'[t] = "pde" /\ taken' = taken \cup {f}
  BY <1>1, <1>2 DEF SetTable, Doing, Step, ProcessesTypeOK
<1>5. /\ t \in Built /\ t # Main /\ i \in UserEntries
      /\ dir[home[t]][i] = None
  BY <1>2, <1>4, TableMaker
<1>6. f \in KernelPool /\ f \notin taken
  BY <1>1, <1>4 DEF SpaceInv, HandsFit, HandFits
<1>7. /\ KernelHalf'
      /\ \A p \in KernelPages : KernelFrame(p)' = KernelFrame(p)
      /\ \A u \in Built : \A p \in UserPages : UserFrame(u, p)' = UserFrame(u, p)
      /\ \A u \in Built : \A j \in UserEntries :
            /\ dir'[home[u]][j] = dir[home[u]][j]
            /\ dir[home[u]][j] # None => table'[dir[home[u]][j]] = table[dir[home[u]][j]]
  BY <1>1, <1>2, QuietTables
<1>8. /\ Built' = Built
      /\ t # Main => /\ vbits'[Main] \subseteq KernelPages /\ Owned(Main)' = Owned(Main)
                     /\ \A p \in Owned(Main) : KFrame(p)' = KFrame(p)
                     /\ \A p \in KernelPages : Unmapped(Main, p)' => KernelFrame(p)' = None
      /\ \A u \in Built \ {t} :
            /\ vbits'[u] \subseteq UserPages /\ Owned(u)' = Owned(u)
            /\ \A j \in UserEntries : TableOf(u, j)' = TableOf(u, j)
            /\ \A p \in Owned(u) : UFrame(u, p)' = UFrame(u, p)
            /\ \A p \in UserPages :
                  Unmapped(u, p)' /\ ~Uncleared(u, p)' => UserFrame(u, p)' = None
  BY <1>2, <1>3, <1>7, OtherMaps
<1>9. Owned(t)' = Owned(t)
  BY <1>2, <1>4 DEF Owned
<1>10. \A p : Unmapped(t, p)' => Unmapped(t, p) /\ ~Uncleared(t, p)
  BY <1>2, <1>4 DEF Unmapped, Uncleared, Holding
<1>11. /\ \A j \in UserEntries \ {i} : TableOf(t, j)' = TableOf(t, j)
       /\ \A j \in {i} : TableOf(t, j)' = f /\ TableOf(t, j) = None
  BY <1>2, <1>4, <1>5 DEF TableOf
<1> HIDE DEF i, f
<1>12. /\ KernelPool \cap UserPool = {} /\ None \notin KernelPool \cup UserPool
  BY PoolFacts
<1>13. \A u \in Built : Owned(u) \subseteq UserPages /\ vbits[u] \subseteq UserPages
  BY <1>1, OwnedFacts
<1>14. KernelMaps /\ TablesFit /\ UserMaps /\ AllUsed
  BY <1>1 DEF MapsFit
<1>15. \A p \in Owned(t) : UFrame(t, p)' = UFrame(t, p)
  BY <1>2, <1>4, <1>5, <1>7, <1>13 DEF UFrame, Holding
<1>16. \A u \in Built : Owned(u)' = Owned(u) /\ \A p \in Owned(u) : UFrame(u, p)' = UFrame(u, p)
  BY <1>8, <1>9, <1>15
<1>17. \A u \in Built : /\ vbits'[u] \subseteq UserPages
                        /\ \A p \in UserPages :
                              Unmapped(u, p)' /\ ~Uncleared(u, p)' => UserFrame(u, p)' = None
  <2>1. \A p \in UserPages : Unmapped(t, p)' => UserFrame(t, p)' = None
    BY <1>5, <1>7, <1>10, <1>14 DEF UserMaps
  <2> QED
    BY <1>2, <1>8, <1>13, <2>1
<1>18. /\ \A p \in Owned(Main)' : KFrame(p)' \in KernelPool \cap taken' /\ KFrame(p)' # f
       /\ \A p, q \in Owned(Main)' : KFrame(p)' = KFrame(q)' => p = q
  BY <1>4, <1>5, <1>6, <1>8, <1>14 DEF KernelMaps
<1>19. \A u \in Built : \A p \in Owned(u)' :
           /\ UFrame(u, p)' \in UserPool \cap taken'
           /\ \A w \in Built : \A q \in Owned(w)' :
                 UFrame(w, q)' = UFrame(u, p)' => w = u /\ q = p
  BY <1>4, <1>14, <1>16 DEF UserMaps
<1>20. ASSUME NEW u \in Built, NEW j \in UserEntries
       PROVE  \/ u = t /\ j = i /\ TableOf(u, j)' = f
              \/ TableOf(u, j)' = TableOf(u, j) /\ (u # t \/ j # i)
  BY <1>8, <1>11
<1>21. ASSUME NEW u \in Built, NEW j \in UserEntries, TableOf(u, j)' # None
       PROVE  /\ TableOf(u, j)' \in KernelPool \cap taken'
              /\ \A p \in Owned(Main)' : KFrame(p)' # TableOf(u, j)'
  <2>1. CASE TableOf(u, j)' = f
    BY <1>4, <1>6, <1>18, <2>1
  <2>2. CASE TableOf(u, j)' = TableOf(u, j)
    BY <1>4, <1>5, <1>8, <1>14, <1>21, <2>2 DEF TablesFit
  <2> QED
    BY <1>20, <2>1, <2>2
<1>22. ASSUME NEW u \in Built, NEW j \in UserEntries, TableOf(u, j)' # None,
              NEW w \in Built, NEW k \in UserEntries, TableOf(w, k)' = TableOf(u, j)'
       PROVE  w = u /\ k = j
  <2>1. \A x \in Built : \A y \in UserEntries : TableOf(x, y) # None => TableOf(x, y) # f
    BY <1>6, <1>14 DEF TablesFit
  <2> QED
    BY <1>6, <1>12, <1>14, <1>20, <1>22, <2>1 DEF TablesFit
<1>23. ASSUME NEW g \in taken'
       PROVE  \/ \E p \in Owned(Main)' : g = KFrame(p)'
              \/ \E u \in Built : \E j \in UserEntries : g = TableOf(u, j)'
              \/ \E u \in Built : \E p \in Owned(u)' : g = UFrame(u, p)'
  <2>1. CASE g = f
    BY <1>5, <1>11, <2>1
  <2>2. CASE g \in taken
    <3>1. CASE \E p \in Owned(Main) : g = KFrame(p)
      BY <1>5, <1>8, <3>1
    <3>2. CASE \E u \in Built : \E j \in UserEntries : g = TableOf(u, j)
      <4>1. PICK u \in Built, j \in UserEntries : g = TableOf(u, j)
        BY <3>2
      <4>2. g # None
        BY <1>1, <1>12, <2>2 DEF ProcessesTypeOK
      <4>3. TableOf(u, j)' = g
        BY <1>8, <1>11, <4>1, <4>2
      <4> QED
        BY <4>3
    <3>3. CASE \E u \in Built : \E p \in Owned(u) : g = UFrame(u, p)
      BY <1>16, <3>3
    <3> QED
      BY <1>14, <2>2, <3>1, <3>2, <3>3 DEF AllUsed
  <2> QED
    BY <1>4, <2>1, <2>2
<1>24. MapsFit'
  <2>1. \A u \in Built : \A j \in UserEntries :
            TableOf(u, j)' # None => TableOf(u, j)' \in KernelPool \cap taken'
    BY <1>21
  <2>2. \A u \in Built : \A j \in UserEntries : TableOf(u, j)' # None =>
            /\ \A p \in Owned(Main)' : KFrame(p)' # TableOf(u, j)'
            /\ \A w \in Built : \A k \in UserEntries :
                  TableOf(w, k)' = TableOf(u, j)' => w = u /\ k = j
    BY <1>21, <1>22
  <2> QED
    BY <1>1, <1>5, <1>7, <1>8, <1>17, <1>18, <1>19, <1>23, <2>1, <2>2, MapsFrom
<1> QED
  BY <1>1, <1>4, <1>6, <1>7, <1>24 DEF ProcessesTypeOK

\* pfree gives back the frame of a page of t's heap, with what is in it.
LEMMA FreedPage ==
    ASSUME ProcessesInv, NEW t \in Processes \cup {Main}, Pfree(t)
    PROVE  /\ vaddr'[t] \in heap[t] /\ vaddr'[t] \in vbits[t]
           /\ step[t] = "in" /\ step'[t] = "unmap" /\ at[t] = "free"
           /\ taken' = taken \ {V2P(cr3, vaddr'[t])} /\ Fill(V2P(cr3, vaddr'[t]), Dirt)
           /\ t = Main => \A u \in Built : pgdir[u] # vaddr'[t]
           /\ UNCHANGED <<vbits, home, pgdir, page_phyaddr, pde_phyaddr, cr3>>
<1>1. /\ ProcessesTypeOK /\ SpaceInv /\ HeapsFit /\ HomesFit /\ Calls(t)
      /\ t \in Threads /\ Main \in Threads
  BY WorkLeaves DEF ProcessesInv, SpaceInv, Work
<1>2. /\ vaddr'[t] \in heap[t] /\ step[t] = "in" /\ step'[t] = "unmap" /\ at[t] = "free"
      /\ taken' = taken \ {V2P(cr3, vaddr'[t])} /\ Fill(V2P(cr3, vaddr'[t]), Dirt)
      /\ UNCHANGED <<vbits, home, pgdir, page_phyaddr, pde_phyaddr, cr3>>
  BY <1>1 DEF Pfree, Within, Step, ProcessesTypeOK, cpuVars
<1>3. vaddr'[t] \in vbits[t]
  <2>1. t = Main \/ (t \in Built /\ t # Main)
    BY <1>1, RunnerFacts
  <2> QED
    BY <1>1, <1>2, <2>1 DEF HeapsFit, Built
<1>4. t = Main => \A u \in Built : pgdir[u] # vaddr'[t]
  BY <1>1, <1>2 DEF HomesFit, Fixed
<1> QED
  BY <1>2, <1>3, <1>4

LEMMA PfreeMaps ==
    ASSUME ProcessesInv, NEW t \in Processes \cup {Main}, Pfree(t)
    PROVE  /\ MapsFit' /\ taken' \subseteq KernelPool \cup UserPool
           /\ \A p \in KernelPages : KernelFrame(p)' = KernelFrame(p)
           /\ \A u \in Threads : dir'[home[u]] = dir[home[u]]
<1> DEFINE v == vaddr'[t]
           f == V2P(cr3, v)
<1>1. ProcessesTypeOK /\ SpaceInv /\ MapsFit
  BY DEF ProcessesInv, SpaceInv
<1>2. /\ Calls(t) /\ UNCHANGED <<home, pgdir, vbits, page_phyaddr, pde_phyaddr>>
      /\ t \in Threads /\ Main \in Threads /\ Processes \subseteq Threads
  BY WorkLeaves DEF Pfree, Work
<1>3. \A u \in (Processes \cup {Main}) \ {t} : SameHand(u)
  BY WorkLeaves DEF Work
<1>4. /\ v \in vbits[t] /\ step[t] = "in" /\ step'[t] = "unmap"
      /\ taken' = taken \ {f} /\ Fill(f, Dirt)
      /\ t = Main => \A u \in Built : pgdir[u] # v
  BY FreedPage
<1>5. t = Main \/ (t \in Built /\ t # Main)
  BY <1>2, RunnerFacts
<1>6. vaddr'[t] = v
  OBVIOUS
<1> HIDE DEF v
<1>7. /\ t = Main => f = KFrame(v) /\ f = KernelFrame(v)
      /\ t # Main => f = UFrame(t, v) /\ f = UserFrame(t, v)
      /\ f \in PoolOf(t) \cap taken /\ f \in PageFrames
      /\ \A u \in Threads : home[u] # f
      /\ \A u \in Built : \A i \in UserEntries : dir[home[u]][i] # f
      /\ \A i \in Entries : i >= UserTables => BootTable(i) # f
  <2>1. step[t] \notin {"scan", "set", "unmap"} \cup Holding
    BY <1>4 DEF Holding
  <2> QED
    BY <1>2, <1>4, <2>1, PageFacts
<1> HIDE DEF f
<1>8. /\ KernelHalf'
      /\ \A u \in Threads : dir'[home[u]] = dir[home[u]]
      /\ \A p \in KernelPages : KernelFrame(p)' = KernelFrame(p)
      /\ \A u \in Built : \A p \in UserPages : UserFrame(u, p)' = UserFrame(u, p)
      /\ \A u \in Built : \A i \in UserEntries :
            /\ dir'[home[u]][i] = dir[home[u]][i]
            /\ dir[home[u]][i] # None => table'[dir[home[u]][i]] = table[dir[home[u]][i]]
  BY <1>2, <1>4, <1>7, FillStays
<1>9. /\ Built' = Built
      /\ t # Main => /\ vbits'[Main] \subseteq KernelPages /\ Owned(Main)' = Owned(Main)
                     /\ \A p \in Owned(Main) : KFrame(p)' = KFrame(p)
                     /\ \A p \in KernelPages : Unmapped(Main, p)' => KernelFrame(p)' = None
      /\ \A u \in Built \ {t} :
            /\ vbits'[u] \subseteq UserPages /\ Owned(u)' = Owned(u)
            /\ \A i \in UserEntries : TableOf(u, i)' = TableOf(u, i)
            /\ \A p \in Owned(u) : UFrame(u, p)' = UFrame(u, p)
            /\ \A p \in UserPages :
                  Unmapped(u, p)' /\ ~Uncleared(u, p)' => UserFrame(u, p)' = None
  BY <1>2, <1>3, <1>8, OtherMaps
<1>10. Owned(t) = vbits[t] /\ Owned(t)' = vbits[t] \ {v}
  BY <1>2, <1>4, <1>6 DEF Owned
<1>11. step[t] \notin Holding /\ step'[t] \notin Holding
  BY <1>4 DEF Holding
<1>12. \A p : Unmapped(t, p)' => Unmapped(t, p) /\ ~Uncleared(t, p)
  BY <1>2, <1>4, <1>11 DEF Unmapped, Uncleared
<1>13. /\ vbits[Main] \subseteq KernelPages
       /\ \A u \in Built : Owned(u) \subseteq UserPages /\ vbits[u] \subseteq UserPages
  BY <1>1, OwnedFacts
<1>14. KernelMaps /\ TablesFit /\ UserMaps /\ AllUsed
  BY <1>1 DEF MapsFit
<1>15. KernelPool \cap UserPool = {}
  BY PoolFacts
<1>16. taken' \subseteq KernelPool \cup UserPool
  BY <1>1, <1>4 DEF ProcessesTypeOK
<1>17. CASE t = Main
  <2>1. f \in KernelPool
    BY <1>7, <1>17 DEF PoolOf
  <2>2. \A p \in KernelPages : KFrame(p)' = KFrame(p)
    BY <1>8, <1>11, <1>17 DEF KFrame
  <2>3. \A p \in KernelPages : Unmapped(Main, p)' => KernelFrame(p)' = None
    BY <1>8, <1>12, <1>14, <1>17 DEF KernelMaps
  <2>4. vbits'[Main] \subseteq KernelPages
    BY <1>2, <1>13
  <2>5. \A u \in Built : u # t
    BY <1>17, ProcessesAssumption DEF Built
  <2>6. \A p \in Owned(Main)' : p \in Owned(Main) /\ KFrame(p)' = KFrame(p) /\ p # v
    BY <1>10, <1>13, <1>17, <2>2
  <2>7. v \in Owned(Main) /\ KFrame(v) = f
    BY <1>4, <1>7, <1>10, <1>17
  <2>8. /\ \A p \in Owned(Main)' : KFrame(p)' \in KernelPool \cap taken'
        /\ \A p, q \in Owned(Main)' : KFrame(p)' = KFrame(q)' => p = q
    BY <1>4, <1>14, <2>6, <2>7 DEF KernelMaps
  <2>9. \A u \in Built : \A i \in UserEntries : TableOf(u, i)' # None =>
            /\ TableOf(u, i)' \in KernelPool \cap taken'
            /\ \A p \in Owned(Main)' : KFrame(p)' # TableOf(u, i)'
            /\ \A w \in Built : \A j \in UserEntries :
                  TableOf(w, j)' = TableOf(u, i)' => w = u /\ j = i
    BY <1>4, <1>9, <1>14, <2>5, <2>6, <2>7 DEF TablesFit
  <2>10. \A u \in Built : \A p \in Owned(u)' :
             /\ UFrame(u, p)' \in UserPool \cap taken'
             /\ \A w \in Built : \A q \in Owned(w)' :
                   UFrame(w, q)' = UFrame(u, p)' => w = u /\ q = p
    BY <1>4, <1>9, <1>14, <1>15, <2>1, <2>5 DEF UserMaps
  <2>11. ASSUME NEW g \in taken'
         PROVE  \/ \E p \in Owned(Main)' : g = KFrame(p)'
                \/ \E u \in Built : \E i \in UserEntries : g = TableOf(u, i)'
                \/ \E u \in Built : \E p \in Owned(u)' : g = UFrame(u, p)'
    <3>1. g \in taken /\ g # f
      BY <1>4
    <3>2. CASE \E p \in Owned(Main) : g = KFrame(p)
      <4>1. PICK p \in Owned(Main) : g = KFrame(p)
        BY <3>2
      <4>2. p \in Owned(Main)' /\ KFrame(p)' = KFrame(p)
        BY <1>10, <1>13, <1>17, <2>2, <2>7, <3>1, <4>1
      <4> QED
        BY <4>1, <4>2
    <3>3. CASE \/ \E u \in Built : \E i \in UserEntries : g = TableOf(u, i)
               \/ \E u \in Built : \E p \in Owned(u) : g = UFrame(u, p)
      BY <1>9, <2>5, <3>3
    <3> QED
      BY <1>14, <3>1, <3>2, <3>3 DEF AllUsed
  <2>12. MapsFit'
    BY <1>1, <1>8, <1>9, <2>3, <2>4, <2>5, <2>8, <2>9, <2>10, <2>11, MapsFrom
  <2> QED
    BY <1>8, <1>16, <2>12
<1>18. CASE t \in Built /\ t # Main
  <2>1. f \in UserPool
    BY <1>7, <1>18 DEF PoolOf
  <2>2. \A p \in Owned(t) : UFrame(t, p)' = UFrame(t, p)
    BY <1>8, <1>11, <1>13, <1>18 DEF UFrame
  <2>3. v \in Owned(t) /\ UFrame(t, v) = f
    BY <1>4, <1>7, <1>10, <1>18
  <2>4. \A p \in UserPages : Unmapped(t, p)' => UserFrame(t, p)' = None
    BY <1>8, <1>12, <1>14, <1>18 DEF UserMaps
  <2>5. \A u \in Built : /\ vbits'[u] \subseteq UserPages
                         /\ \A p \in UserPages :
                               Unmapped(u, p)' /\ ~Uncleared(u, p)' => UserFrame(u, p)' = None
    BY <1>2, <1>9, <1>13, <2>4
  <2>6. \A i \in UserEntries : TableOf(t, i)' = TableOf(t, i)
    BY <1>2, <1>4, <1>8 DEF TableOf
  <2>7. \A u \in Built : \A i \in UserEntries : TableOf(u, i)' = TableOf(u, i)
    BY <1>9, <2>6
  <2>8. /\ \A p \in Owned(Main)' : KFrame(p)' \in KernelPool \cap taken'
        /\ \A p, q \in Owned(Main)' : KFrame(p)' = KFrame(q)' => p = q
    BY <1>4, <1>9, <1>14, <1>15, <1>18, <2>1 DEF KernelMaps
  <2>9. \A u \in Built : \A i \in UserEntries : TableOf(u, i)' # None =>
            /\ TableOf(u, i)' \in KernelPool \cap taken'
            /\ \A p \in Owned(Main)' : KFrame(p)' # TableOf(u, i)'
            /\ \A w \in Built : \A j \in UserEntries :
                  TableOf(w, j)' = TableOf(u, i)' => w = u /\ j = i
    BY <1>4, <1>9, <1>14, <1>15, <1>18, <2>1, <2>7 DEF TablesFit
  <2>10. ASSUME NEW u \in Built, NEW p \in Owned(u)'
         PROVE  /\ p \in Owned(u) /\ UFrame(u, p)' = UFrame(u, p)
                /\ UFrame(u, p) \in UserPool \cap taken /\ UFrame(u, p) # f
    <3>1. p \in Owned(u) /\ UFrame(u, p)' = UFrame(u, p) /\ (u # t \/ p # v)
      BY <1>9, <1>10, <2>2
    <3> QED
      BY <1>14, <1>18, <2>3, <3>1 DEF UserMaps
  <2>11. \A u, w \in Built : \A p \in Owned(u)' : \A q \in Owned(w)' :
             UFrame(w, q)' = UFrame(u, p)' => w = u /\ q = p
    BY <1>14, <2>10 DEF UserMaps
  <2>12. \A u \in Built : \A p \in Owned(u)' : UFrame(u, p)' \in UserPool \cap taken'
    BY <1>4, <2>10
  <2>13. ASSUME NEW g \in taken'
         PROVE  \/ \E p \in Owned(Main)' : g = KFrame(p)'
                \/ \E u \in Built : \E i \in UserEntries : g = TableOf(u, i)'
                \/ \E u \in Built : \E p \in Owned(u)' : g = UFrame(u, p)'
    <3>1. g \in taken /\ g # f
      BY <1>4
    <3>2. CASE \E p \in Owned(Main) : g = KFrame(p)
      BY <1>9, <1>18, <3>2
    <3>3. CASE \E u \in Built : \E i \in UserEntries : g = TableOf(u, i)
      BY <2>7, <3>3
    <3>4. CASE \E u \in Built : \E p \in Owned(u) : g = UFrame(u, p)
      <4>1. PICK u \in Built : \E p \in Owned(u) : g = UFrame(u, p)
        BY <3>4
      <4>2. \E p \in Owned(u)' : UFrame(u, p)' = g
        BY <1>9, <1>10, <2>2, <2>3, <3>1, <4>1
      <4> QED
        BY <4>2
    <3> QED
      BY <1>14, <3>1, <3>2, <3>3, <3>4 DEF AllUsed
  <2>14. MapsFit'
    BY <1>1, <1>8, <1>9, <1>18, <2>5, <2>8, <2>9, <2>11, <2>12, <2>13, MapsFrom
  <2> QED
    BY <1>8, <1>16, <2>14
<1> QED
  BY <1>5, <1>17, <1>18

-----------------------------------------------------------------------------
(* What a step of malloc_page or mfree_page does to the rest of the        *)
(* invariant.                                                              *)

\* The mappings, together.
LEMMA WorkMapsFit ==
    ASSUME ProcessesInv, NEW t \in Processes \cup {Main}, Work(t)
    PROVE  /\ MapsFit' /\ UNCHANGED vars
           /\ \A p \in KernelPages : t # Main \/ p # vaddr[Main] =>
                 KernelFrame(p)' = KernelFrame(p)
           /\ \A u \in Threads \ {t} : dir'[home[u]] = dir[home[u]]
           /\ UNCHANGED <<cr3, esp0>>
<1>1. ProcessesTypeOK /\ SpaceInv /\ t \in Threads
  BY WorkLeaves DEF ProcessesInv
<1>2. CASE TakeAddress(t)
  <2>1. UNCHANGED <<vars, dir, table, home, cpuVars>>
    BY <1>2 DEF TakeAddress
  <2> QED
    BY <1>1, <1>2, <2>1, TakeAddressMaps, QuietTables DEF cpuVars
<1>3. CASE ScanFrame(t) \/ ScanTable(t)
  <2>1. UNCHANGED <<vars, dir, table, home, cpuVars>>
    BY <1>3 DEF ScanFrame, ScanTable
  <2> QED
    BY <1>1, <1>3, <2>1, ScanMaps, QuietTables DEF cpuVars
<1>4. CASE SetFrame(t)
  <2>1. UNCHANGED <<vars, dir, table, home, cpuVars>>
    BY <1>4 DEF SetFrame
  <2> QED
    BY <1>1, <1>4, <2>1, SetFrameMaps DEF cpuVars
<1>5. CASE SetTable(t)
  <2>1. UNCHANGED <<vars, dir, table, home, cpuVars>>
    BY <1>5 DEF SetTable
  <2> QED
    BY <1>1, <1>5, <2>1, SetTableMaps DEF cpuVars
<1>6. CASE AddTable(t)
  <2>1. UNCHANGED <<vars, cpuVars>>
    BY <1>6 DEF AddTable
  <2> QED
    BY <1>6, <2>1, AddTableMaps DEF cpuVars
<1>7. CASE ClearTable(t)
  <2>1. UNCHANGED <<vars, cpuVars>>
    BY <1>7 DEF ClearTable
  <2> QED
    BY <1>7, <2>1, ClearTableMaps DEF cpuVars
<1>8. CASE MapPage(t)
  <2>1. UNCHANGED <<dir, cpuVars>>
    BY <1>8 DEF MapPage
  <2> QED
    BY <1>8, <2>1, MapPageMaps DEF cpuVars
<1>9. CASE ClearPage(t)
  <2>1. UNCHANGED <<vars, cpuVars>>
    BY <1>9 DEF ClearPage
  <2> QED
    BY <1>9, <2>1, ClearPageMaps DEF cpuVars
<1>10. CASE Pfree(t)
  <2>1. UNCHANGED <<vars, cpuVars>>
    BY <1>10 DEF Pfree
  <2> QED
    BY <1>10, <2>1, PfreeMaps DEF cpuVars
<1>11. CASE Unmap(t)
  <2>1. UNCHANGED <<vars, dir, cpuVars>>
    BY <1>11 DEF Unmap
  <2> QED
    BY <1>11, <2>1, UnmapMaps DEF cpuVars
<1> QED
  BY <1>2, <1>3, <1>4, <1>5, <1>6, <1>7, <1>8, <1>9, <1>10, <1>11 DEF Work

\* Who is where.
LEMMA WorkPlaces ==
    ASSUME ProcessesInv, NEW t \in Processes \cup {Main}, Work(t)
    PROVE  PlacesFit' /\ CpuFits' /\ Built' = Built /\ Created' = Created
<1>1. PlacesFit /\ CpuFits /\ HomesFit
  BY DEF ProcessesInv, SpaceInv
<1>2. UNCHANGED <<vars, cr3, esp0>>
  BY WorkMapsFit
<1>3. /\ UNCHANGED <<home, pgdir, at, making>> /\ Calls(t)
      /\ \A u \in Threads \ {t} : step'[u] = step[u]
      /\ Processes \subseteq Threads
  BY WorkLeaves
<1>4. UNCHANGED <<pc, current>>
  BY <1>2 DEF vars, schedVars, syncVars
<1>5. Built' = Built /\ Created' = Created
  BY <1>3, <1>4 DEF Built, Created
<1>6. pc[t] # "new"
  BY <1>3 DEF Calls
<1>7. PlacesFit'
  BY <1>1, <1>3, <1>4, <1>5, <1>6 DEF PlacesFit, Creating
<1>8. CpuFits'
  BY <1>1, <1>2, <1>3, <1>4, <1>5 DEF CpuFits
<1> QED
  BY <1>5, <1>7, <1>8

\* What the others have in hand: none of them is between scan and set.
LEMMA WorkOthers ==
    ASSUME ProcessesInv, NEW t \in Processes \cup {Main}, Work(t),
           NEW u \in (Processes \cup {Main}) \ {t}
    PROVE  HandFits(u)'
<1>1. HandFits(u)
  BY DEF ProcessesInv, SpaceInv, HandsFit
<1>2. /\ UNCHANGED <<home, at>> /\ Calls(t) /\ SameHand(u) /\ heap'[u] = heap[u]
      /\ u \in Threads \ {t}
  BY WorkLeaves
<1>3. UNCHANGED vars /\ dir'[home[u]] = dir[home[u]]
  BY <1>2, WorkMapsFit
<1>4. UNCHANGED <<pc, current>> /\ current = t
  BY <1>2, <1>3 DEF vars, schedVars, syncVars, Calls
<1>5. step[u] \notin {"set", "tset"}
  BY <1>1, <1>2, <1>4 DEF HandFits
<1>6. Owned(u)' = Owned(u)
  BY <1>2 DEF SameHand, Owned
<1>7. step'[u] = step[u] /\ vaddr'[u] = vaddr[u] /\ vbits'[u] = vbits[u]
        /\ pde_phyaddr'[u] = pde_phyaddr[u]
  BY <1>2 DEF SameHand
<1> QED
  BY <1>1, <1>2, <1>3, <1>5, <1>6, <1>7 DEF HandFits

\* What t itself has in hand.
LEMMA WorkHand ==
    ASSUME ProcessesInv, NEW t \in Processes \cup {Main}, Work(t)
    PROVE  HandFits(t)'
<1> DEFINE i == vaddr[t] \div PerTable
<1>1. ProcessesTypeOK /\ SpaceInv /\ HandFits(t)
  BY DEF ProcessesInv, SpaceInv, HandsFit
<1>2. /\ UNCHANGED <<home, at>> /\ Calls(t) /\ t \in Threads
  BY WorkLeaves
<1>3. UNCHANGED vars
  BY WorkMapsFit
<1>4. UNCHANGED <<pc, current>> /\ current = t /\ pc[t] = "body"
  BY <1>2, <1>3, RunnerFacts DEF vars, schedVars, syncVars
<1>5. t = Main \/ (t \in Built /\ t # Main)
  BY <1>2, RunnerFacts
<1>6. step[t] \in Taking => /\ at[t] \in Allocating /\ vaddr[t] \in vbits[t] \ heap[t]
                            /\ at[t] = "begin" => vaddr[t] = StackPage
  BY <1>1 DEF HandFits
<1>7. CASE TakeAddress(t)
  <2>1. /\ step'[t] = "scan" /\ at[t] \in Allocating
        /\ vaddr'[t] \in vbits'[t] /\ vaddr'[t] \notin vbits[t]
        /\ at[t] = "begin" => vaddr'[t] = StackPage
    BY <1>7, TakenAddress
  <2>2. heap[t] \subseteq vbits[t] /\ UNCHANGED heap
    <3>1. t = Main \/ (t \in Built /\ t \in Processes)
      BY <1>5 DEF Built
    <3> QED
      BY <1>1, <1>7, <3>1 DEF SpaceInv, HeapsFit, TakeAddress
  <2> QED
    BY <1>2, <2>1, <2>2 DEF HandFits, Taking
<1>8. CASE ScanFrame(t)
  <2>1. /\ step[t] = "scan" /\ step'[t] = "set" /\ UNCHANGED <<vaddr, heap, vbits, taken>>
        /\ page_phyaddr'[t] = FirstFree(PoolOf(t))
    BY <1>1, <1>2, <1>8 DEF ScanFrame, Doing, Step, ProcessesTypeOK
  <2>2. FirstFree(PoolOf(t)) \in PoolOf(t) \ taken
    BY <1>1, <1>5, <2>1, MainFrame, ProcessFrame DEF PoolOf
  <2>3. PoolOf(t)' = PoolOf(t)
    BY DEF PoolOf
  <2> QED
    BY <1>2, <1>4, <1>6, <2>1, <2>2, <2>3 DEF HandFits, Taking
<1>9. CASE SetFrame(t)
  <2>1. step[t] = "set" /\ step'[t] = "map" /\ UNCHANGED <<vaddr, heap, vbits>>
    BY <1>1, <1>2, <1>9 DEF SetFrame, Doing, Step, ProcessesTypeOK, handVars
  <2> QED
    BY <1>2, <1>6, <2>1 DEF HandFits, Taking, Holding
<1>10. CASE ScanTable(t)
  <2>1. /\ step[t] = "map" /\ step'[t] = "tset" /\ UNCHANGED <<vaddr, heap, vbits, taken, dir>>
        /\ pde_phyaddr'[t] = FirstFree(KernelPool) /\ Entry(t) = None
    BY <1>1, <1>2, <1>10 DEF ScanTable, Doing, Step, ProcessesTypeOK
  <2>2. step[t] \in Taking
    BY <2>1 DEF Taking, Holding
  <2>3. t \in Built /\ t # Main /\ dir[home[t]][i] = None
    BY <1>2, <1>5, <2>1, <2>2, EntryFacts
  <2>4. FirstFree(KernelPool) \in KernelPool \ taken
    BY <1>1, <2>1, <2>3, TableRoom
  <2> QED
    BY <1>2, <1>4, <1>6, <2>1, <2>2, <2>3, <2>4 DEF HandFits, Taking, Holding
<1>11. CASE SetTable(t)
  <2>1. step[t] = "tset" /\ step'[t] = "pde" /\ UNCHANGED <<vaddr, heap, vbits, dir, pde_phyaddr>>
    BY <1>1, <1>2, <1>11 DEF SetTable, Doing, Step, ProcessesTypeOK, handVars
  <2>2. pde_phyaddr[t] # None /\ t # Main /\ dir[home[t]][i] = None
    BY <1>1, <2>1, PoolFacts DEF HandFits
  <2>3. step[t] \in Taking
    BY <2>1 DEF Taking, Holding
  <2> QED
    BY <1>2, <1>6, <2>1, <2>2, <2>3 DEF HandFits, Taking, Holding
<1>12. CASE AddTable(t)
  <2>1. step[t] = "pde" /\ step'[t] = "zero" /\ UNCHANGED <<vaddr, heap, vbits>>
    BY <1>1, <1>2, <1>12 DEF AddTable, Doing, Step, ProcessesTypeOK
  <2>2. /\ dir'[home[t]][i] # None
        /\ \A p \in Owned(t) : p \div PerTable = i => p = vaddr[t]
    BY <1>12, AddTableMaps
  <2>3. Owned(t)' = Owned(t)
    BY <2>1 DEF Owned
  <2>4. step[t] \in Taking /\ t # Main
    BY <1>1, <2>1 DEF Taking, Holding, HandFits
  <2> QED
    BY <1>2, <1>6, <2>1, <2>2, <2>3, <2>4 DEF HandFits, Taking, Holding
<1>13. CASE ClearTable(t)
  <2>1. step[t] = "zero" /\ step'[t] = "pte" /\ UNCHANGED <<vaddr, heap, vbits>>
    BY <1>1, <1>2, <1>13 DEF ClearTable, Doing, Step, ProcessesTypeOK, handVars
  <2>2. dir'[home[t]][i] # None /\ t # Main
    BY <1>1, <1>2, <1>13, <2>1, ClearTableMaps DEF HandFits
  <2>3. step[t] \in Taking
    BY <2>1 DEF Taking, Holding
  <2> QED
    BY <1>2, <1>6, <2>1, <2>2, <2>3 DEF HandFits, Taking, Holding
<1>14. CASE MapPage(t)
  <2>1. /\ step[t] \in {"map", "pte"} /\ UNCHANGED <<vbits, heap>>
        /\ step'[t] = IF at[t] = "begin" THEN "done" ELSE "clear"
        /\ at[t] # "begin" => vaddr' = vaddr
    BY <1>14, MapPageMaps DEF MapPage, Doing
  <2>2. step[t] \in Taking
    BY <2>1 DEF Taking, Holding
  <2> QED
    BY <1>2, <1>6, <2>1, <2>2 DEF HandFits, Taking, Holding
<1>15. CASE ClearPage(t) \/ Unmap(t)
  <2>1. step'[t] = "done"
    BY <1>1, <1>2, <1>15 DEF ClearPage, Unmap, Step, ProcessesTypeOK
  <2> QED
    BY <2>1 DEF HandFits, Taking, Holding
<1>16. CASE Pfree(t)
  <2>1. step'[t] = "unmap" /\ at[t] = "free" /\ vaddr'[t] \in heap[t] /\ UNCHANGED heap
    BY <1>16, FreedPage DEF Pfree
  <2> QED
    BY <1>2, <2>1 DEF HandFits, Taking, Holding
<1> QED
  BY <1>7, <1>8, <1>9, <1>10, <1>11, <1>12, <1>13, <1>14, <1>15, <1>16 DEF Work

\* The pages of the heap, the one in hand and the bits of t.
HeapNext(t) ==
    /\ heap'[t] \cap Adding(t)' = {}
    /\ Cardinality(heap'[t]) <= HeapPages
    /\ at[t] = "malloc" /\ step'[t] # "done" => Cardinality(heap'[t]) < HeapPages
    /\ IF t = Main
       THEN heap'[Main] \subseteq vbits'[Main]
       ELSE /\ heap'[t] \cup Adding(t)' \subseteq HeapRange
            /\ ~(at[t] = "begin" /\ step'[t] \in {"out", "in"})
            /\ vbits'[t] = heap'[t] \cup Adding(t)' \cup {StackPage}

\* The steps between vaddr_get and the memset leave the three alone.
LEMMA SameHeap ==
    ASSUME ProcessesInv, NEW t \in Processes \cup {Main}, Work(t),
           ScanFrame(t) \/ SetFrame(t) \/ ScanTable(t) \/ SetTable(t)
              \/ AddTable(t) \/ ClearTable(t) \/ MapPage(t)
    PROVE  /\ UNCHANGED <<heap, vbits, got>> /\ Adding(t)' = Adding(t)
           /\ step[t] \in Taking
           /\ \/ step'[t] \in Taking /\ vaddr'[t] = vaddr[t]
              \/ step'[t] = "done" /\ at[t] = "begin"
<1>1. ProcessesTypeOK /\ UNCHANGED at /\ t \in Threads
  BY WorkLeaves DEF ProcessesInv
<1>2. CASE ScanFrame(t) \/ SetFrame(t) \/ ScanTable(t) \/ SetTable(t)
              \/ AddTable(t) \/ ClearTable(t)
  <2>1. UNCHANGED <<heap, vbits, got, vaddr>>
    BY <1>2 DEF ScanFrame, SetFrame, ScanTable, SetTable, AddTable, ClearTable, handVars
  <2>2. step[t] \in Taking /\ step'[t] \in Taking
    BY <1>1, <1>2 DEF ScanFrame, SetFrame, ScanTable, SetTable, AddTable, ClearTable,
                      Doing, Step, ProcessesTypeOK, Taking, Holding
  <2> QED
    BY <1>1, <2>1, <2>2 DEF Adding
<1>3. CASE MapPage(t)
  <2>1. UNCHANGED <<heap, vbits, got>> /\ step[t] \in {"map", "pte"}
    BY <1>3 DEF MapPage, Doing
  <2>2. /\ step'[t] = IF at[t] = "begin" THEN "done" ELSE "clear"
        /\ at[t] # "begin" => vaddr' = vaddr
    BY <1>3, MapPageMaps
  <2>3. Adding(t)' = Adding(t)
    BY <1>1, <2>1, <2>2 DEF Adding, Taking, Holding
  <2> QED
    BY <1>1, <2>1, <2>2, <2>3 DEF Taking, Holding
<1> QED
  BY <1>2, <1>3

LEMMA WorkHeap ==
    ASSUME ProcessesInv, NEW t \in Processes \cup {Main}, Work(t)
    PROVE  HeapNext(t)
<1>1. ProcessesTypeOK /\ SpaceInv /\ HeapsFit /\ HandFits(t) /\ PlacesFit
  BY DEF ProcessesInv, SpaceInv, HandsFit
<1>2. UNCHANGED at /\ Calls(t) /\ t \in Threads
  BY WorkLeaves
<1>3. t = Main \/ (t \in Built /\ t \in Processes /\ t # Main)
  BY <1>2, RunnerFacts DEF Built
<1>4. /\ heap[t] \cap Adding(t) = {} /\ Cardinality(heap[t]) <= HeapPages
      /\ at[t] = "malloc" /\ step[t] # "done" => Cardinality(heap[t]) < HeapPages
      /\ t = Main => heap[Main] \subseteq vbits[Main]
      /\ t # Main => heap[t] \cup Adding(t) \subseteq HeapRange
  BY <1>1, <1>3 DEF HeapsFit
<1>5. t # Main => IF at[t] = "begin" /\ step[t] \in {"out", "in"}
                  THEN heap[t] = {} /\ vbits[t] = {}
                  ELSE vbits[t] = heap[t] \cup Adding(t) \cup {StackPage}
  BY <1>1, <1>3 DEF HeapsFit
<1>6. CASE TakeAddress(t)
  <2>1. /\ vaddr'[t] \notin vbits[t] /\ vbits'[t] = vbits[t] \cup {vaddr'[t]}
        /\ t = Main => vaddr'[t] \in KernelPages /\ at[t] # "begin"
        /\ t # Main /\ at[t] = "malloc" => vaddr'[t] \in HeapRange
        /\ at[t] = "begin" => vaddr'[t] = StackPage
        /\ step[t] = "in" /\ step'[t] = "scan" /\ at[t] \in Allocating
    BY <1>6, TakenAddress
  <2>2. UNCHANGED heap
    BY <1>6 DEF TakeAddress
  <2>3. /\ Adding(t)' = IF at[t] = "malloc" THEN {vaddr'[t]} ELSE {}
        /\ Adding(t) = {}
    BY <1>2, <2>1 DEF Adding, Taking, Holding
  <2>4. heap[t] \subseteq vbits[t]
    BY <1>3, <1>4, <1>5, <2>3
  <2>5. t # Main => at[t] \in {"begin", "malloc"}
    BY <1>1, <1>3, <2>1 DEF PlacesFit, ProcessPlaces, Allocating
  <2> QED
    BY <1>3, <1>4, <1>5, <2>1, <2>2, <2>3, <2>4, <2>5 DEF HeapNext
<1>7. CASE ScanFrame(t) \/ SetFrame(t) \/ ScanTable(t) \/ SetTable(t)
              \/ AddTable(t) \/ ClearTable(t) \/ MapPage(t)
  <2>1. /\ UNCHANGED <<heap, vbits>> /\ Adding(t)' = Adding(t)
        /\ step[t] \in Taking
        /\ step'[t] \in Taking \/ (step'[t] = "done" /\ at[t] = "begin")
    BY <1>7, SameHeap
  <2>2. step[t] \notin {"out", "in", "done"} /\ step'[t] \notin {"out", "in"}
    BY <2>1 DEF Taking, Holding
  <2> QED
    BY <1>4, <1>5, <2>1, <2>2 DEF HeapNext
<1>8. CASE ClearPage(t)
  <2>1. /\ step[t] = "clear" /\ step'[t] = "done" /\ UNCHANGED vbits
        /\ heap'[t] = IF at[t] = "malloc" THEN heap[t] \cup {vaddr[t]} ELSE heap[t]
    BY <1>1, <1>2, <1>8 DEF ClearPage, Doing, Step, ProcessesTypeOK
  <2>2. step[t] \in Taking /\ step'[t] \notin Taking
    BY <2>1 DEF Taking, Holding
  <2>3. /\ Adding(t) = IF at[t] = "malloc" THEN {vaddr[t]} ELSE {}
        /\ Adding(t)' = {}
    BY <2>2 DEF Adding
  <2>4. vaddr[t] \in vbits[t] /\ at[t] # "begin"
    BY <1>1, <2>1, <2>2 DEF HandFits
  <2>5. Cardinality(heap'[t]) <= HeapPages
    <3>1. CASE at[t] # "malloc"
      BY <1>4, <2>1, <3>1
    <3>2. CASE at[t] = "malloc"
      <4>1. vaddr[t] \notin heap[t] /\ Cardinality(heap[t]) < HeapPages
        BY <1>4, <2>1, <2>3, <3>2
      <4>2. IsFiniteSet(heap[t]) /\ Cardinality(heap[t]) \in Nat
        <5>1. IsFiniteSet(heap[Main])
          BY <1>1, MainCount
        <5>2. t # Main => IsFiniteSet(heap[t])
          BY <1>4, Room, FS_Subset
        <5> QED
          BY <5>1, <5>2, FS_CardinalityType
      <4>3. Cardinality(heap[t] \cup {vaddr[t]}) = Cardinality(heap[t]) + 1
        BY <4>1, <4>2, FS_AddElement
      <4> QED
        BY <2>1, <3>2, <4>1, <4>2, <4>3, Sizes
    <3> QED
      BY <3>1, <3>2
  <2> QED
    BY <1>4, <1>5, <2>1, <2>3, <2>4, <2>5 DEF HeapNext
<1>9. CASE Pfree(t)
  <2>1. step[t] = "in" /\ step'[t] = "unmap" /\ at[t] = "free" /\ UNCHANGED <<heap, vbits>>
    BY <1>9, FreedPage DEF Pfree
  <2>2. Adding(t)' = {} /\ Adding(t) = {}
    BY <1>2, <2>1 DEF Adding
  <2> QED
    BY <1>4, <1>5, <2>1, <2>2 DEF HeapNext
<1>10. CASE Unmap(t)
  <2>1. /\ step[t] = "unmap" /\ step'[t] = "done"
        /\ vbits'[t] = vbits[t] \ {vaddr[t]} /\ heap'[t] = heap[t] \ {vaddr[t]}
    BY <1>1, <1>2, <1>10 DEF Unmap, Doing, Step, ProcessesTypeOK
  <2>2. at[t] = "free" /\ vaddr[t] \in heap[t]
    BY <1>1, <2>1 DEF HandFits
  <2>3. Adding(t)' = {} /\ Adding(t) = {}
    BY <1>2, <2>2 DEF Adding
  <2>4. Cardinality(heap'[t]) <= HeapPages
    <3>1. IsFiniteSet(heap[t])
      <4>1. IsFiniteSet(heap[Main])
        BY <1>1, MainCount
      <4>2. t # Main => IsFiniteSet(heap[t])
        BY <1>4, Room, FS_Subset
      <4> QED
        BY <4>1, <4>2
    <3>2. Cardinality(heap'[t]) <= Cardinality(heap[t])
      BY <2>1, <3>1, FS_Subset
    <3>3. Cardinality(heap[t]) \in Nat /\ Cardinality(heap'[t]) \in Nat
      BY <2>1, <3>1, FS_CardinalityType, FS_Subset
    <3> QED
      BY <1>4, <3>2, <3>3, Sizes
  <2>5. t # Main => vaddr[t] # StackPage
    BY <1>4, <2>2, PoolFacts
  <2> QED
    BY <1>4, <1>5, <2>1, <2>2, <2>3, <2>4, <2>5 DEF HeapNext
<1> QED
  BY <1>6, <1>7, <1>8, <1>9, <1>10 DEF Work

\* A process leaves the pages of the kernel alone, those that will be directories
\* included.
LEMMA KernelPageStays ==
    ASSUME ProcessesInv, NEW t \in Processes \cup {Main}, Work(t), t # Main,
           NEW p \in Owned(Main), \A u \in Built : pgdir[u] # p
    PROVE  \A f \in {KFrame(p)} : dir'[f] = dir[f]
<1> DEFINE g == KFrame(p)
<1>1. ProcessesTypeOK /\ SpaceInv /\ MapsFit /\ KernelMaps
  BY DEF ProcessesInv, SpaceInv, MapsFit
<1>2. Calls(t) /\ t \in Threads
  BY WorkLeaves
<1>3. t \in Built
  BY <1>2, RunnerFacts
<1>4. g \in KernelPool \cap taken /\ g \in PageFrames /\ g \notin UserPool
  BY <1>1, PoolFacts DEF KernelMaps
<1>5. g # home[t]
  <2>1. pgdir[t] \in Owned(Main) /\ home[t] = KFrame(pgdir[t])
    BY <1>1, <1>3, HomesDiffer
  <2> QED
    BY <1>1, <1>3, <2>1 DEF KernelMaps
<1> HIDE DEF g
<1>6. CASE UNCHANGED dir
  BY <1>6 DEF g
<1>7. CASE AddTable(t)
  <2>1. dir' = [dir EXCEPT ![home[t]][vaddr[t] \div PerTable] = pde_phyaddr[t]]
    BY <1>2, <1>7, RunnerFacts DEF AddTable
  <2> QED
    BY <1>1, <1>4, <1>5, <2>1 DEF g, ProcessesTypeOK
<1>8. ASSUME NEW f, NEW w, Fill(f, w), f # g
      PROVE  dir'[g] = dir[g]
  BY <1>1, <1>4, <1>8 DEF Fill, ProcessesTypeOK
<1>9. CASE ClearTable(t)
  <2>1. step[t] = "zero" /\ Fill(Entry(t), None)
    BY <1>9 DEF ClearTable, Doing
  <2>2. /\ Entry(t) = dir[home[t]][vaddr[t] \div PerTable] /\ Entry(t) # None
        /\ vaddr[t] \div PerTable \in UserEntries
    BY <1>2, <2>1, TableMaker
  <2>3. Entry(t) # g
    BY <1>1, <1>3, <2>2, TableFacts DEF g
  <2> QED
    BY <1>8, <2>1, <2>3 DEF g
<1>10. CASE ClearPage(t)
  <2>1. step[t] = "clear" /\ Fill(V2P(cr3, vaddr[t]), None)
    BY <1>10 DEF ClearPage, Doing
  <2>2. V2P(cr3, vaddr[t]) \in UserPool
    BY <1>2, <2>1, ClearedPage DEF PoolOf
  <2> QED
    BY <1>4, <1>8, <2>1, <2>2 DEF g
<1>11. CASE Pfree(t)
  <2> DEFINE q == vaddr'[t]
  <2>1. /\ q \in vbits[t] /\ step[t] = "in" /\ Fill(V2P(cr3, q), Dirt)
    BY <1>11, FreedPage
  <2>2. step[t] \notin {"scan", "set", "unmap"} \cup Holding
    BY <2>1 DEF Holding
  <2> HIDE DEF q
  <2>3. V2P(cr3, q) \in UserPool
    BY <1>2, <2>1, <2>2, PageFacts DEF PoolOf
  <2> QED
    BY <1>4, <1>8, <2>1, <2>3 DEF g
<1> QED
  BY <1>6, <1>7, <1>9, <1>10, <1>11
  DEF Work, TakeAddress, ScanFrame, SetFrame, ScanTable, SetTable, MapPage, Unmap

LEMMA ProcessWork ==
    ASSUME ProcessesInv, NEW t \in Processes \cup {Main}, Work(t), t # Main
    PROVE  CountFits' /\ HomesFit'
<1>1. /\ ProcessesTypeOK /\ SpaceInv /\ CountFits /\ HomesFit /\ PlacesFit /\ HandFits(t)
      /\ LocksFit
  BY DEF ProcessesInv, SpaceInv, HandsFit
<1>2. /\ UNCHANGED <<home, pgdir, at>> /\ Calls(t)
      /\ t \in Threads /\ Main \in Threads /\ step'[Main] = step[Main]
      /\ SameHand(Main) /\ heap'[Main] = heap[Main]
  BY WorkLeaves
<1>3. /\ Built' = Built /\ Created' = Created
      /\ \A p \in KernelPages : KernelFrame(p)' = KernelFrame(p)
  BY WorkPlaces, WorkMapsFit
<1>4. vbits'[Main] = vbits[Main] /\ vaddr'[Main] = vaddr[Main]
  BY <1>2 DEF SameHand
<1>5. Adding(Main)' = Adding(Main)
  BY <1>2, <1>4 DEF Adding
<1>6. Fixed' = Fixed /\ InHand' = InHand
  BY <1>2, <1>4, <1>5 DEF Fixed, InHand
<1>7. CountFits'
  BY <1>1, <1>3, <1>6 DEF CountFits
<1>8. UNCHANGED got
  <2>1. CASE ClearPage(t)
    <3>1. step[t] = "clear"
      BY <2>1 DEF ClearPage, Doing
    <3>2. at[t] \in Allocating /\ at[t] # "begin"
      BY <1>1, <3>1 DEF HandFits, Taking
    <3>3. at[t] \in ProcessPlaces
      BY <1>1 DEF PlacesFit
    <3>4. at[t] = "malloc"
      BY <3>2, <3>3 DEF Allocating, ProcessPlaces
    <3> QED
      BY <2>1, <3>4 DEF ClearPage
  <2> QED
    BY <2>1 DEF Work, TakeAddress, ScanFrame, SetFrame, ScanTable, SetTable, AddTable,
                ClearTable, MapPage, Pfree, Unmap
<1>9. Fixed \subseteq vbits[Main] /\ vbits[Main] \subseteq KernelPages
  BY <1>1, OwnedFacts DEF Fixed
<1>10. \A u \in Built : pgdir'[u] \in Fixed' /\ home'[u] = KernelFrame(pgdir[u])'
  <2>1. ASSUME NEW u \in Built
        PROVE  pgdir'[u] \in Fixed' /\ home'[u] = KernelFrame(pgdir[u])'
    <3>1. pgdir[u] \in Fixed /\ home[u] = KernelFrame(pgdir[u])
      BY <1>1 DEF HomesFit
    <3>2. pgdir' = pgdir /\ home' = home
      BY <1>2
    <3>3. \A p \in {pgdir[u]} : KernelFrame(p)' = KernelFrame(p)
      BY <1>3, <1>9, <3>1
    <3>4. KernelFrame(pgdir[u])' = KernelFrame(pgdir[u])
      BY <3>2, <3>3 DEF KernelFrame
    <3> QED
      BY <1>6, <3>1, <3>2, <3>4
  <2> QED
    BY <2>1
<1>11. at[Main] = "copy" \/ (at[Main] = "pgdir" /\ step[Main] = "done") =>
           /\ got \in Fixed'
           /\ \A u \in Built : pgdir[u] # got
           /\ \A i \in UserEntries : dir'[KernelFrame(got)'][i] = None
  <2> SUFFICES ASSUME at[Main] = "copy" \/ (at[Main] = "pgdir" /\ step[Main] = "done")
               PROVE  /\ got \in Fixed'
                      /\ \A u \in Built : pgdir[u] # got
                      /\ \A i \in UserEntries : dir'[KernelFrame(got)'][i] = None
    OBVIOUS
  <2>1. /\ got \in Fixed /\ \A u \in Built : pgdir[u] # got
        /\ \A i \in UserEntries : dir[KernelFrame(got)][i] = None
    BY <1>1 DEF HomesFit
  <2>2. step[Main] \in {"out", "done"}
    BY <1>1, <1>2 DEF LocksFit, Locked
  <2> DEFINE p == got
             g == KFrame(p)
  <2>3. p \in Owned(Main) /\ g = KernelFrame(p)
    BY <1>9, <2>1, <2>2 DEF Owned, KFrame, Holding
  <2>4. KernelFrame(got)' = g
    <3>1. got' = got
      BY <1>8
    <3>2. \A x \in {got} : KernelFrame(x)' = KernelFrame(x)
      BY <1>3, <1>9, <2>1
    <3>3. KernelFrame(got)' = KernelFrame(got)
      BY <3>1, <3>2 DEF KernelFrame
    <3> QED
      BY <2>3, <3>3
  <2>5. \A f \in {g} : dir'[f] = dir[f]
    BY <2>1, <2>3, KernelPageStays
  <2> HIDE DEF g
  <2> QED
    BY <1>6, <2>1, <2>3, <2>4, <2>5
<1>12. step'[Main] \in Taking => \A u \in Built : pgdir[u] # vaddr'[Main]
  BY <1>1, <1>2, <1>4 DEF HomesFit
<1>13. /\ \A u \in Threads \ Built : pgdir[u] = NULL /\ home[u] = BootDir
       /\ \A u, w \in Built : pgdir[u] = pgdir[w] => u = w
  BY <1>1 DEF HomesFit
<1>14. HomesFit'
  BY <1>2, <1>3, <1>8, <1>10, <1>11, <1>12, <1>13 DEF HomesFit
<1> QED
  BY <1>7, <1>14

\* What main keeps for good: a page more when it takes one for a process.
LEMMA MainFixed ==
    ASSUME ProcessesInv, Work(Main)
    PROVE  /\ \/ Fixed' = Fixed /\ InHand' = InHand
              \/ /\ TakeAddress(Main) /\ InHand' = InHand + 1
                 /\ Fixed' = Fixed \cup {vaddr'[Main]} /\ vaddr'[Main] \notin Fixed
           /\ Fixed \subseteq Fixed'
<1>1. /\ ProcessesTypeOK /\ SpaceInv /\ HeapsFit /\ HandFits(Main) /\ PlacesFit
      /\ UNCHANGED at /\ Main \in Threads
  BY WorkLeaves DEF ProcessesInv, SpaceInv, HandsFit
<1>2. heap[Main] \subseteq vbits[Main]
  BY <1>1 DEF HeapsFit
<1>3. CASE TakeAddress(Main)
  <2>1. /\ vaddr'[Main] \notin vbits[Main] /\ vbits'[Main] = vbits[Main] \cup {vaddr'[Main]}
        /\ at[Main] # "begin"
        /\ step[Main] = "in" /\ step'[Main] = "scan" /\ at[Main] \in Allocating
    BY <1>3, TakenAddress
  <2>2. UNCHANGED heap
    BY <1>3 DEF TakeAddress
  <2>3. /\ Adding(Main)' = IF at[Main] = "malloc" THEN {vaddr'[Main]} ELSE {}
        /\ Adding(Main) = {}
    BY <1>1, <2>1 DEF Adding, Taking, Holding
  <2>4. CASE at[Main] = "malloc"
    <3>1. Fixed' = Fixed
      BY <1>2, <2>1, <2>2, <2>3, <2>4 DEF Fixed
    <3>2. InHand' = InHand
      BY <1>1, <2>4 DEF InHand
    <3> QED
      BY <3>1, <3>2
  <2>5. CASE at[Main] # "malloc"
    <3>1. Fixed' = Fixed \cup {vaddr'[Main]} /\ vaddr'[Main] \notin Fixed
      BY <1>2, <2>1, <2>2, <2>3, <2>5 DEF Fixed
    <3>2. at[Main] \in {"pcb", "bitmap", "pgdir"}
      BY <1>1, <2>1, <2>5 DEF Allocating
    <3>3. InHand' = InHand + 1
      BY <1>1, <2>1, <3>2 DEF InHand
    <3> QED
      BY <1>3, <3>1, <3>3
  <2> QED
    BY <2>4, <2>5
<1>4. CASE \/ ScanFrame(Main) \/ SetFrame(Main) \/ ScanTable(Main) \/ SetTable(Main)
           \/ AddTable(Main) \/ ClearTable(Main) \/ MapPage(Main)
  <2>1. /\ UNCHANGED <<heap, vbits>> /\ Adding(Main)' = Adding(Main)
        /\ step[Main] \in Taking
        /\ step'[Main] \in Taking \/ step'[Main] = "done"
    BY <1>4, SameHeap
  <2>2. Fixed' = Fixed
    BY <2>1 DEF Fixed
  <2>3. InHand' = InHand
    BY <1>1, <2>1 DEF InHand, Taking, Holding
  <2> QED
    BY <2>2, <2>3
<1>5. CASE ClearPage(Main)
  <2>1. /\ step[Main] = "clear" /\ step'[Main] = "done" /\ UNCHANGED vbits
        /\ heap'[Main] = IF at[Main] = "malloc" THEN heap[Main] \cup {vaddr[Main]} ELSE heap[Main]
    BY <1>1, <1>5 DEF ClearPage, Doing, Step, ProcessesTypeOK
  <2>2. step[Main] \in Taking /\ step'[Main] \notin Taking
    BY <2>1 DEF Taking, Holding
  <2>3. /\ Adding(Main) = IF at[Main] = "malloc" THEN {vaddr[Main]} ELSE {}
        /\ Adding(Main)' = {}
    BY <2>2 DEF Adding
  <2>4. Fixed' = Fixed
    BY <2>1, <2>3 DEF Fixed
  <2>5. InHand' = InHand
    BY <1>1, <2>1 DEF InHand
  <2> QED
    BY <2>4, <2>5
<1>6. CASE Pfree(Main)
  <2>1. step[Main] = "in" /\ step'[Main] = "unmap" /\ at[Main] = "free" /\ UNCHANGED <<heap, vbits>>
    BY <1>6, FreedPage DEF Pfree
  <2>2. Adding(Main)' = {} /\ Adding(Main) = {}
    BY <1>1, <2>1 DEF Adding
  <2>3. Fixed' = Fixed
    BY <2>1, <2>2 DEF Fixed
  <2>4. InHand' = InHand
    BY <1>1, <2>1 DEF InHand
  <2> QED
    BY <2>3, <2>4
<1>7. CASE Unmap(Main)
  <2>1. /\ step[Main] = "unmap"
        /\ vbits'[Main] = vbits[Main] \ {vaddr[Main]} /\ heap'[Main] = heap[Main] \ {vaddr[Main]}
    BY <1>1, <1>7 DEF Unmap, Doing, ProcessesTypeOK
  <2>2. at[Main] = "free" /\ vaddr[Main] \in heap[Main]
    BY <1>1, <2>1 DEF HandFits
  <2>3. Adding(Main)' = {} /\ Adding(Main) = {}
    BY <1>1, <2>2 DEF Adding
  <2>4. Fixed' = Fixed
    BY <2>1, <2>2, <2>3 DEF Fixed
  <2>5. InHand' = InHand
    BY <1>1, <2>2 DEF InHand
  <2> QED
    BY <2>4, <2>5
<1> QED
  BY <1>3, <1>4, <1>5, <1>6, <1>7 DEF Work

\* The directories are not what main works on.
LEMMA HomesStay ==
    ASSUME ProcessesInv, Work(Main), NEW u \in Built
    PROVE  /\ \A p \in {pgdir[u]} : KernelFrame(p)' = KernelFrame(p)
           /\ step'[Main] \in Taking => pgdir[u] # vaddr'[Main]
<1>1. /\ ProcessesTypeOK /\ SpaceInv /\ HomesFit /\ HandFits(Main) /\ Main \in Threads
  BY WorkLeaves DEF ProcessesInv, SpaceInv, HandsFit
<1>2. pgdir[u] \in Fixed /\ Fixed \subseteq vbits[Main] /\ vbits[Main] \subseteq KernelPages
  BY <1>1, OwnedFacts DEF HomesFit, Fixed
<1>3. pgdir[u] \in KernelPages /\ pgdir[u] \in vbits[Main]
  BY <1>2
<1>4. CASE TakeAddress(Main)
  <2>1. UNCHANGED <<dir, table, home>>
    BY <1>4 DEF TakeAddress
  <2>2. \A p \in KernelPages : KernelFrame(p)' = KernelFrame(p)
    BY <1>1, <2>1, QuietTables
  <2>3. vaddr'[Main] \notin vbits[Main]
    BY <1>4, TakenAddress
  <2> QED
    BY <1>3, <2>2, <2>3
<1>5. CASE \/ ScanFrame(Main) \/ SetFrame(Main) \/ ScanTable(Main) \/ SetTable(Main)
           \/ AddTable(Main) \/ ClearTable(Main) \/ MapPage(Main)
  <2>1. /\ step[Main] \in Taking
        /\ \/ step'[Main] \in Taking /\ vaddr'[Main] = vaddr[Main]
           \/ step'[Main] = "done"
    BY <1>5, SameHeap
  <2>2. "done" \notin Taking
    BY DEF Taking, Holding
  <2>3. pgdir[u] # vaddr[Main]
    BY <1>1, <2>1 DEF HomesFit
  <2> QED
    BY <1>3, <2>1, <2>2, <2>3, WorkMapsFit
<1>6. CASE ClearPage(Main) \/ Pfree(Main) \/ Unmap(Main)
  <2>1. step'[Main] \notin Taking
    BY <1>1, <1>6 DEF ClearPage, Pfree, Unmap, Step, ProcessesTypeOK, Taking, Holding
  <2>2. CASE ClearPage(Main)
    BY <1>3, <2>1, <2>2, ClearPageMaps
  <2>3. CASE Pfree(Main)
    BY <1>3, <2>1, <2>3, PfreeMaps
  <2>4. CASE Unmap(Main)
    <3>1. step[Main] = "unmap"
      BY <2>4 DEF Unmap, Doing
    <3>2. vaddr[Main] \in heap[Main]
      BY <1>1, <3>1 DEF HandFits
    <3>3. pgdir[u] # vaddr[Main]
      BY <1>2, <3>2 DEF Fixed
    <3> QED
      BY <1>3, <2>1, <2>4, <3>3, UnmapMaps
  <2> QED
    BY <1>6, <2>2, <2>3, <2>4
<1> QED
  BY <1>4, <1>5, <1>6 DEF Work

\* The page that get_kernel_pages returns for a directory is empty.
LEMMA GotEmpty ==
    ASSUME ProcessesInv, Work(Main), at[Main] = "copy" \/ (at[Main] = "pgdir" /\ step'[Main] = "done")
    PROVE  /\ got' \in Fixed /\ \A u \in Built : pgdir[u] # got'
           /\ \A i \in UserEntries : dir'[KernelFrame(got)'][i] = None
<1>1. /\ ProcessesTypeOK /\ SpaceInv /\ HomesFit /\ HandFits(Main) /\ Main \in Threads
      /\ Calls(Main)
  BY WorkLeaves DEF ProcessesInv, SpaceInv, HandsFit
<1>2. ClearPage(Main)
  <2>1. CASE TakeAddress(Main)
    BY <2>1, TakenAddress DEF Allocating
  <2>2. CASE \/ ScanFrame(Main) \/ SetFrame(Main) \/ ScanTable(Main) \/ SetTable(Main)
             \/ AddTable(Main) \/ ClearTable(Main) \/ MapPage(Main)
    <3>1. /\ step[Main] \in Taking
          /\ step'[Main] \in Taking \/ (step'[Main] = "done" /\ at[Main] = "begin")
      BY <2>2, SameHeap
    <3>2. at[Main] \in Allocating
      BY <1>1, <3>1 DEF HandFits
    <3> QED
      BY <3>1, <3>2 DEF Allocating, Taking, Holding
  <2>3. CASE Pfree(Main)
    BY <2>3, FreedPage
  <2>4. CASE Unmap(Main)
    <3>1. step[Main] = "unmap"
      BY <2>4 DEF Unmap, Doing
    <3> QED
      BY <1>1, <3>1 DEF HandFits
  <2> QED
    BY <2>1, <2>2, <2>3, <2>4 DEF Work
<1>3. step[Main] = "clear" /\ step[Main] \in Taking
  BY <1>2 DEF ClearPage, Doing, Taking
<1>4. at[Main] = "pgdir"
  BY <1>1, <1>3 DEF HandFits, Allocating
<1>5. got' = vaddr[Main] /\ Fill(V2P(cr3, vaddr[Main]), None)
  BY <1>2, <1>4 DEF ClearPage
<1>6. vaddr[Main] \in Fixed
  <2>1. vaddr[Main] \in vbits[Main] \ heap[Main]
    BY <1>1, <1>3 DEF HandFits
  <2> QED
    BY <1>4, <2>1 DEF Fixed, Adding
<1>7. \A u \in Built : pgdir[u] # vaddr[Main]
  BY <1>1, <1>3 DEF HomesFit
<1> DEFINE f == KernelFrame(vaddr[Main])
<1>8. V2P(cr3, vaddr[Main]) = f /\ f \in PageFrames
  BY <1>1, <1>3, ClearedPage
<1>9. KernelFrame(got)' = f
  <2>1. vaddr[Main] \in KernelPages
    BY <1>1, <1>6, OwnedFacts DEF Fixed
  <2>2. \A p \in {vaddr[Main]} : KernelFrame(p)' = KernelFrame(p)
    BY <1>2, <2>1, ClearPageMaps
  <2> QED
    BY <1>5, <2>2 DEF KernelFrame
<1> HIDE DEF f
<1>10. \A i \in Entries : dir'[f][i] = None
  BY <1>1, <1>5, <1>8, FillFacts
<1> QED
  BY <1>5, <1>6, <1>7, <1>9, <1>10, PoolFacts

LEMMA MainWork ==
    ASSUME ProcessesInv, Work(Main)
    PROVE  CountFits' /\ HomesFit'
<1>1. /\ ProcessesTypeOK /\ SpaceInv /\ CountFits /\ HomesFit
      /\ UNCHANGED <<home, pgdir, at>> /\ Main \in Threads
  BY WorkLeaves DEF ProcessesInv, SpaceInv
<1>2. Built' = Built /\ Created' = Created
  BY WorkPlaces
<1>3. /\ IsFiniteSet(Fixed) /\ IsFiniteSet(Created)
      /\ Cardinality(Fixed) \in Nat /\ Cardinality(Created) \in Nat /\ InHand \in Nat
  BY <1>1, MainCount, FS_CardinalityType DEF InHand
<1>4. CountFits'
  <2>1. CASE Fixed' = Fixed /\ InHand' = InHand
    BY <1>1, <1>2, <2>1 DEF CountFits
  <2>2. CASE /\ TakeAddress(Main) /\ InHand' = InHand + 1
             /\ Fixed' = Fixed \cup {vaddr'[Main]} /\ vaddr'[Main] \notin Fixed
    <3>1. Cardinality(Fixed') = Cardinality(Fixed) + 1
      BY <1>3, <2>2, FS_AddElement
    <3>2. Cardinality(Fixed) <= Cardinality(Created) * 3 + InHand
      BY <1>1 DEF CountFits
    <3>3. Cardinality(Fixed') <= Cardinality(Created') * 3 + InHand'
      BY <1>2, <1>3, <2>2, <3>1, <3>2
    <3> QED
      BY <3>3 DEF CountFits
  <2> QED
    BY <2>1, <2>2, MainFixed
<1>5. Fixed \subseteq Fixed'
  BY MainFixed
<1>6. ASSUME NEW u \in Built
      PROVE  /\ pgdir'[u] \in Fixed' /\ home'[u] = KernelFrame(pgdir[u])'
             /\ step'[Main] \in Taking => pgdir[u] # vaddr'[Main]
  <2>1. pgdir[u] \in Fixed /\ home[u] = KernelFrame(pgdir[u])
    BY <1>1 DEF HomesFit
  <2>2. KernelFrame(pgdir[u])' = KernelFrame(pgdir[u])
    BY <1>1, HomesStay DEF KernelFrame
  <2> QED
    BY <1>1, <1>5, <2>1, <2>2, HomesStay
<1>7. at[Main] = "copy" \/ (at[Main] = "pgdir" /\ step'[Main] = "done") =>
          /\ got' \in Fixed' /\ \A u \in Built : pgdir[u] # got'
          /\ \A i \in UserEntries : dir'[KernelFrame(got)'][i] = None
  BY <1>5, GotEmpty
<1>8. /\ \A u \in Threads \ Built : pgdir[u] = NULL /\ home[u] = BootDir
      /\ \A u, w \in Built : pgdir[u] = pgdir[w] => u = w
  BY <1>1 DEF HomesFit
<1>9. HomesFit'
  BY <1>1, <1>2, <1>6, <1>7, <1>8 DEF HomesFit
<1> QED
  BY <1>4, <1>9

LEMMA WorkSpace ==
    ASSUME ProcessesInv, NEW t \in Processes \cup {Main}, Work(t)
    PROVE  SpaceInv'
<1>1. MapsFit' /\ PlacesFit' /\ CpuFits'
  BY WorkMapsFit, WorkPlaces
<1>2. HandsFit'
  BY WorkHand, WorkOthers DEF HandsFit
<1>3. CountFits' /\ HomesFit'
  BY ProcessWork, MainWork
<1>4. HeapsFit'
  <2>1. HeapsFit /\ Built' = Built /\ UNCHANGED at
    BY WorkPlaces, WorkLeaves DEF ProcessesInv, SpaceInv
  <2>2. HeapNext(t)
    BY WorkHeap
  <2>3. ASSUME NEW u \in (Processes \cup {Main}) \ {t}
        PROVE  /\ heap'[u] = heap[u] /\ vbits'[u] = vbits[u] /\ step'[u] = step[u]
               /\ Adding(u)' = Adding(u)
    <3>1. SameHand(u) /\ heap'[u] = heap[u]
      BY WorkLeaves
    <3> QED
      BY <2>1, <3>1 DEF SameHand, Adding
  <2>4. Calls(t)
    BY WorkLeaves
  <2>5. t = Main \/ (t \in Built /\ t # Main)
    BY <2>4, RunnerFacts
  <2>6. \A u \in Processes :
           /\ heap'[u] \cup Adding(u)' \subseteq HeapRange
           /\ u \notin Built => heap'[u] = {} /\ vbits'[u] = {}
           /\ u \in Built =>
                 IF at[u] = "begin" /\ step'[u] \in {"out", "in"}
                 THEN heap'[u] = {} /\ vbits'[u] = {}
                 ELSE vbits'[u] = heap'[u] \cup Adding(u)' \cup {StackPage}
    <3>1. ASSUME NEW u \in Processes
          PROVE  /\ heap'[u] \cup Adding(u)' \subseteq HeapRange
                 /\ u \notin Built => heap'[u] = {} /\ vbits'[u] = {}
                 /\ u \in Built =>
                       IF at[u] = "begin" /\ step'[u] \in {"out", "in"}
                       THEN heap'[u] = {} /\ vbits'[u] = {}
                       ELSE vbits'[u] = heap'[u] \cup Adding(u)' \cup {StackPage}
      <4>1. CASE u = t
        BY <2>2, <2>5, <4>1, ProcessesAssumption DEF HeapNext
      <4>2. CASE u # t
        BY <2>1, <2>3, <4>2 DEF HeapsFit
      <4> QED
        BY <4>1, <4>2
    <3> QED
      BY <3>1
  <2>7. heap'[Main] \subseteq vbits'[Main]
    BY <2>1, <2>2, <2>3 DEF HeapsFit, HeapNext
  <2>8. \A u \in Processes \cup {Main} :
           /\ heap'[u] \cap Adding(u)' = {}
           /\ Cardinality(heap'[u]) <= HeapPages
           /\ at[u] = "malloc" /\ step'[u] # "done" => Cardinality(heap'[u]) < HeapPages
    BY <2>1, <2>2, <2>3 DEF HeapsFit, HeapNext
  <2> QED
    BY <2>1, <2>6, <2>7, <2>8 DEF HeapsFit
<1> QED
  BY <1>1, <1>2, <1>3, <1>4 DEF SpaceInv

-----------------------------------------------------------------------------
(* The processes stay within the rules of Sync.                            *)

LEMMA LockOfIsLock ==
    ASSUME NEW t, at[t] \in Locked
    PROVE  LockOf(t) \in Locks
  BY ProcessesAssumption DEF LockOf, Locked

LEMMA ThreadStepParts ==
    ASSUME NEW t, ThreadStep(t)
    PROVE  Acquire(t) \/ Release(t) \/ Work(t) \/ ReadCursor(t) \/ WriteChar(t)
  BY Zenon DEF ThreadStep, Work

LEMMA ThreadStepIsLegal ==
    ASSUME ProcessesInv, NEW t \in Processes \cup {Main}, ThreadStep(t)
    PROVE  Client(t) \/ UNCHANGED vars
<1>1. CASE Acquire(t) \/ Release(t)
  BY <1>1, LockOfIsLock DEF Acquire, Release, Client
<1>2. CASE Work(t)
  BY <1>2, WorkMapsFit
<1>3. CASE ReadCursor(t) \/ WriteChar(t)
  BY <1>3 DEF ReadCursor, WriteChar
<1> QED
  BY <1>1, <1>2, <1>3, ThreadStepParts

LEMMA StepIsLegal ==
    ASSUME ProcessesInv, [ProcessesNext]_allVars
    PROVE  [Next]_vars
<1>0. Processes \cup {Main} \subseteq Threads
  BY ProcessesAssumption, ThreadsAssumption
<1>1. CASE \E t \in Processes \cup {Main} : ThreadStep(t)
  BY <1>0, <1>1, ThreadStepIsLegal DEF Next
<1>2. CASE Boot
  BY <1>0, <1>2 DEF Boot, Next, Client
<1>3. CASE MainCalls \/ CreatePageDir
  BY <1>3 DEF MainCalls, CreatePageDir
<1>4. CASE ListProcess
  <2>1. making \in Threads
    BY <1>0, <1>4 DEF ListProcess, ProcessesInv, SpaceInv, PlacesFit, Creating
  <2> QED
    BY <1>0, <1>4, <2>1 DEF ListProcess, Next, Client
<1>5. CASE \E t \in Processes : Syscall(t) \/ Iret(t)
  BY <1>0, <1>5 DEF Syscall, Iret, Next, Client
<1>6. CASE SystemStep
  BY <1>6, ThreadsAssumption DEF SystemStep, Next, Client, Irq
<1>7. CASE UNCHANGED allVars
  BY <1>7 DEF allVars
<1> QED
  BY <1>1, <1>2, <1>3, <1>4, <1>5, <1>6, <1>7 DEF ProcessesNext

LEMMA StepKeepsSync ==
    ASSUME ProcessesInv, [ProcessesNext]_allVars
    PROVE  Inv'
  BY StepIsLegal, NextInv DEF ProcessesInv

-----------------------------------------------------------------------------
(* Steps that leave pages and directories alone.                           *)

\* Only process_execute makes a process of a task_struct.
SameNew == \A u \in Threads : pc'[u] = "new" <=> pc[u] = "new"

LEMMA NewStays ==
    ASSUME Inv,
           \/ \E t \in Threads : Library(t) \/ Park(t) \/ Cli(t) \/ Sti(t)
           \/ \E t \in Threads : \E l \in Locks : LockAcquire(t, l) \/ LockRelease(t, l)
           \/ Halt \/ Tick \/ UNCHANGED vars
    PROVE  SameNew
<1> USE DEF SameNew
<1>1. pc \in [Threads -> PC]
  BY DEF Inv, TypeOK, SyncTypeOK
<1>2. CASE \E t \in Threads : Library(t) \/ Park(t)
  BY <1>1, <1>2
  DEF Library, SemaDown, Own, Up, Resume, Park, At, Calls, Wait, TakeUnit
<1>3. CASE \E t \in Threads : Cli(t) \/ Sti(t)
  BY <1>3 DEF Cli, Sti
<1>4. CASE \E t \in Threads : \E l \in Locks : LockAcquire(t, l) \/ LockRelease(t, l)
  BY <1>1, <1>4 DEF LockAcquire, LockRelease, Calls
<1>5. CASE Halt \/ Tick
  BY <1>1, <1>5 DEF Halt, Tick, Interrupt, At
<1>6. CASE UNCHANGED vars
  BY <1>6 DEF vars, syncVars
<1> QED
  BY <1>2, <1>3, <1>4, <1>5, <1>6

\* Steps outside malloc_page and mfree_page.
Outside == {"out", "in", "read", "done"}
SamePhase(t) == step'[t] = step[t] \/ {step[t], step'[t]} \subseteq Outside

LEMMA PhaseFacts ==
    ASSUME NEW t, SamePhase(t)
    PROVE  /\ \A s \in {"scan", "set", "unmap", "clear"} \cup Holding : step'[t] = s <=> step[t] = s
           /\ step'[t] \in Taking <=> step[t] \in Taking
           /\ step'[t] \in Holding <=> step[t] \in Holding
  BY Zenon DEF SamePhase, Outside, Taking, Holding

\* A step that moves nothing.
Quiet ==
    /\ UNCHANGED <<heap, pgdir, home, dir, table, taken, vbits, handVars>>
    /\ \A u \in Processes \cup {Main} : SamePhase(u)

LEMMA QuietMaps ==
    ASSUME SpaceInv, Quiet
    PROVE  MapsFit' /\ Built' = Built
<1>1. Built' = Built /\ Built \subseteq Processes
  BY DEF Built, Quiet
<1>2. /\ \A p : KernelFrame(p)' = KernelFrame(p)
      /\ \A t, p : UserFrame(t, p)' = UserFrame(t, p)
  BY DEF KernelFrame, UserFrame, V2P, Quiet
<1>3. ASSUME NEW t \in Processes \cup {Main}
      PROVE  /\ Owned(t)' = Owned(t)
             /\ \A p : UFrame(t, p)' = UFrame(t, p)
             /\ \A i : TableOf(t, i)' = TableOf(t, i)
             /\ \A p : Unmapped(t, p)' = Unmapped(t, p)
             /\ \A p : Uncleared(t, p)' = Uncleared(t, p)
             /\ t = Main => \A p : KFrame(p)' = KFrame(p)
  <2>1. /\ UNCHANGED <<vbits, vaddr, page_phyaddr, pde_phyaddr, dir, home>>
        /\ SamePhase(t)
    BY <1>3 DEF Quiet, handVars
  <2>2. /\ step'[t] \in {"scan", "set", "unmap"} <=> step[t] \in {"scan", "set", "unmap"}
        /\ step'[t] \in Holding <=> step[t] \in Holding
        /\ step'[t] \in {"scan", "set"} \cup Holding <=> step[t] \in {"scan", "set"} \cup Holding
        /\ step'[t] = "zero" <=> step[t] = "zero"
        /\ step'[t] = "pde" <=> step[t] = "pde"
    BY <2>1, PhaseFacts DEF Holding
  <2>3. Owned(t)' = Owned(t)
    BY <2>1, <2>2 DEF Owned
  <2>4. \A p : UFrame(t, p)' = UFrame(t, p)
    BY <1>2, <2>1, <2>2 DEF UFrame
  <2>5. \A i : TableOf(t, i)' = TableOf(t, i)
    BY <2>1, <2>2 DEF TableOf
  <2>6. \A p : Unmapped(t, p)' = Unmapped(t, p)
    BY <2>1, <2>2 DEF Unmapped
  <2>7. \A p : Uncleared(t, p)' = Uncleared(t, p)
    BY <2>1, <2>2 DEF Uncleared
  <2>8. t = Main => \A p : KFrame(p)' = KFrame(p)
    BY <1>2, <2>1, <2>2 DEF KFrame
  <2> QED
    BY <2>3, <2>4, <2>5, <2>6, <2>7, <2>8
<1>4. KernelHalf'
  BY DEF SpaceInv, MapsFit, KernelHalf, Quiet
<1>5. vbits' = vbits /\ taken' = taken
  BY DEF Quiet
<1> QED
  BY <1>1, <1>2, <1>3, <1>4, <1>5, MapsKept DEF SpaceInv, MapsFit, KernelMaps, UserMaps

\* What the other threads have in hand, while t does none of malloc_page and
\* mfree_page.
LEMMA QuietHands ==
    ASSUME ProcessesInv, NEW t \in Threads, current = t, UNCHANGED current, Quiet,
           \A u \in Threads \ {t} : at'[u] = at[u] /\ step'[u] = step[u],
           {step[t], step'[t]} \subseteq Outside
    PROVE  /\ HandsFit' /\ Fixed' = Fixed
           /\ \A u \in Processes \cup {Main} : Adding(u)' = Adding(u)
           /\ step'[Main] \in Taking <=> step[Main] \in Taking
<1>0. Processes \cup {Main} \subseteq Threads
  BY ProcessesAssumption, ThreadsAssumption
<1>1. UNCHANGED <<heap, home, dir, taken, vbits, vaddr, page_phyaddr, pde_phyaddr>>
  BY DEF Quiet, handVars
<1>2. ASSUME NEW u \in Processes \cup {Main}, u # t
      PROVE  HandFits(u)'
  <2>1. /\ HandFits(u) /\ u \in Threads /\ at'[u] = at[u] /\ step'[u] = step[u]
        /\ step[u] \notin {"set", "tset"}
    BY <1>0, <1>2 DEF ProcessesInv, SpaceInv, HandsFit, HandFits
  <2>2. Owned(u)' = Owned(u)
    BY <1>1, <2>1 DEF Owned
  <2> QED
    BY <1>1, <2>1, <2>2 DEF HandFits
<1>3. t \in Processes \cup {Main} => HandFits(t)'
  BY Zenon DEF HandFits, Outside, Taking, Holding
<1>4. HandsFit'
  BY <1>2, <1>3 DEF HandsFit
<1>5. ASSUME NEW u \in Processes \cup {Main}
      PROVE  Adding(u)' = Adding(u) /\ (step'[u] \in Taking <=> step[u] \in Taking)
  <2>1. CASE u = t
    <3>1. step[u] \notin Taking /\ step'[u] \notin Taking
      BY <2>1, Zenon DEF Outside, Taking, Holding
    <3> QED
      BY <3>1 DEF Adding
  <2>2. CASE u # t
    BY <1>0, <1>1, <2>2 DEF Adding
  <2> QED
    BY <2>1, <2>2
<1>6. Fixed' = Fixed
  BY <1>1, <1>5 DEF Fixed
<1> QED
  BY <1>4, <1>5, <1>6

\* A step of t in its own code.
LEMMA ControlSpace ==
    ASSUME ProcessesInv, NEW t \in Processes \cup {Main}, Calls(t), SameNew,
           \A u \in Threads \ {t} : at'[u] = at[u] /\ step'[u] = step[u],
           {step[t], step'[t]} \subseteq Outside,
           UNCHANGED <<current, cpuVars, got, heap, pgdir, home, dir, table, taken, vbits, handVars>>,
           IF t = Main
           THEN /\ at'[Main] \in MainPlaces
                /\ InHand' = InHand
                /\ at'[Main] = "copy" \/ (at'[Main] = "pgdir" /\ step'[Main] = "done") =>
                      at[Main] = "copy" \/ (at[Main] = "pgdir" /\ step[Main] = "done")
                /\ at'[Main] # "list" /\ at[Main] # "list"
                /\ Creating' => making' \in Processes /\ pc[making'] = "new"
           ELSE /\ at'[t] \in ProcessPlaces /\ UNCHANGED making
                /\ at'[t] = "begin" /\ step'[t] \in {"out", "in"} <=>
                      at[t] = "begin" /\ step[t] \in {"out", "in"},
           at'[t] = "malloc" /\ step'[t] # "done" => Cardinality(heap[t]) < HeapPages
    PROVE  SpaceInv'
<1>0. /\ t \in Threads /\ Main \in Threads /\ Main \notin Processes /\ Processes \subseteq Threads
      /\ current = t /\ pc[t] = "body"
  BY RunnerFacts, ProcessesAssumption, ThreadsAssumption
<1>1. Quiet
  BY <1>0 DEF Quiet, SamePhase
<1>2. MapsFit' /\ Built' = Built /\ Created' = Created
  BY <1>0, <1>1, QuietMaps DEF ProcessesInv, Created, SameNew
<1>3. /\ HandsFit' /\ Fixed' = Fixed
      /\ \A u \in Processes \cup {Main} : Adding(u)' = Adding(u)
      /\ step'[Main] \in Taking <=> step[Main] \in Taking
  BY <1>0, <1>1, QuietHands
<1>4. /\ t # Main => UNCHANGED <<at[Main], step[Main], InHand>>
      /\ InHand' = InHand
  BY <1>0 DEF InHand
<1>5. HomesFit'
  <2>1. \A p : KernelFrame(p)' = KernelFrame(p)
    BY DEF KernelFrame
  <2>2. vaddr' = vaddr
    BY DEF handVars
  <2>3. at'[Main] = "copy" \/ (at'[Main] = "pgdir" /\ step'[Main] = "done") =>
            at[Main] = "copy" \/ (at[Main] = "pgdir" /\ step[Main] = "done")
    BY <1>4
  <2> QED
    BY <1>2, <1>3, <2>1, <2>2, <2>3 DEF ProcessesInv, SpaceInv, HomesFit
<1>6. HeapsFit'
  <2>1. ASSUME NEW u \in Processes
        PROVE  at'[u] = "begin" /\ step'[u] \in {"out", "in"} <=>
                  at[u] = "begin" /\ step[u] \in {"out", "in"}
    BY <1>0
  <2>2. ASSUME NEW u \in Processes \cup {Main}
        PROVE  at'[u] = "malloc" /\ step'[u] # "done" => Cardinality(heap[u]) < HeapPages
    BY <1>0 DEF ProcessesInv, SpaceInv, HeapsFit
  <2> QED
    BY <1>2, <1>3, <2>1, <2>2 DEF ProcessesInv, SpaceInv, HeapsFit
<1>7. CountFits'
  BY <1>2, <1>3, <1>4 DEF ProcessesInv, SpaceInv, CountFits
<1>8. PlacesFit'
  <2>1. at'[Main] \in MainPlaces /\ \A u \in Processes : at'[u] \in ProcessPlaces
    BY <1>0 DEF ProcessesInv, SpaceInv, PlacesFit
  <2>2. \A u \in Threads \ (Processes \cup {Main}) : at'[u] = "idle"
    BY <1>0 DEF ProcessesInv, SpaceInv, PlacesFit
  <2>3. \A u \in Processes : pc'[u] = "new" => at'[u] = "begin" /\ step'[u] = "out"
    BY <1>0 DEF ProcessesInv, SpaceInv, PlacesFit, SameNew
  <2>4. Creating' => making' \in Processes /\ pc'[making'] = "new"
    BY <1>0, <1>4 DEF ProcessesInv, SpaceInv, PlacesFit, SameNew, Creating
  <2>5. Built' = Created' \cup IF at'[Main] = "list" THEN {making'} ELSE {}
    BY <1>2, <1>4 DEF ProcessesInv, SpaceInv, PlacesFit
  <2> QED
    BY <2>1, <2>2, <2>3, <2>4, <2>5 DEF PlacesFit
<1>9. CpuFits'
  BY <1>2 DEF ProcessesInv, SpaceInv, CpuFits, cpuVars
<1> QED
  BY <1>2, <1>3, <1>5, <1>6, <1>7, <1>8, <1>9 DEF SpaceInv

LEMMA GoFacts ==
    ASSUME ProcessesTypeOK, NEW t \in Threads, NEW a, NEW s
    PROVE  /\ Go(t, a) => at'[t] = a /\ \A u \in Threads \ {t} : at'[u] = at[u]
           /\ Step(t, s) => step'[t] = s /\ \A u \in Threads \ {t} : step'[u] = step[u]
           /\ UNCHANGED at => \A u \in Threads : at'[u] = at[u]
           /\ UNCHANGED step => \A u \in Threads : step'[u] = step[u]
  BY DEF ProcessesTypeOK, Go, Step

\* The invariant does not look at interrupt flags and the like.
LEMMA SpaceStutters ==
    ASSUME SpaceInv, UNCHANGED <<at, step, current, pc, cpuVars, making, got, heap, pgdir, home,
                                 dir, table, taken, vbits, handVars>>
    PROVE  SpaceInv'
<1>1. Quiet
  BY DEF Quiet, SamePhase
<1>2. MapsFit' /\ Built' = Built
  BY <1>1, QuietMaps
<1>3. UNCHANGED <<vaddr, page_phyaddr, pde_phyaddr, cr3, esp0>>
  BY DEF handVars, cpuVars
<1>4. /\ \A p : KernelFrame(p)' = KernelFrame(p)
      /\ \A t : Owned(t)' = Owned(t) /\ Adding(t)' = Adding(t)
      /\ Fixed' = Fixed /\ InHand' = InHand /\ Created' = Created
  BY <1>3 DEF KernelFrame, Owned, Adding, Fixed, InHand, Created
<1>5. HandsFit'
  BY <1>3, <1>4 DEF SpaceInv, HandsFit, HandFits
<1>6. HomesFit'
  BY <1>2, <1>3, <1>4 DEF SpaceInv, HomesFit
<1>7. HeapsFit'
  BY <1>2, <1>4 DEF SpaceInv, HeapsFit
<1>8. CountFits'
  BY <1>4 DEF SpaceInv, CountFits
<1>9. PlacesFit'
  BY <1>2, <1>4 DEF SpaceInv, PlacesFit, Creating
<1>10. CpuFits'
  BY <1>2, <1>3 DEF SpaceInv, CpuFits
<1> QED
  BY <1>2, <1>5, <1>6, <1>7, <1>8, <1>9, <1>10 DEF SpaceInv

LEMMA AcquireSpace ==
    ASSUME ProcessesInv, NEW t \in Processes \cup {Main}, Acquire(t)
    PROVE  SpaceInv'
<1>1. /\ Calls(t) /\ LockAcquire(t, LockOf(t)) /\ LockOf(t) \in Locks
      /\ step[t] = "out" /\ Step(t, "in")
      /\ UNCHANGED <<at, spaceVars, cpuVars>> /\ UNCHANGED current
  BY LockOfIsLock DEF Acquire, LockAcquire, schedVars
<1>2. t \in Threads /\ pc[t] = "body"
  BY <1>1, RunnerFacts
<1>3. SameNew
  BY <1>1, <1>2, NewStays DEF ProcessesInv
<1>4. /\ at'[t] = at[t] /\ step'[t] = "in"
      /\ \A u \in Threads \ {t} : at'[u] = at[u] /\ step'[u] = step[u]
  BY <1>1, <1>2, GoFacts DEF ProcessesInv
<1>5. UNCHANGED <<making, got, heap, pgdir, home, dir, table, taken, vbits, handVars>>
  BY <1>1 DEF spaceVars
<1>6. t = Main => InHand' = InHand /\ at[Main] # "list"
  BY <1>1, <1>4 DEF InHand, Acquire, Locked
<1>7. {step[t], step'[t]} \subseteq Outside
  BY <1>1, <1>4 DEF Outside
<1> QED
  BY <1>1, <1>2, <1>3, <1>4, <1>5, <1>6, <1>7, ControlSpace
  DEF ProcessesInv, SpaceInv, PlacesFit, HeapsFit, Creating

LEMMA ReleaseSpace ==
    ASSUME ProcessesInv, NEW t \in Processes \cup {Main}, Release(t)
    PROVE  SpaceInv'
<1>1. /\ Calls(t) /\ LockRelease(t, LockOf(t)) /\ LockOf(t) \in Locks
      /\ at[t] \in Locked /\ step[t] = "done" /\ Go(t, After(t)) /\ Step(t, "out")
      /\ UNCHANGED <<spaceVars, cpuVars>> /\ UNCHANGED current
  BY LockOfIsLock DEF Release, LockRelease
<1>2. t \in Threads /\ pc[t] = "body"
  BY <1>1, RunnerFacts
<1>3. SameNew
  BY <1>1, <1>2, NewStays DEF ProcessesInv
<1>4. /\ at'[t] = After(t) /\ step'[t] = "out"
      /\ \A u \in Threads \ {t} : at'[u] = at[u] /\ step'[u] = step[u]
  BY <1>1, <1>2, GoFacts DEF ProcessesInv
<1>5. UNCHANGED <<making, got, heap, pgdir, home, dir, table, taken, vbits, handVars>>
  BY <1>1 DEF spaceVars
<1>8. {step[t], step'[t]} \subseteq Outside
  BY <1>1, <1>4 DEF Outside
<1>6. CASE t = Main
  <2>1. at[Main] \in {"pcb", "bitmap", "pgdir", "malloc", "free", "print"}
    BY <1>1, <1>6 DEF Locked, ProcessesInv, SpaceInv, PlacesFit, MainPlaces
  <2>2. /\ at'[Main] = CASE at[Main] = "pcb" -> "bitmap" [] at[Main] = "bitmap" -> "pgdir"
                         [] at[Main] = "pgdir" -> "copy" [] OTHER -> "idle"
    BY <1>4, <1>6, <2>1 DEF After
  <2>3. InHand' = InHand /\ (Creating' => Creating)
    BY <1>1, <1>4, <1>6, <2>1, <2>2 DEF InHand, Creating
  <2> QED
    BY <1>1, <1>2, <1>3, <1>4, <1>5, <1>6, <1>8, <2>1, <2>2, <2>3, ControlSpace
    DEF MainPlaces, ProcessesInv, SpaceInv, PlacesFit
<1>7. CASE t # Main
  <2>1. at[t] \in {"begin", "malloc", "free", "print"}
    BY <1>1, <1>7 DEF Locked, ProcessesInv, SpaceInv, PlacesFit, ProcessPlaces
  <2>2. at'[t] \in {"user", "iret"}
    BY <1>4, <1>7, <2>1 DEF After
  <2> QED
    BY <1>1, <1>2, <1>3, <1>4, <1>5, <1>7, <1>8, <2>1, <2>2, ControlSpace DEF ProcessPlaces
<1> QED
  BY <1>6, <1>7

LEMMA PrintSpace ==
    ASSUME ProcessesInv, NEW t \in Processes \cup {Main}, ReadCursor(t) \/ WriteChar(t)
    PROVE  SpaceInv'
<1>1. /\ Calls(t) /\ at[t] = "print" /\ (Step(t, "read") \/ Step(t, "done"))
      /\ UNCHANGED <<vars, at, spaceVars, cpuVars>>
  BY DEF ReadCursor, WriteChar, Within
<1>2. t \in Threads /\ pc[t] = "body"
  BY <1>1, RunnerFacts
<1>3. SameNew /\ UNCHANGED current
  BY <1>1, NewStays DEF ProcessesInv, vars, schedVars
<1>4. /\ at'[t] = "print"
      /\ \A u \in Threads \ {t} : at'[u] = at[u] /\ step'[u] = step[u]
  BY <1>1, <1>2, GoFacts DEF ProcessesInv
<1>5. UNCHANGED <<making, got, heap, pgdir, home, dir, table, taken, vbits, handVars>>
  BY <1>1 DEF spaceVars
<1>6. t = Main => InHand' = InHand /\ ~Creating'
  BY <1>1, <1>4 DEF InHand, Creating
<1>7. {step[t], step'[t]} \subseteq Outside
  <2>1. step[t] \in {"in", "read"}
    BY DEF ReadCursor, WriteChar, Within
  <2>2. step'[t] \in {"read", "done"}
    BY <1>1, <1>2, GoFacts DEF ProcessesInv
  <2> QED
    BY <2>1, <2>2 DEF Outside
<1> QED
  BY <1>1, <1>2, <1>3, <1>4, <1>5, <1>6, <1>7, ControlSpace DEF MainPlaces, ProcessPlaces

\* System calls, main's calls, and the flags.
LEMMA CallSpace ==
    ASSUME ProcessesInv,
           Boot \/ MainCalls \/ \E t \in Processes : Syscall(t) \/ Iret(t)
    PROVE  SpaceInv'
<1>0. ASSUME NEW t \in Processes \cup {Main}, Calls(t), at[t] \notin Locked
      PROVE  t \in Threads /\ step[t] = "out" /\ "out" \in Outside
  BY <1>0, RunnerFacts DEF ProcessesInv, LocksFit, Outside
<1>1. CASE Boot
  <2>1. SameNew /\ UNCHANGED current /\ Calls(Main) /\ UNCHANGED processVars
    BY <1>1, NewStays, ThreadsAssumption DEF Boot, Sti, ProcessesInv, schedVars
  <2>2. UNCHANGED <<at, step, cpuVars, making, got, heap, pgdir, home, dir, table, taken, vbits, handVars>>
    BY <2>1 DEF processVars, spaceVars
  <2>3. UNCHANGED pc
    BY <1>1 DEF Boot, Sti, syncVars
  <2> QED
    BY <2>1, <2>2, <2>3, SpaceStutters DEF ProcessesInv
<1>2. CASE MainCalls
  <2>1. /\ Calls(Main) /\ at[Main] = "idle" /\ UNCHANGED <<vars, step, cpuVars>>
        /\ UNCHANGED <<got, heap, pgdir, home, dir, table, taken, vbits, handVars>>
        /\ \/ WorkCall(Main)
           \/ making' \in Processes /\ pc[making'] = "new" /\ Go(Main, "pcb")
    BY <1>2 DEF MainCalls
  <2>2. SameNew /\ UNCHANGED current /\ Main \in Threads
    BY <2>1, NewStays, ThreadsAssumption DEF ProcessesInv, vars, schedVars
  <2>3. /\ at'[Main] \in {"malloc", "free", "print", "pcb"}
        /\ at'[Main] = "malloc" => Cardinality(heap[Main]) < HeapPages
        /\ at'[Main] = "pcb" => making' \in Processes /\ pc[making'] = "new"
        /\ \A u \in Threads \ {Main} : at'[u] = at[u] /\ step'[u] = step[u]
        /\ step'[Main] = step[Main]
    BY <2>1, <2>2, GoFacts DEF WorkCall, Kinds, ProcessesInv
  <2>7. step[Main] = "out" /\ {step[Main], step'[Main]} \subseteq Outside
    BY <1>0, <2>1, <2>3 DEF Locked
  <2>4. InHand' = InHand
    BY <2>1, <2>3, <2>7 DEF InHand
  <2>5. Creating' => making' \in Processes /\ pc[making'] = "new"
    BY <2>3 DEF Creating
  <2>6. Main \in Processes \cup {Main}
    OBVIOUS
  <2> QED
    BY <2>1, <2>2, <2>3, <2>4, <2>5, <2>6, <2>7, ControlSpace DEF MainPlaces
<1>3. ASSUME NEW t \in Processes, Syscall(t) \/ Iret(t)
      PROVE  SpaceInv'
  <2>1. /\ Calls(t) /\ at[t] \in {"user", "iret"} /\ UNCHANGED <<step, spaceVars, cpuVars>>
        /\ WorkCall(t) \/ Go(t, "user")
        /\ Cli(t) \/ Sti(t)
        /\ UNCHANGED current
    BY <1>3 DEF Syscall, Iret, Cli, Sti, schedVars
  <2>2. t \in Threads /\ t # Main /\ pc[t] = "body"
    BY <2>1, RunnerFacts, ProcessesAssumption
  <2>3. SameNew
    BY <2>1, <2>2, NewStays DEF ProcessesInv
  <2>4. /\ at'[t] \in {"malloc", "free", "print", "user"}
        /\ at'[t] = "malloc" => Cardinality(heap[t]) < HeapPages
        /\ \A u \in Threads \ {t} : at'[u] = at[u] /\ step'[u] = step[u]
    BY <2>1, <2>2, GoFacts DEF WorkCall, Kinds, ProcessesInv
  <2>6. step'[t] = step[t] /\ {step[t], step'[t]} \subseteq Outside
    BY <1>0, <2>1 DEF Locked
  <2>5. UNCHANGED <<making, got, heap, pgdir, home, dir, table, taken, vbits, handVars>>
    BY <2>1 DEF spaceVars
  <2> QED
    BY <2>1, <2>2, <2>3, <2>4, <2>5, <2>6, ControlSpace DEF ProcessPlaces
<1> QED
  BY <1>1, <1>2, <1>3


-----------------------------------------------------------------------------
(* The directory of a new process.                                         *)

\* What main has got for it.
LEMMA GotFacts ==
    ASSUME ProcessesInv, CreatePageDir
    PROVE  /\ Calls(Main) /\ at[Main] = "copy" /\ step[Main] = "out"
           /\ current = Main /\ Main \in Threads /\ Main \notin Processes
           /\ Processes \subseteq Threads /\ pc[Main] = "body"
           /\ got \in Fixed /\ got \in Owned(Main) /\ got \in KernelPages
           /\ \A u \in Built : pgdir[u] # got
           /\ making \in Processes \ Built /\ pc[making] = "new" /\ Built = Created
           /\ at[making] = "begin" /\ step[making] = "out"
           /\ vbits[making] = {} /\ heap[making] = {}
           /\ cr3 = BootDir /\ home[Main] = BootDir
<1>1. /\ current = Main /\ Main \in Threads /\ Main \notin Processes /\ Processes \subseteq Threads
      /\ pc[Main] = "body" /\ Calls(Main) /\ at[Main] = "copy"
  BY ThreadsAssumption, ProcessesAssumption DEF CreatePageDir, Calls
<1>2. step[Main] = "out"
  BY <1>1 DEF ProcessesInv, LocksFit, Locked
<1>3. /\ got \in Fixed /\ \A u \in Built : pgdir[u] # got
      /\ got \in vbits[Main] /\ got \in KernelPages
  BY <1>1 DEF ProcessesInv, SpaceInv, HomesFit, Fixed, MapsFit, KernelMaps
<1>4. got \in Owned(Main)
  BY <1>2, <1>3 DEF Owned
<1>5. /\ making \in Processes \ Built /\ pc[making] = "new" /\ Built = Created
      /\ at[making] = "begin" /\ step[making] = "out"
  BY <1>1 DEF ProcessesInv, SpaceInv, PlacesFit, Creating, Created
<1>6. vbits[making] = {} /\ heap[making] = {}
  BY <1>5 DEF ProcessesInv, SpaceInv, HeapsFit
<1>7. cr3 = BootDir /\ home[Main] = BootDir
  BY <1>1 DEF ProcessesInv, SpaceInv, CpuFits, HomesFit, Built
<1> QED
  BY <1>1, <1>2, <1>3, <1>4, <1>5, <1>6, <1>7

\* The directory that it makes of the page.
LEMMA NewDirectory ==
    ASSUME ProcessesInv, CreatePageDir
    PROVE  LET f == KernelFrame(got) IN
           /\ f \in PageFrames /\ f # BootDir /\ \A u \in Threads : home[u] # f
           /\ \A g \in PageFrames \ {f} : dir'[g] = dir[g]
           /\ \A i \in Entries :
                 dir'[f][i] = IF i >= UserTables THEN BootTable(i) ELSE None
           /\ dir' \in [PageFrames -> [Entries -> PageFrames \cup {None}]]
           /\ home'[making] = f /\ pgdir'[making] = got
           /\ \A u \in Threads \ {making} : home'[u] = home[u] /\ pgdir'[u] = pgdir[u]
           /\ Built' = Built \cup {making}
           /\ home' \in [Threads -> PageFrames] /\ pgdir' \in [Threads -> KernelPages \cup {NULL}]
<1> DEFINE f == KernelFrame(got)
<1>1. V2P(cr3, got) = f
  BY GotFacts, KernelV2P DEF ProcessesInv, SpaceInv, MapsFit
<1>2. f = KFrame(got)
  BY GotFacts DEF KFrame, Holding
<1>3. f \in KernelPool \cap taken
  BY <1>2, GotFacts DEF ProcessesInv, SpaceInv, MapsFit, KernelMaps
<1>4. f \in PageFrames /\ f # BootDir
  BY <1>3, PoolFacts, Sizes DEF KernelPool, BootDir, PoolEnd
<1>5. \A u \in Built : home[u] # f
  <2>1. SUFFICES ASSUME NEW u \in Built, home[u] = f PROVE FALSE
    OBVIOUS
  <2>2. pgdir[u] \in Owned(Main) /\ home[u] = KFrame(pgdir[u])
    BY <2>1, HomesDiffer DEF ProcessesInv
  <2>3. pgdir[u] = got
    BY <1>2, <2>1, <2>2, GotFacts DEF ProcessesInv, SpaceInv, MapsFit, KernelMaps
  <2> QED
    BY <2>3, GotFacts
<1>6. \A u \in Threads : home[u] # f
  BY <1>4, <1>5 DEF ProcessesInv, SpaceInv, HomesFit
<1>7. dir' = [dir EXCEPT ![f] = [i \in Entries |-> IF i >= UserTables THEN dir[BootDir][i] ELSE @[i]]]
  BY <1>1, GotFacts DEF CreatePageDir
<1> HIDE DEF f
<1>8. \A g \in PageFrames \ {f} : dir'[g] = dir[g]
  BY <1>7 DEF ProcessesInv, ProcessesTypeOK
<1>9. \A i \in Entries : dir'[f][i] = IF i >= UserTables THEN dir[BootDir][i] ELSE dir[f][i]
  BY <1>4, <1>7 DEF ProcessesInv, ProcessesTypeOK
<1>10. \A i \in Entries : i >= UserTables => dir[BootDir][i] = BootTable(i)
  BY GotFacts, Zenon DEF ProcessesInv, SpaceInv, MapsFit, KernelHalf
<1>11. \A i \in Entries : ~(i >= UserTables) => dir[f][i] = None
  <2>1. \A i \in UserEntries : dir[f][i] = None
    BY GotFacts DEF f, ProcessesInv, SpaceInv, HomesFit
  <2> QED
    BY <2>1, Sizes DEF Entries, UserEntries
<1>12. \A i \in Entries : dir'[f][i] = IF i >= UserTables THEN BootTable(i) ELSE None
  BY <1>9, <1>10, <1>11
<1>13. dir' \in [PageFrames -> [Entries -> PageFrames \cup {None}]]
  <2>1. BootDir \in PageFrames
    BY PoolFacts
  <2>2. dir \in [PageFrames -> [Entries -> PageFrames \cup {None}]]
    BY DEF ProcessesInv, ProcessesTypeOK
  <2> HIDE DEF PageFrames, Entries
  <2>3. [i \in Entries |-> IF i >= UserTables THEN dir[BootDir][i] ELSE dir[f][i]]
           \in [Entries -> PageFrames \cup {None}]
    BY <1>4, <2>1, <2>2
  <2>4. dir' = [dir EXCEPT ![f] = [i \in Entries |-> IF i >= UserTables THEN dir[BootDir][i] ELSE dir[f][i]]]
    BY <1>4, <1>7, <2>2
  <2> QED
    BY <2>2, <2>3, <2>4
<1>14. /\ pgdir' = [pgdir EXCEPT ![making] = got] /\ home' = [home EXCEPT ![making] = f]
       /\ making \in Threads
  BY <1>1, GotFacts DEF CreatePageDir
<1>15. /\ home'[making] = f /\ pgdir'[making] = got
       /\ \A u \in Threads \ {making} : home'[u] = home[u] /\ pgdir'[u] = pgdir[u]
       /\ home' \in [Threads -> PageFrames] /\ pgdir' \in [Threads -> KernelPages \cup {NULL}]
  BY <1>4, <1>14, GotFacts DEF ProcessesInv, ProcessesTypeOK
<1>16. Built' = Built \cup {making}
  BY <1>15, GotFacts, NullAssumption DEF Built
<1> QED
  BY <1>4, <1>6, <1>8, <1>12, <1>13, <1>15, <1>16 DEF f

\* The pages and tables of the others are where they were, and the new process
\* has none.
LEMMA AddDirectory ==
    ASSUME ProcessesInv, CreatePageDir
    PROVE  MapsFit'
<1> DEFINE f == KernelFrame(got)
<1>1. UNCHANGED <<step, table, taken, vbits, vaddr, page_phyaddr, pde_phyaddr>>
  BY DEF CreatePageDir, handVars
<1>2. /\ f \in PageFrames /\ f # BootDir /\ \A u \in Threads : home[u] # f
      /\ \A g \in PageFrames \ {f} : dir'[g] = dir[g]
      /\ \A i \in Entries : dir'[f][i] = IF i >= UserTables THEN BootTable(i) ELSE None
      /\ home'[making] = f
      /\ \A u \in Threads \ {making} : home'[u] = home[u]
      /\ Built' = Built \cup {making}
  BY NewDirectory
<1> HIDE DEF f
<1>3. /\ making \in Threads /\ making \notin Built /\ Built \subseteq Threads
      /\ step[making] = "out" /\ vbits[making] = {}
  BY GotFacts DEF Built
<1>4. \A u \in Threads \ {making} : home[u] \in PageFrames \ {f} /\ dir'[home'[u]] = dir[home[u]]
  BY <1>2 DEF ProcessesInv, ProcessesTypeOK
<1>5. KernelHalf'
  <2>1. ASSUME NEW u \in Threads, NEW i \in Entries, i >= UserTables
        PROVE  dir'[home'[u]][i] = BootTable(i)
    BY <1>2, <1>4, <2>1 DEF ProcessesInv, SpaceInv, MapsFit, KernelHalf
  <2>2. dir'[BootDir] = dir[BootDir]
    BY <1>2, PoolFacts
  <2> QED
    BY <2>1, <2>2 DEF ProcessesInv, SpaceInv, MapsFit, KernelHalf
<1>6. /\ \A p : KernelFrame(p)' = KernelFrame(p)
      /\ \A p : KFrame(p)' = KFrame(p)
      /\ \A u : Owned(u)' = Owned(u)
      /\ \A u, p : Unmapped(u, p)' = Unmapped(u, p)
      /\ \A u, p : Uncleared(u, p)' = Uncleared(u, p)
  BY <1>1 DEF KernelFrame, KFrame, Owned, Unmapped, Uncleared
<1>7. /\ \A u \in Built : \A p : UserFrame(u, p)' = UserFrame(u, p)
      /\ \A u \in Built : \A p : UFrame(u, p)' = UFrame(u, p)
      /\ \A u \in Built : \A i : TableOf(u, i)' = TableOf(u, i)
  <2>1. \A u \in Built : dir'[home'[u]] = dir[home[u]]
    BY <1>3, <1>4
  <2>2. \A u \in Built : \A p : UserFrame(u, p)' = UserFrame(u, p)
    BY <1>1, <2>1 DEF UserFrame, V2P
  <2> QED
    BY <1>1, <2>1, <2>2 DEF UFrame, TableOf
<1>8. /\ Owned(making) = {}
      /\ \A m \in {making} : \A i \in UserEntries : TableOf(m, i)' = None
      /\ \A m \in {making} : \A p \in UserPages : UserFrame(m, p)' = None
  <2>1. \A i \in UserEntries : dir'[f][i] = None
    BY <1>2, PoolFacts, Sizes DEF UserEntries
  <2>2. \A m \in {making} : \A i \in UserEntries : TableOf(m, i)' = None
    BY <1>1, <1>2, <1>3, <2>1 DEF TableOf
  <2>3. \A m \in {making} : \A p \in UserPages : UserFrame(m, p)' = None
    BY <1>2, <2>1, UserPageParts DEF UserFrame, V2P
  <2> QED
    BY <1>3, <2>2, <2>3 DEF Owned
<1>9. KernelMaps'
  BY <1>1, <1>6 DEF ProcessesInv, SpaceInv, MapsFit, KernelMaps
<1>10. TablesFit'
  <2>1. ASSUME NEW u \in Built, NEW i \in UserEntries, TableOf(u, i) # None
        PROVE  /\ TableOf(u, i) \in KernelPool \cap taken
               /\ \A p \in Owned(Main) : KFrame(p) # TableOf(u, i)
               /\ \A w \in Built' : \A j \in UserEntries :
                     TableOf(w, j)' = TableOf(u, i) => w = u /\ j = i
    BY <1>2, <1>7, <1>8, <2>1 DEF ProcessesInv, SpaceInv, MapsFit, TablesFit
  <2> QED
    BY <1>1, <1>2, <1>6, <1>7, <1>8, <2>1 DEF TablesFit
<1>11. UserMaps'
  <2>1. ASSUME NEW u \in Built'
        PROVE  /\ vbits'[u] \subseteq UserPages
               /\ \A p \in Owned(u)' :
                     /\ UFrame(u, p)' \in UserPool \cap taken'
                     /\ \A w \in Built' : \A q \in Owned(w)' :
                           UFrame(w, q)' = UFrame(u, p)' => w = u /\ q = p
               /\ \A p \in UserPages :
                     Unmapped(u, p)' /\ ~Uncleared(u, p)' => UserFrame(u, p)' = None
    <3>1. CASE u = making
      BY <1>1, <1>3, <1>6, <1>8, <3>1
    <3>2. CASE u \in Built
      BY <1>1, <1>2, <1>6, <1>7, <1>8, <3>2 DEF ProcessesInv, SpaceInv, MapsFit, UserMaps
    <3> QED
      BY <1>2, <3>1, <3>2
  <2> QED
    BY <2>1 DEF UserMaps
<1>12. AllUsed'
  BY <1>1, <1>2, <1>6, <1>7 DEF ProcessesInv, SpaceInv, MapsFit, AllUsed
<1> QED
  BY <1>5, <1>9, <1>10, <1>11, <1>12 DEF MapsFit

LEMMA CreatePageDirSpace ==
    ASSUME ProcessesInv, CreatePageDir
    PROVE  SpaceInv'
<1>1. /\ Go(Main, "list")
      /\ UNCHANGED <<vars, step, making, heap, table, taken, vbits, vaddr, page_phyaddr,
                     pde_phyaddr, cpuVars>>
  BY DEF CreatePageDir, handVars
<1>2. /\ Calls(Main) /\ at[Main] = "copy" /\ step[Main] = "out"
      /\ current = Main /\ Main \in Threads /\ Main \notin Processes /\ Processes \subseteq Threads
      /\ pc[Main] = "body"
  BY GotFacts
<1>3. /\ got \in Fixed /\ got \in KernelPages /\ \A u \in Built : pgdir[u] # got
  BY GotFacts
<1>4. /\ making \in Processes \ Built /\ pc[making] = "new" /\ Built = Created
      /\ at[making] = "begin" /\ step[making] = "out"
      /\ vbits[making] = {} /\ heap[making] = {}
  BY GotFacts
<1>5. cr3 = BootDir /\ home[Main] = BootDir
  BY GotFacts
<1> DEFINE f == KernelFrame(got)
<1>6. /\ \A u \in Threads : home[u] # f
      /\ \A g \in PageFrames \ {f} : dir'[g] = dir[g]
      /\ home'[making] = f /\ pgdir'[making] = got
      /\ \A u \in Threads \ {making} : home'[u] = home[u] /\ pgdir'[u] = pgdir[u]
      /\ Built' = Built \cup {making}
  BY NewDirectory
<1> HIDE DEF f
<1>7. /\ at'[Main] = "list"
      /\ \A u \in Threads \ {Main} : at'[u] = at[u]
  BY <1>1, <1>2, GoFacts DEF ProcessesInv
<1>8. \A p : KernelFrame(p)' = KernelFrame(p)
  BY <1>1 DEF KernelFrame
<1>9. \A u \in Processes \cup {Main} : Owned(u)' = Owned(u) /\ Adding(u)' = Adding(u)
  BY <1>1, <1>2, <1>7 DEF Owned, Adding
<1>10. Fixed' = Fixed /\ Created' = Created
  BY <1>1, <1>9 DEF Fixed, Created, vars, syncVars
<1>11. UNCHANGED <<current, pc>>
  BY <1>1 DEF vars, schedVars, syncVars
<1>12. HandsFit'
  <2>1. ASSUME NEW u \in Processes \cup {Main}, u # Main, u # making
        PROVE  HandFits(u)'
    <3>1. HandFits(u) /\ u \in Threads /\ at'[u] = at[u]
      BY <1>2, <1>7, <2>1 DEF ProcessesInv, SpaceInv, HandsFit
    <3>2. home'[u] = home[u] /\ dir'[home'[u]] = dir[home[u]]
      BY <1>6, <2>1, <3>1 DEF ProcessesInv, ProcessesTypeOK
    <3> QED
      BY <1>1, <1>9, <1>11, <3>1, <3>2 DEF HandFits
  <2>2. ASSUME NEW u \in {Main, making}
        PROVE  HandFits(u)'
    <3>1. step'[u] = "out"
      BY <1>1, <1>2, <1>4
    <3> QED
      BY <3>1, Zenon DEF HandFits, Taking, Holding
  <2> QED
    BY <2>1, <2>2 DEF HandsFit
<1>13. HomesFit'
  <2>1. ASSUME NEW u \in Built'
        PROVE  pgdir'[u] \in Fixed /\ home'[u] = KernelFrame(pgdir'[u])
    <3>1. CASE u = making
      BY <1>3, <1>6, <3>1 DEF f
    <3>2. CASE u # making
      <4>1. u \in Built /\ u \in Threads
        BY <1>2, <1>6, <3>2 DEF Built
      <4>2. pgdir[u] \in Fixed /\ home[u] = KernelFrame(pgdir[u])
        BY <4>1 DEF ProcessesInv, SpaceInv, HomesFit
      <4> QED
        BY <1>6, <3>2, <4>1, <4>2
    <3> QED
      BY <3>1, <3>2
  <2>2. \A u \in Threads \ Built' : pgdir'[u] = NULL /\ home'[u] = BootDir
    BY <1>6 DEF ProcessesInv, SpaceInv, HomesFit
  <2>3. \A u, v \in Built' : pgdir'[u] = pgdir'[v] => u = v
    <3>1. \A u \in Built : u # making /\ u \in Threads
      BY <1>2, <1>4 DEF Built
    <3> QED
      BY <1>3, <1>6, <3>1 DEF ProcessesInv, SpaceInv, HomesFit
  <2>4. step'[Main] \notin Taking
    BY <1>1, <1>2, Zenon DEF Taking, Holding
  <2>5. \A u \in Built' : home'[u] = KernelFrame(pgdir[u])'
    BY <1>1, <2>1 DEF KernelFrame
  <2>6. \A u \in Built' : pgdir'[u] \in Fixed'
    BY <1>10, <2>1
  <2> QED
    BY <1>7, <2>2, <2>3, <2>4, <2>5, <2>6 DEF HomesFit
<1>14. HeapsFit'
  <2>1. ASSUME NEW u \in Processes
        PROVE  at'[u] = at[u] /\ Adding(u)' = Adding(u)
    BY <1>2, <1>7, <1>9, <2>1
  <2>2. Adding(making) = {}
    BY <1>4 DEF Adding
  <2>3. /\ \A u \in Processes :
             /\ heap'[u] \cup Adding(u)' \subseteq HeapRange
             /\ u \notin Built' => heap'[u] = {} /\ vbits'[u] = {}
             /\ u \in Built' =>
                   IF at'[u] = "begin" /\ step'[u] \in {"out", "in"}
                   THEN heap'[u] = {} /\ vbits'[u] = {}
                   ELSE vbits'[u] = heap'[u] \cup Adding(u)' \cup {StackPage}
    BY <1>1, <1>4, <1>6, <2>1, <2>2 DEF ProcessesInv, SpaceInv, HeapsFit
  <2>4. heap'[Main] \subseteq vbits'[Main]
    BY <1>1 DEF ProcessesInv, SpaceInv, HeapsFit
  <2>5. ASSUME NEW u \in Processes \cup {Main}
        PROVE  /\ heap'[u] \cap Adding(u)' = {}
               /\ Cardinality(heap'[u]) <= HeapPages
               /\ at'[u] = "malloc" /\ step'[u] # "done" => Cardinality(heap'[u]) < HeapPages
    BY <1>1, <1>7, <1>9, <2>1 DEF ProcessesInv, SpaceInv, HeapsFit
  <2> QED
    BY <2>3, <2>4, <2>5 DEF HeapsFit
<1>15. CountFits'
  <2>1. InHand' = InHand
    BY <1>1, <1>2, <1>7 DEF InHand
  <2> QED
    BY <1>10, <2>1 DEF ProcessesInv, SpaceInv, CountFits
<1>16. PlacesFit'
  <2>1. Creating' /\ making' = making /\ pc' = pc /\ step' = step
    BY <1>1, <1>7, <1>11 DEF Creating
  <2> QED
    BY <1>2, <1>4, <1>6, <1>7, <1>10, <2>1
    DEF ProcessesInv, SpaceInv, PlacesFit, MainPlaces
<1>17. CpuFits'
  <2>1. cr3' = cr3 /\ current' = current /\ Main \notin Built'
    BY <1>1, <1>2, <1>4, <1>6, <1>11 DEF cpuVars, Built
  <2> QED
    BY <1>2, <1>4, <1>5, <1>6, <2>1 DEF CpuFits
<1> QED
  BY <1>12, <1>13, <1>14, <1>15, <1>16, <1>17, AddDirectory DEF SpaceInv

LEMMA ListProcessSpace ==
    ASSUME ProcessesInv, ListProcess
    PROVE  SpaceInv'
<1>1. /\ Calls(Main) /\ at[Main] = "list" /\ Go(Main, "idle")
      /\ pc' = [pc EXCEPT ![making] = "body"]
      /\ UNCHANGED <<current, step, got, heap, pgdir, home, dir, table, taken, vbits, handVars,
                     cpuVars>>
  BY DEF ListProcess, Start, ThreadStart
<1>2. /\ Main \in Threads /\ Main \notin Processes /\ Processes \subseteq Threads
      /\ current = Main /\ pc[Main] = "body"
  BY <1>1, ThreadsAssumption, ProcessesAssumption DEF Calls
<1>3. /\ making \in Processes /\ pc[making] = "new" /\ Built = Created \cup {making}
      /\ at[making] = "begin" /\ step[making] = "out"
  BY <1>1 DEF ProcessesInv, SpaceInv, PlacesFit, Creating
<1>4. /\ at'[Main] = "idle" /\ \A u \in Threads \ {Main} : at'[u] = at[u]
  BY <1>1, <1>2, GoFacts DEF ProcessesInv
<1>5. pc'[making] = "body" /\ \A u \in Threads \ {making} : pc'[u] = pc[u]
  BY <1>1, <1>2, <1>3 DEF ProcessesInv, Inv, TypeOK, SyncTypeOK
<1>6. step[Main] = "out"
  BY <1>1, <1>2 DEF ProcessesInv, LocksFit, Locked
<1>7. Quiet /\ MapsFit' /\ Built' = Built
  <2>1. Quiet
    BY <1>1 DEF Quiet, SamePhase
  <2> QED
    BY <2>1, QuietMaps DEF ProcessesInv
<1>8. /\ HandsFit' /\ Fixed' = Fixed
      /\ \A u \in Processes \cup {Main} : Adding(u)' = Adding(u)
      /\ step'[Main] \in Taking <=> step[Main] \in Taking
  <2>1. {step[Main], step'[Main]} \subseteq Outside
    BY <1>1, <1>6 DEF Outside
  <2> QED
    BY <1>1, <1>2, <1>4, <1>7, <2>1, QuietHands
<1>9. Created' = Created \cup {making} /\ making \notin Created
  BY <1>2, <1>3, <1>5 DEF Created
<1>10. HomesFit'
  <2>1. vaddr' = vaddr /\ \A p : KernelFrame(p)' = KernelFrame(p)
    BY <1>1 DEF handVars, KernelFrame
  <2> QED
    BY <1>1, <1>4, <1>7, <1>8, <2>1 DEF ProcessesInv, SpaceInv, HomesFit
<1>11. HeapsFit'
  BY <1>1, <1>2, <1>4, <1>7, <1>8 DEF ProcessesInv, SpaceInv, HeapsFit
<1>12. CountFits'
  <2>1. InHand = 3 /\ InHand' = 0
    BY <1>1, <1>4 DEF InHand
  <2>2. IsFiniteSet(Fixed) /\ IsFiniteSet(Created)
    BY MainCount DEF ProcessesInv
  <2>3. Cardinality(Created') = Cardinality(Created) + 1 /\ Cardinality(Created) \in Nat
    BY <1>9, <2>2, FS_AddElement, FS_CardinalityType
  <2>4. Cardinality(Fixed') = Cardinality(Fixed) /\ Cardinality(Fixed) \in Nat
    BY <1>8, <2>2, FS_CardinalityType
  <2>5. Cardinality(Fixed) <= Cardinality(Created) * 3 + 3
    BY <2>1 DEF ProcessesInv, SpaceInv, CountFits
  <2>6. Cardinality(Fixed') <= Cardinality(Created') * 3 + 0
    BY <2>3, <2>4, <2>5
  <2> QED
    BY <2>1, <2>6 DEF CountFits
<1>13. PlacesFit'
  BY <1>1, <1>2, <1>3, <1>4, <1>5, <1>7, <1>9
  DEF ProcessesInv, SpaceInv, PlacesFit, MainPlaces, Creating
<1>14. CpuFits'
  BY <1>1, <1>7 DEF ProcessesInv, SpaceInv, CpuFits, cpuVars
<1> QED
  BY <1>7, <1>8, <1>10, <1>11, <1>12, <1>13, <1>14 DEF SpaceInv

\* None is between palloc's scan and its set when the processor may be given up.
LEMMA SystemAlone ==
    ASSUME ProcessesInv, SystemStep
    PROVE  \A u \in Processes \cup {Main} : step[u] \notin {"set", "tset"}
<1>1. SUFFICES ASSUME NEW u \in Processes \cup {Main}, step[u] \in {"set", "tset"}
               PROVE  FALSE
  OBVIOUS
<1>2. current = u /\ pc[u] = "body" /\ u # Idle
  BY <1>1, ProcessesAssumption, ThreadsAssumption
  DEF ProcessesInv, SpaceInv, HandsFit, HandFits
<1>3. ~(Tick /\ PallocAlone)
  BY <1>1, <1>2 DEF PallocAlone
<1>4. ~(\E t \in Threads : Library(t))
  BY <1>2 DEF Library, SemaDown, Own, Up, Resume, At
<1>5. ~Park(Idle) /\ ~Halt
  BY <1>2 DEF Park, Halt, At, Calls
<1> QED
  BY <1>3, <1>4, <1>5 DEF SystemStep

\* The switch: the directory and the stack of whoever runs next.
LEMMA SystemSpace ==
    ASSUME ProcessesInv, SystemStep
    PROVE  SpaceInv'
<1>1. /\ (\E t \in Threads : Library(t) \/ Park(t)) \/ Halt \/ Tick
      /\ Activate /\ UNCHANGED <<at, step, spaceVars>>
  BY ThreadsAssumption DEF SystemStep
<1>2. SameNew
  BY <1>1, NewStays DEF ProcessesInv
<1>3. /\ UNCHANGED <<at, step, making, got, heap, pgdir, home, dir, table, taken, vbits, handVars>>
      /\ UNCHANGED <<vaddr, page_phyaddr, pde_phyaddr>>
  BY <1>1 DEF spaceVars, handVars
<1>4. /\ MapsFit' /\ Built' = Built /\ Fixed' = Fixed
      /\ \A u : Owned(u)' = Owned(u) /\ Adding(u)' = Adding(u)
  <2>1. Quiet
    BY <1>3 DEF Quiet, SamePhase
  <2> QED
    BY <1>3, <2>1, QuietMaps DEF ProcessesInv, Fixed, Owned, Adding
<1>5. Created' = Created
  BY <1>2, ProcessesAssumption DEF Created, SameNew
<1>11. HandsFit'
  <2>1. ASSUME NEW u \in Processes \cup {Main}
        PROVE  HandFits(u)'
    <3>1. HandFits(u) /\ step[u] \notin {"set", "tset"}
      BY SystemAlone DEF ProcessesInv, SpaceInv, HandsFit
    <3> QED
      BY <1>3, <1>4, <3>1 DEF HandFits
  <2> QED
    BY <2>1 DEF HandsFit
<1>6. HomesFit'
  BY <1>3, <1>4 DEF ProcessesInv, SpaceInv, HomesFit, KernelFrame
<1>7. HeapsFit'
  BY <1>3, <1>4 DEF ProcessesInv, SpaceInv, HeapsFit
<1>8. CountFits'
  BY <1>3, <1>4, <1>5 DEF ProcessesInv, SpaceInv, CountFits, InHand
<1>9. PlacesFit'
  BY <1>2, <1>3, <1>4, <1>5, ProcessesAssumption
  DEF ProcessesInv, SpaceInv, PlacesFit, Creating, SameNew
<1>10. CpuFits'
  <2>1. CASE current' = current
    BY <1>1, <1>3, <1>4, <2>1 DEF Activate, ProcessesInv, SpaceInv, CpuFits, cpuVars
  <2>2. CASE current' # current
    <3>1. current \in Threads /\ current' \in Threads
      BY StepKeepsSync DEF ProcessesInv, Inv, TypeOK, SchedTypeOK, ProcessesNext
    <3>2. ProcessActivate(current')
      BY <1>1, <2>2 DEF Activate
    <3> DEFINE n == current'
    <3>3. n \in Threads /\ PageDirActivate(n) /\ (pgdir[n] # NULL => esp0' = n)
      BY <3>1, <3>2 DEF ProcessActivate, UpdateTssEsp
    <3>4. current' = n
      OBVIOUS
    <3> HIDE DEF n
    <3>5. CASE n \in Built
      <4>1. pgdir[n] \in KernelPages /\ pgdir[n] # NULL /\ home[n] = KernelFrame(pgdir[n])
        BY <3>5, NullAssumption
        DEF ProcessesInv, SpaceInv, HomesFit, Fixed, MapsFit, KernelMaps
      <4>2. V2P(cr3, pgdir[n]) = home[n]
        BY <3>1, <4>1, KernelV2P DEF ProcessesInv, SpaceInv, MapsFit, CpuFits
      <4> QED
        BY <1>3, <3>3, <3>4, <4>1, <4>2 DEF PageDirActivate, CpuFits
    <3>6. CASE n \notin Built
      <4>1. pgdir[n] = NULL /\ home[n] = BootDir
        BY <3>3, <3>6 DEF ProcessesInv, SpaceInv, HomesFit
      <4> QED
        BY <1>3, <1>4, <3>3, <3>4, <3>6, <4>1 DEF PageDirActivate, CpuFits
    <3> QED
      BY <3>5, <3>6
  <2> QED
    BY <2>1, <2>2
<1> QED
  BY <1>4, <1>6, <1>7, <1>8, <1>9, <1>10, <1>11 DEF SpaceInv

LEMMA StepKeepsSpace ==
    ASSUME ProcessesInv, [ProcessesNext]_allVars
    PROVE  SpaceInv'
<1>1. ASSUME NEW t \in Processes \cup {Main}, ThreadStep(t)
      PROVE  SpaceInv'
  BY <1>1, ThreadStepParts, AcquireSpace, ReleaseSpace, WorkSpace, PrintSpace
<1>2. CASE Boot \/ MainCalls \/ \E t \in Processes : Syscall(t) \/ Iret(t)
  BY <1>2, CallSpace
<1>3. CASE CreatePageDir \/ ListProcess \/ SystemStep
  BY <1>3, CreatePageDirSpace, ListProcessSpace, SystemSpace
<1>4. CASE UNCHANGED allVars
  BY <1>4, SpaceStutters
  DEF allVars, vars, schedVars, syncVars, processVars, spaceVars, ProcessesInv
<1> QED
  BY <1>1, <1>2, <1>3, <1>4 DEF ProcessesNext

-----------------------------------------------------------------------------
(* Types.                                                                  *)

\* Places and steps, which every action sets for one thread at most.
ControlTypes ==
    /\ at' \in [Threads -> MainPlaces \cup ProcessPlaces]
    /\ step' \in [Threads -> Steps]
    /\ left' \in [Threads -> [Kinds -> Nat]]

LEMMA StepTypes ==
    ASSUME ProcessesTypeOK, NEW t \in Threads, NEW s \in Steps, Step(t, s)
    PROVE  step' \in [Threads -> Steps]
  BY Zenon DEF ProcessesTypeOK, Step

LEMMA WorkSteps ==
    ASSUME ProcessesInv, NEW t \in Processes \cup {Main}, Work(t)
    PROVE  step' \in [Threads -> Steps]
<1>1. \E s \in Steps : Step(t, s)
  BY DEF Work, TakeAddress, ScanFrame, SetFrame, ScanTable, SetTable, AddTable, ClearTable,
         MapPage, ClearPage, Pfree, Unmap, Steps, Taking, Holding
<1> QED
  BY <1>1, WorkLeaves, StepTypes DEF ProcessesInv

LEMMA StepKeepsControl ==
    ASSUME ProcessesInv, [ProcessesNext]_allVars
    PROVE  ControlTypes
<1>0. /\ Processes \subseteq Threads /\ Main \in Threads
      /\ at \in [Threads -> MainPlaces \cup ProcessPlaces]
      /\ step \in [Threads -> Steps]
      /\ left \in [Threads -> [Kinds -> Nat]]
  BY ProcessesAssumption, ThreadsAssumption DEF ProcessesInv, ProcessesTypeOK
<1>1. ASSUME NEW t \in Processes \cup {Main}, ThreadStep(t)
      PROVE  ControlTypes
  <2>1. CASE Work(t)
    BY <1>0, <2>1, WorkLeaves, WorkSteps DEF ControlTypes
  <2>2. CASE Acquire(t) \/ Release(t) \/ ReadCursor(t) \/ WriteChar(t)
    <3>1. After(t) \in MainPlaces \cup ProcessPlaces
      BY DEF After, MainPlaces, ProcessPlaces
    <3>2. \E s \in Steps : Step(t, s)
      BY <2>2 DEF Acquire, Release, ReadCursor, WriteChar, Steps
    <3>3. step' \in [Threads -> Steps]
      BY <1>0, <3>2, StepTypes DEF ProcessesInv
    <3>4. left' = left /\ (at' = at \/ Go(t, After(t)))
      BY <2>2 DEF Acquire, Release, ReadCursor, WriteChar
    <3> QED
      BY <1>0, <3>1, <3>3, <3>4 DEF Go, ControlTypes
  <2> QED
    BY <1>1, <2>1, <2>2, ThreadStepParts
<1>2. ASSUME NEW t \in Threads, WorkCall(t)
      PROVE  /\ at' \in [Threads -> MainPlaces \cup ProcessPlaces]
             /\ left' \in [Threads -> [Kinds -> Nat]]
  <2>1. PICK kind \in Kinds : /\ left[t][kind] > 0
                              /\ left' = [left EXCEPT ![t][kind] = @ - 1]
                              /\ Go(t, kind)
    BY <1>2 DEF WorkCall
  <2>2. left[t][kind] - 1 \in Nat
    BY <1>0, <2>1
  <2>3. kind \in MainPlaces
    BY DEF Kinds, MainPlaces
  <2> QED
    BY <1>0, <2>1, <2>2, <2>3 DEF Go
<1> USE DEF ControlTypes
<1>3. CASE Boot \/ UNCHANGED allVars
  BY <1>0, <1>3 DEF Boot, allVars, processVars
<1>4. CASE MainCalls
  BY <1>0, <1>2, <1>4 DEF MainCalls, Go, MainPlaces
<1>5. CASE CreatePageDir \/ ListProcess
  BY <1>0, <1>5 DEF CreatePageDir, ListProcess, Go, MainPlaces
<1>6. CASE \E t \in Processes : Syscall(t) \/ Iret(t)
  BY <1>0, <1>2, <1>6 DEF Syscall, Iret, Go, ProcessPlaces
<1>7. CASE SystemStep
  BY <1>0, <1>7 DEF SystemStep
<1> QED
  BY <1>1, <1>3, <1>4, <1>5, <1>6, <1>7 DEF ProcessesNext

\* Pages, directories and frames.
SpaceTypes ==
    /\ heap' \in [Threads -> SUBSET (UserPages \cup KernelPages)]
    /\ pgdir' \in [Threads -> KernelPages \cup {NULL}]
    /\ home' \in [Threads -> PageFrames]
    /\ dir' \in [PageFrames -> [Entries -> PageFrames \cup {None}]]
    /\ table' \in [PageFrames -> [Slots -> PageFrames \cup {None}]]
    /\ taken' \subseteq KernelPool \cup UserPool
    /\ vbits' \in [Processes \cup {Main} -> SUBSET (UserPages \cup KernelPages)]
    /\ vaddr' \in [Threads -> UserPages \cup KernelPages \cup {NoPage}]
    /\ page_phyaddr' \in [Threads -> PageFrames \cup {None}]
    /\ pde_phyaddr' \in [Threads -> PageFrames \cup {None}]

\* The contents of the frames,
LEMMA WorkTables ==
    ASSUME ProcessesInv, NEW t \in Processes \cup {Main}, Work(t)
    PROVE  /\ dir' \in [PageFrames -> [Entries -> PageFrames \cup {None}]]
           /\ table' \in [PageFrames -> [Slots -> PageFrames \cup {None}]]
           /\ taken' \subseteq KernelPool \cup UserPool
<1>0. ProcessesTypeOK /\ None \in PageFrames \cup {None}
  BY DEF ProcessesInv
<1>1. CASE TakeAddress(t) \/ ScanFrame(t) \/ ScanTable(t)
  BY <1>0, <1>1 DEF TakeAddress, ScanFrame, ScanTable, ProcessesTypeOK
<1>2. CASE SetFrame(t)
  BY <1>0, <1>2, SetFrameMaps DEF SetFrame, ProcessesTypeOK
<1>3. CASE SetTable(t)
  BY <1>0, <1>3, SetTableMaps DEF SetTable, ProcessesTypeOK
<1>4. CASE AddTable(t)
  BY <1>0, <1>4, AddTableMaps DEF AddTable, ProcessesTypeOK
<1>5. CASE ClearTable(t)
  <2>1. Fill(Entry(t), None) /\ taken' = taken
    BY <1>5 DEF ClearTable
  <2> QED
    BY <1>0, <2>1, FillTypes DEF ProcessesTypeOK
<1>6. CASE MapPage(t)
  BY <1>0, <1>6, MapPageMaps DEF MapPage, ProcessesTypeOK
<1>7. CASE ClearPage(t)
  <2>1. Fill(V2P(cr3, vaddr[t]), None) /\ taken' = taken
    BY <1>7 DEF ClearPage
  <2> QED
    BY <1>0, <2>1, FillTypes DEF ProcessesTypeOK
<1>8. CASE Pfree(t)
  <2>1. Fill(V2P(cr3, vaddr'[t]), Dirt)
    BY <1>8, FreedPage
  <2> QED
    BY <1>0, <1>8, <2>1, FillTypes, PfreeMaps, DirtAssumption
<1>9. CASE Unmap(t)
  BY <1>0, <1>9, UnmapMaps DEF Unmap, ProcessesTypeOK
<1> QED
  BY <1>1, <1>2, <1>3, <1>4, <1>5, <1>6, <1>7, <1>8, <1>9 DEF Work

\* the pages,
LEMMA WorkPages ==
    ASSUME ProcessesInv, NEW t \in Processes \cup {Main}, Work(t)
    PROVE  /\ heap' \in [Threads -> SUBSET (UserPages \cup KernelPages)]
           /\ vbits' \in [Processes \cup {Main} -> SUBSET (UserPages \cup KernelPages)]
           /\ vaddr' \in [Threads -> UserPages \cup KernelPages \cup {NoPage}]
<1>0. /\ ProcessesTypeOK /\ t \in Threads /\ Calls(t)
      /\ heap \in [Threads -> SUBSET (UserPages \cup KernelPages)]
      /\ vbits \in [Processes \cup {Main} -> SUBSET (UserPages \cup KernelPages)]
      /\ vaddr \in [Threads -> UserPages \cup KernelPages \cup {NoPage}]
  BY WorkLeaves DEF ProcessesInv, ProcessesTypeOK
<1>1. CASE TakeAddress(t)
  <2>1. vaddr'[t] \in UserPages \cup KernelPages
    BY <1>1, TakenAddress
  <2>2. vbits' = [vbits EXCEPT ![t] = @ \cup {vaddr'[t]}] /\ heap' = heap
    BY <1>1 DEF TakeAddress
  <2>3. vaddr' = [vaddr EXCEPT ![t] = vaddr'[t]]
    BY <1>0, <1>1 DEF TakeAddress
  <2> QED
    BY <1>0, <2>1, <2>2, <2>3
<1>2. CASE ScanFrame(t) \/ SetFrame(t) \/ ScanTable(t) \/ SetTable(t) \/ AddTable(t) \/ ClearTable(t)
  BY <1>0, <1>2
  DEF ScanFrame, SetFrame, ScanTable, SetTable, AddTable, ClearTable, handVars
<1>3. CASE MapPage(t)
  BY <1>0, <1>3 DEF MapPage
<1>4. CASE ClearPage(t)
  <2>1. vaddr[t] \in UserPages \cup KernelPages
    <3>1. step[t] = "clear"
      BY <1>4 DEF ClearPage, Doing
    <3>2. vaddr[t] \in vbits[t]
      BY <1>0, <3>1, ClearedPage
    <3> QED
      BY <1>0, <3>2
  <2>2. /\ heap' = heap \/ heap' = [heap EXCEPT ![t] = @ \cup {vaddr[t]}]
        /\ vaddr' = [vaddr EXCEPT ![t] = NoPage] /\ vbits' = vbits
    BY <1>4 DEF ClearPage
  <2> QED
    BY <1>0, <2>1, <2>2
<1>5. CASE Pfree(t)
  <2>1. PICK p \in heap[t] : vaddr' = [vaddr EXCEPT ![t] = p]
    BY <1>5 DEF Pfree
  <2>2. UNCHANGED <<heap, vbits>>
    BY <1>5 DEF Pfree
  <2> QED
    BY <1>0, <2>1, <2>2
<1>6. CASE Unmap(t)
  BY <1>0, <1>6 DEF Unmap
<1> QED
  BY <1>1, <1>2, <1>3, <1>4, <1>5, <1>6 DEF Work

\* and the frames in hand.
LEMMA WorkFrames ==
    ASSUME ProcessesInv, NEW t \in Processes \cup {Main}, Work(t)
    PROVE  /\ page_phyaddr' \in [Threads -> PageFrames \cup {None}]
           /\ pde_phyaddr' \in [Threads -> PageFrames \cup {None}]
<1>0. /\ t \in Threads
      /\ page_phyaddr \in [Threads -> PageFrames \cup {None}]
      /\ pde_phyaddr \in [Threads -> PageFrames \cup {None}]
      /\ step \in [Threads -> Steps]
  BY WorkLeaves DEF ProcessesInv, ProcessesTypeOK
<1>1. CASE ScanFrame(t)
  <2>1. step'[t] = "set" /\ pde_phyaddr' = pde_phyaddr
    BY <1>0, <1>1 DEF ScanFrame, Step
  <2>2. page_phyaddr'[t] \in PoolOf(t)
    BY <2>1, WorkHand DEF HandFits
  <2>3. page_phyaddr'[t] \in PageFrames
    BY <2>2, PoolFacts DEF PoolOf
  <2> QED
    BY <1>0, <1>1, <2>1, <2>3 DEF ScanFrame
<1>2. CASE ScanTable(t)
  <2>1. step'[t] = "tset" /\ page_phyaddr' = page_phyaddr
    BY <1>0, <1>2 DEF ScanTable, Step
  <2>2. pde_phyaddr'[t] \in KernelPool
    BY <2>1, WorkHand DEF HandFits
  <2>3. pde_phyaddr'[t] \in PageFrames
    BY <2>2, PoolFacts
  <2> QED
    BY <1>0, <1>2, <2>1, <2>3 DEF ScanTable
<1>3. CASE MapPage(t) \/ AddTable(t)
  BY <1>0, <1>3 DEF MapPage, AddTable
<1>4. CASE TakeAddress(t) \/ SetFrame(t) \/ SetTable(t) \/ ClearTable(t)
           \/ ClearPage(t) \/ Pfree(t) \/ Unmap(t)
  BY <1>0, <1>4 DEF TakeAddress, SetFrame, SetTable, ClearTable, ClearPage, Pfree, Unmap, handVars
<1> QED
  BY <1>1, <1>2, <1>3, <1>4 DEF Work

LEMMA StepKeepsPages ==
    ASSUME ProcessesInv, [ProcessesNext]_allVars
    PROVE  SpaceTypes
<1>1. ASSUME NEW t \in Processes \cup {Main}, Work(t)
      PROVE  SpaceTypes
  BY <1>1, WorkLeaves, WorkTables, WorkPages, WorkFrames
  DEF SpaceTypes, ProcessesInv, ProcessesTypeOK
<1>2. CASE CreatePageDir
  <2>1. UNCHANGED <<heap, table, taken, vbits, vaddr, page_phyaddr, pde_phyaddr>>
    BY <1>2 DEF CreatePageDir, handVars
  <2> QED
    BY <1>2, <2>1, NewDirectory DEF SpaceTypes, ProcessesInv, ProcessesTypeOK
<1>3. CASE UNCHANGED <<heap, pgdir, home, dir, table, taken, vbits, handVars>>
  BY <1>3 DEF SpaceTypes, ProcessesInv, ProcessesTypeOK, handVars
<1>4. ASSUME NEW t \in Processes \cup {Main},
             Acquire(t) \/ Release(t) \/ ReadCursor(t) \/ WriteChar(t)
      PROVE  SpaceTypes
  BY <1>3, <1>4 DEF Acquire, Release, ReadCursor, WriteChar, spaceVars
<1>5. CASE \/ Boot \/ MainCalls \/ ListProcess \/ SystemStep \/ UNCHANGED allVars
           \/ \E t \in Processes : Syscall(t) \/ Iret(t)
  BY <1>3, <1>5
  DEF Boot, MainCalls, ListProcess, SystemStep, Syscall, Iret, spaceVars, allVars, processVars
<1> QED
  BY <1>1, <1>2, <1>4, <1>5, ThreadStepParts DEF ProcessesNext

-----------------------------------------------------------------------------
(* The locks of the calls.                                                 *)

\* Whoever works under a lock holds it.
LEMMA HoldsLock ==
    ASSUME ProcessesInv, NEW t \in Processes \cup {Main}, Calls(t), step[t] # "out"
    PROVE  at[t] \in Locked /\ LockOf(t) \in Locks /\ depth[t][LockOf(t)] > 0
<1>1. t \in Threads /\ pc[t] = "body"
  BY RunnerFacts
<1>2. at[t] \in Locked /\ depth[t][LockOf(t)] > 0
  BY <1>1 DEF ProcessesInv, LocksFit
<1> QED
  BY <1>2, LockOfIsLock

\* A step after which every thread under a lock is as near to it as before.
LEMMA LocksKept ==
    ASSUME ProcessesInv,
           \A u \in Threads : step'[u] # "out" =>
               /\ step[u] # "out" /\ at'[u] = at[u] /\ pgdir'[u] = pgdir[u]
               /\ \A l \in Locks : depth[u][l] > 0 => depth'[u][l] > 0
               /\ pc[u] \in {"down", "wait", "own"} /\ target[u] = LockOf(u) =>
                     \/ depth'[u][LockOf(u)] > 0
                     \/ pc'[u] \in {"down", "wait", "own"} /\ target'[u] = target[u],
           \A u \in Threads : step'[u] = "read" =>
               step[u] = "read" /\ bx'[u] = bx[u] /\ cursor' = cursor
    PROVE  LocksFit'
<1>1. ASSUME NEW u \in Threads, step'[u] # "out"
      PROVE  /\ at'[u] \in Locked
             /\ \/ depth'[u][LockOf(u)'] > 0
                \/ pc'[u] \in {"down", "wait", "own"} /\ target'[u] = LockOf(u)'
  <2>1. /\ step[u] # "out" /\ at'[u] = at[u] /\ LockOf(u)' = LockOf(u)
        /\ at[u] \in Locked /\ LockOf(u) \in Locks
    <3>1. step[u] # "out" /\ at'[u] = at[u] /\ pgdir'[u] = pgdir[u]
      BY <1>1
    <3>2. at[u] \in Locked
      BY <3>1 DEF ProcessesInv, LocksFit
    <3> QED
      BY <3>1, <3>2, LockOfIsLock DEF LockOf
  <2>2. CASE depth[u][LockOf(u)] > 0
    BY <1>1, <2>1, <2>2
  <2>3. CASE pc[u] \in {"down", "wait", "own"} /\ target[u] = LockOf(u)
    BY <1>1, <2>1, <2>3
  <2> QED
    BY <2>1, <2>2, <2>3 DEF ProcessesInv, LocksFit
<1>2. ASSUME NEW u \in Threads, step'[u] = "read"
      PROVE  at'[u] = "print" /\ depth'[u][Console] > 0 /\ bx'[u] = cursor'
  <2>1. step[u] = "read" /\ bx'[u] = bx[u] /\ cursor' = cursor /\ at'[u] = at[u]
    BY <1>2
  <2>2. at[u] = "print" /\ depth[u][Console] > 0 /\ bx[u] = cursor
    BY <2>1 DEF ProcessesInv, LocksFit
  <2> QED
    BY <1>2, <2>1, <2>2, ProcessesAssumption
<1> QED
  BY <1>1, <1>2 DEF LocksFit

\* malloc_page and mfree_page leave the screen alone.
LEMMA WorkMoves ==
    ASSUME ProcessesInv, NEW t \in Processes \cup {Main}, Work(t)
    PROVE  step[t] # "out" /\ step'[t] # "read" /\ UNCHANGED screenVars /\ UNCHANGED <<bx, cursor>>
<1>1. t \in Threads /\ step \in [Threads -> Steps]
  BY WorkLeaves DEF ProcessesInv, ProcessesTypeOK
<1>2. step[t] # "out" /\ \E s \in Steps \ {"read"} : Step(t, s)
  BY DEF Work, TakeAddress, ScanFrame, SetFrame, ScanTable, SetTable, AddTable, ClearTable,
         MapPage, ClearPage, Pfree, Unmap, Within, Doing, Steps, Taking, Holding
<1>3. UNCHANGED screenVars
  BY DEF Work, TakeAddress, ScanFrame, SetFrame, ScanTable, SetTable, AddTable, ClearTable,
         MapPage, ClearPage, Pfree, Unmap
<1> QED
  BY <1>1, <1>2, <1>3 DEF Step, screenVars

LEMMA ThreadStepLocks ==
    ASSUME ProcessesInv, NEW t \in Processes \cup {Main}, ThreadStep(t)
    PROVE  LocksFit'
<1>0. /\ ProcessesTypeOK /\ Inv /\ t \in Threads
      /\ pc \in [Threads -> PC] /\ target \in [Threads -> Sems \cup {NULL}]
      /\ depth \in [Threads -> [Locks -> Nat]]
  BY ProcessesAssumption, ThreadsAssumption DEF ProcessesInv, Inv, TypeOK, SyncTypeOK
<1>1. CASE Acquire(t)
  <2> DEFINE l == LockOf(t)
  <2>1. /\ Calls(t) /\ at[t] \in Locked /\ step[t] = "out" /\ l \in Locks
        /\ step' = [step EXCEPT ![t] = "in"]
        /\ UNCHANGED <<at, pgdir, bx, cursor>>
    BY <1>1, LockOfIsLock DEF Acquire, LockAcquire, Step, spaceVars, screenVars
  <2>2. l' = l
    BY <2>1 DEF LockOf
  <2>3. /\ \A u \in Threads \ {t} :
              pc'[u] = pc[u] /\ target'[u] = target[u] /\ depth'[u] = depth[u]
        /\ \/ pc'[t] = "down" /\ target'[t] = l
           \/ depth'[t][l] > 0
    <3>1. LockAcquire(t, l)
      BY <1>1 DEF Acquire
    <3> HIDE DEF l
    <3> QED
      BY <1>0, <2>1, <3>1 DEF LockAcquire
  <2> HIDE DEF l
  <2>4. \A u \in Threads \ {t} : step'[u] = step[u] /\ LockOf(u)' = LockOf(u)
    BY <1>0, <2>1 DEF ProcessesTypeOK, LockOf
  <2>5. step'[t] = "in"
    BY <1>0, <2>1 DEF ProcessesTypeOK
  <2>6. ASSUME NEW u \in Threads, step'[u] # "out"
        PROVE  /\ at'[u] \in Locked
               /\ \/ depth'[u][LockOf(u)'] > 0
                  \/ pc'[u] \in {"down", "wait", "own"} /\ target'[u] = LockOf(u)'
    BY <2>1, <2>2, <2>3, <2>4, <2>6 DEF ProcessesInv, LocksFit, l
  <2>7. ASSUME NEW u \in Threads, step'[u] = "read"
        PROVE  at'[u] = "print" /\ depth'[u][Console] > 0 /\ bx'[u] = cursor'
    BY <2>1, <2>3, <2>4, <2>5, <2>7 DEF ProcessesInv, LocksFit
  <2> QED
    BY <2>6, <2>7 DEF LocksFit
<1>2. CASE Release(t)
  <2>1. /\ Calls(t) /\ LockRelease(t, LockOf(t)) /\ LockOf(t) \in Locks
        /\ Go(t, After(t)) /\ Step(t, "out") /\ UNCHANGED <<pgdir, bx, cursor>>
    BY <1>2, LockOfIsLock DEF Release, LockRelease, spaceVars, screenVars
  <2>2. /\ step'[t] = "out"
        /\ \A u \in Threads \ {t} : step'[u] = step[u] /\ at'[u] = at[u]
    BY <1>0, <2>1, GoFacts
  <2>3. \A u \in Threads \ {t} :
            pc'[u] = pc[u] /\ target'[u] = target[u] /\ depth'[u] = depth[u]
    BY <1>0, <2>1 DEF LockRelease
  <2> QED
    BY <2>1, <2>2, <2>3, LocksKept
<1>3. CASE Work(t)
  <2>1. /\ step[t] # "out" /\ step'[t] # "read"
        /\ UNCHANGED <<at, pgdir, bx, cursor>>
        /\ \A u \in Threads \ {t} : step'[u] = step[u]
    BY <1>0, <1>3, WorkMoves, WorkLeaves
  <2>2. UNCHANGED <<pc, target, depth>>
    BY <1>3, WorkMapsFit DEF vars, syncVars
  <2> QED
    BY <2>1, <2>2, LocksKept
<1>4. CASE ReadCursor(t)
  <2>1. /\ Calls(t) /\ at[t] = "print" /\ step[t] = "in" /\ Step(t, "read")
        /\ bx' = [bx EXCEPT ![t] = cursor]
        /\ UNCHANGED <<vars, at, pgdir, cursor>>
    BY <1>4 DEF ReadCursor, Within, spaceVars
  <2>2. /\ step'[t] = "read"
        /\ \A u \in Threads \ {t} : step'[u] = step[u]
    BY <1>0, <2>1, GoFacts
  <2>3. depth[t][Console] > 0 /\ LockOf(t) = Console
    BY <2>1, HoldsLock DEF LockOf
  <2>4. \A u \in Threads : LockOf(u)' = LockOf(u)
    BY <2>1 DEF LockOf
  <2>5. depth' = depth /\ pc' = pc /\ target' = target
    BY <2>1 DEF vars, syncVars
  <2>6. ASSUME NEW u \in Threads, step'[u] # "out"
        PROVE  /\ at'[u] \in Locked
               /\ \/ depth'[u][LockOf(u)'] > 0
                  \/ pc'[u] \in {"down", "wait", "own"} /\ target'[u] = LockOf(u)'
    <3>1. step[u] # "out"
      BY <2>1, <2>2, <2>6
    <3> QED
      BY <2>1, <2>4, <2>5, <3>1 DEF ProcessesInv, LocksFit
  <2>7. ASSUME NEW u \in Threads, step'[u] = "read"
        PROVE  at'[u] = "print" /\ depth'[u][Console] > 0 /\ bx'[u] = cursor'
    <3>1. CASE u = t
      <4>1. bx'[t] = cursor
        BY <1>0, <2>1 DEF ProcessesTypeOK
      <4> QED
        BY <2>1, <2>3, <2>5, <3>1, <4>1
    <3>2. CASE u # t
      <4>1. bx'[u] = bx[u] /\ step[u] = "read"
        BY <1>0, <2>1, <2>2, <2>7, <3>2 DEF ProcessesTypeOK
      <4> QED
        BY <2>1, <2>5, <4>1 DEF ProcessesInv, LocksFit
    <3> QED
      BY <3>1, <3>2
  <2> QED
    BY <2>6, <2>7 DEF LocksFit
<1>5. CASE WriteChar(t)
  <2>1. /\ at[t] = "print" /\ step[t] = "read" /\ Step(t, "done")
        /\ UNCHANGED <<vars, at, pgdir>>
    BY <1>5 DEF WriteChar, spaceVars
  <2>2. /\ step'[t] = "done"
        /\ \A u \in Threads \ {t} : step'[u] = step[u]
    BY <1>0, <2>1, GoFacts
  <2>3. \A u \in Threads \ {t} : step[u] # "read"
    <3>1. \A u \in Threads : step[u] = "read" => depth[u][Console] > 0
      BY DEF ProcessesInv, LocksFit
    <3>2. \A u, v \in Threads : depth[u][Console] > 0 /\ depth[v][Console] > 0 => u = v
      <4>1. Console \in Locks
        BY ProcessesAssumption
      <4> QED
        BY <1>0, <4>1 DEF Inv, HolderAgrees
    <3> QED
      BY <1>0, <2>1, <3>1, <3>2
  <2> QED
    BY <2>1, <2>2, <2>3, LocksKept DEF vars, syncVars
<1> QED
  BY <1>1, <1>2, <1>3, <1>4, <1>5, ThreadStepParts

\* Inside the library a thread goes on towards the lock it has asked for.
LEMMA LibraryLocks ==
    ASSUME Inv, NEW u \in Threads,
           (\E t \in Threads : Library(t) \/ Park(t)) \/ Halt \/ Tick
    PROVE  /\ \A l \in Locks : depth[u][l] > 0 => depth'[u][l] > 0
           /\ pc[u] \in {"down", "wait", "own"} /\ target[u] \in Locks =>
                 \/ depth'[u][target[u]] > 0
                 \/ pc'[u] \in {"down", "wait", "own"} /\ target'[u] = target[u]
<1>0. /\ pc \in [Threads -> PC] /\ target \in [Threads -> Sems \cup {NULL}]
      /\ depth \in [Threads -> [Locks -> Nat]]
  BY DEF Inv, TypeOK, SyncTypeOK
<1>1. ASSUME NEW t \in Threads, SemaDown(t)
      PROVE  /\ depth' = depth /\ target' = target
             /\ pc[u] \in {"down", "wait", "own"} /\ target[u] \in Locks =>
                    pc'[u] \in {"down", "wait", "own"}
  BY <1>0, <1>1 DEF SemaDown, Wait, TakeUnit, At
<1>2. ASSUME NEW t \in Threads, Own(t)
      PROVE  /\ \A l \in Locks : depth[u][l] > 0 => depth'[u][l] > 0
             /\ pc[u] \in {"down", "wait", "own"} /\ target[u] \in Locks =>
                 \/ depth'[u][target[u]] > 0
                 \/ pc'[u] \in {"down", "wait", "own"} /\ target'[u] = target[u]
  <2>1. /\ pc' = [pc EXCEPT ![t] = "body"] /\ target' = target
        /\ depth' = [depth EXCEPT ![t][target[t]] = 1]
    BY <1>2 DEF Own
  <2> QED
    BY <1>0, <2>1
<1>3. ASSUME NEW t \in Threads, Up(t) \/ Resume(t) \/ Park(t)
      PROVE  /\ depth' = depth /\ target' = target
             /\ pc[u] \in {"down", "wait", "own"} => pc'[u] = pc[u]
  BY <1>0, <1>3 DEF Up, Resume, Park, At, Calls
<1>4. CASE Halt \/ Tick
  BY <1>0, <1>4 DEF Halt, Tick, Interrupt, At
<1> QED
  BY <1>0, <1>1, <1>2, <1>3, <1>4 DEF Library

LEMMA StepKeepsLocks ==
    ASSUME ProcessesInv, [ProcessesNext]_allVars
    PROVE  LocksFit'
<1>0. /\ ProcessesTypeOK /\ Inv /\ Processes \subseteq Threads
      /\ Main \in Threads /\ Main \notin Processes
      /\ pc \in [Threads -> PC]
      /\ \A u \in Threads : step[u] # "out" => at[u] \in Locked
  BY ProcessesAssumption, ThreadsAssumption
  DEF ProcessesInv, Inv, TypeOK, SyncTypeOK, LocksFit
<1>1. CASE \E t \in Processes \cup {Main} : ThreadStep(t)
  BY <1>1, ThreadStepLocks
<1>2. CASE Boot
  <2>1. UNCHANGED <<pc, target, depth, at, step, pgdir, bx, cursor>>
    BY <1>2 DEF Boot, Sti, processVars, spaceVars, screenVars
  <2> QED
    BY <2>1, LocksKept
<1>3. CASE MainCalls
  <2>1. /\ at[Main] = "idle" /\ UNCHANGED <<vars, step, pgdir, bx, cursor>>
        /\ \E a : Go(Main, a)
    BY <1>3 DEF MainCalls, WorkCall, screenVars
  <2>2. step[Main] = "out" /\ \A u \in Threads \ {Main} : at'[u] = at[u]
    BY <1>0, <2>1, GoFacts DEF Locked
  <2> QED
    BY <2>1, <2>2, LocksKept DEF vars, syncVars
<1>4. CASE CreatePageDir
  <2>1. /\ at[Main] = "copy" /\ Go(Main, "list")
        /\ \E q : pgdir' = [pgdir EXCEPT ![making] = q]
        /\ UNCHANGED <<vars, step, bx, cursor>>
    BY <1>4 DEF CreatePageDir, screenVars
  <2>2. step[Main] = "out" /\ \A u \in Threads \ {Main} : at'[u] = at[u]
    BY <1>0, <2>1, GoFacts DEF Locked
  <2>3. step[making] = "out"
    BY <2>1 DEF ProcessesInv, SpaceInv, PlacesFit, Creating
  <2>4. \A u \in Threads \ {making} : pgdir'[u] = pgdir[u]
    BY <1>0, <2>1 DEF ProcessesTypeOK
  <2> QED
    BY <2>1, <2>2, <2>3, <2>4, LocksKept DEF vars, syncVars
<1>5. CASE ListProcess
  <2>1. /\ at[Main] = "list" /\ Go(Main, "idle")
        /\ pc' = [pc EXCEPT ![making] = "body"]
        /\ UNCHANGED <<target, depth, step, pgdir, bx, cursor>>
    BY <1>5 DEF ListProcess, Start, screenVars
  <2>2. step[Main] = "out" /\ \A u \in Threads \ {Main} : at'[u] = at[u]
    BY <1>0, <2>1, GoFacts DEF Locked
  <2>3. step[making] = "out" /\ \A u \in Threads \ {making} : pc'[u] = pc[u]
    BY <1>0, <2>1 DEF ProcessesInv, SpaceInv, PlacesFit, Creating
  <2> QED
    BY <2>1, <2>2, <2>3, LocksKept
<1>6. ASSUME NEW t \in Processes, Syscall(t) \/ Iret(t)
      PROVE  LocksFit'
  <2>1. /\ at[t] \in {"user", "iret"} /\ \E a : Go(t, a)
        /\ UNCHANGED <<pc, target, depth, step, pgdir, bx, cursor>>
    BY <1>6 DEF Syscall, Iret, WorkCall, Cli, Sti, spaceVars, screenVars
  <2>2. step[t] = "out" /\ \A u \in Threads \ {t} : at'[u] = at[u]
    BY <1>0, <2>1, GoFacts DEF Locked
  <2> QED
    BY <2>1, <2>2, LocksKept
<1>7. CASE SystemStep
  <2>1. /\ (\E t \in Threads : Library(t) \/ Park(t)) \/ Halt \/ Tick
        /\ UNCHANGED <<at, step, pgdir, bx, cursor>>
    BY <1>7, ThreadsAssumption DEF SystemStep, spaceVars, screenVars
  <2>2. \A u \in Threads : step[u] # "out" => LockOf(u) \in Locks
    BY <1>0, LockOfIsLock
  <2>3. ASSUME NEW u \in Threads, step[u] # "out"
        PROVE  /\ \A l \in Locks : depth[u][l] > 0 => depth'[u][l] > 0
               /\ pc[u] \in {"down", "wait", "own"} /\ target[u] = LockOf(u) =>
                     \/ depth'[u][LockOf(u)] > 0
                     \/ pc'[u] \in {"down", "wait", "own"} /\ target'[u] = target[u]
    BY <1>0, <2>1, <2>2, <2>3, LibraryLocks
  <2> QED
    BY <2>1, <2>3, LocksKept
<1>8. CASE UNCHANGED allVars
  <2>1. UNCHANGED <<pc, target, depth, at, step, pgdir, bx, cursor>>
    BY <1>8 DEF allVars, vars, syncVars, processVars, spaceVars, screenVars
  <2> QED
    BY <2>1, LocksKept
<1> QED
  BY <1>1, <1>2, <1>3, <1>4, <1>5, <1>6, <1>7, <1>8 DEF ProcessesNext

-----------------------------------------------------------------------------
(* The screen: what put_char writes into the video memory is what a reader  *)
(* of the text expects to see, through line feeds and scrolling.            *)

\* Lines of characters that fit the screen.
TextOn(s, C) ==
    /\ s \in Seq(Seq(C))
    /\ Len(s) \in 1..Rows
    /\ \A n \in 1..Len(s) : Len(s[n]) <= Columns

LEMMA ScreenSizes ==
    /\ Columns \in Nat /\ Columns > 0 /\ Rows \in Nat /\ Rows > 0
    /\ Size \in Nat /\ Size = Rows * Columns
    /\ (Rows - 1) * Columns = Size - Columns /\ Size - Columns \in Nat
<1>1. Columns \in Nat /\ Columns > 0 /\ Rows \in Nat /\ Rows > 0
  BY ScreenAssumption
<1>2. Size \in Nat /\ Size = Rows * Columns
  BY <1>1 DEF Size
<1>3. (Rows - 1) * Columns = Rows * Columns - Columns
  BY <1>1
<1>4. (Rows - 1) * Columns \in Nat
  BY <1>1
<1> QED
  BY <1>1, <1>2, <1>3, <1>4

\* A cell is a row and a column, and a row and a column are a cell.
LEMMA CellParts ==
    ASSUME NEW i \in Cells
    PROVE  /\ i \div Columns \in 0..Rows - 1
           /\ i % Columns \in 0..Columns - 1
           /\ i = (i \div Columns) * Columns + (i % Columns)
<1>1. i \in Nat /\ i < Rows * Columns
  BY ScreenSizes DEF Cells
<1>2. i \div Columns \in Nat /\ i % Columns \in 0..Columns - 1
      /\ i = Columns * (i \div Columns) + (i % Columns)
  BY <1>1, ScreenSizes, DivMod
<1>3. i \div Columns < Rows
  BY <1>1, ScreenSizes, DivBounds
<1> QED
  BY <1>2, <1>3, ScreenSizes

LEMMA CellAt ==
    ASSUME NEW r \in 0..Rows - 1, NEW c \in 0..Columns - 1
    PROVE  /\ r * Columns + c \in Cells
           /\ (r * Columns + c) \div Columns = r
           /\ (r * Columns + c) % Columns = c
<1>1. r \in Nat /\ c \in 0..Columns - 1 /\ r * Columns \in Nat
  BY ScreenSizes
<1>2. r * Columns <= (Rows - 1) * Columns
  BY ScreenSizes
<1>3. r * Columns + c <= Size - 1
  BY <1>1, <1>2, ScreenSizes
<1> QED
  BY <1>1, <1>3, ScreenSizes, DivUnique DEF Cells

\* What a cell shows.
Shows(s, i) ==
    LET row == i \div Columns + 1
        col == (i % Columns) + 1
    IN  IF row <= Len(s) /\ col <= Len(s[row]) THEN s[row][col] ELSE Blank

LEMMA ShownAt ==
    ASSUME NEW s
    PROVE  /\ ShownCells(s) = [i \in Cells |-> Shows(s, i)]
           /\ \A i \in Cells : ShownCells(s)[i] = Shows(s, i)
  BY DEF ShownCells, Shows

\* A new line at the end: below the text, or after scrolling.
LEMMA NewLine ==
    ASSUME NEW C, NEW s, TextOn(s, C)
    PROVE  LET t == LastLines(Append(s, <<>>)) IN
           /\ TextOn(t, C) /\ Len(t[Len(t)]) = 0
           /\ Len(s) < Rows => ShownCells(t) = ShownCells(s) /\ ShownCursor(t) = Len(s) * Columns
           /\ Len(s) = Rows => /\ ShownCells(t) = Rolled(ShownCells(s))
                               /\ ShownCursor(t) = Size - Columns
<1> DEFINE g == Append(s, <<>>)
           t == LastLines(g)
<1>1. /\ s \in Seq(Seq(C)) /\ Len(s) \in Nat /\ Len(s) >= 1 /\ Len(s) <= Rows
      /\ \A n \in 1..Len(s) : Len(s[n]) <= Columns
  BY ScreenSizes DEF TextOn
<1>2. /\ g \in Seq(Seq(C)) /\ Len(g) = Len(s) + 1 /\ g[Len(s) + 1] = <<>>
      /\ \A n \in 1..Len(s) : g[n] = s[n]
  <2>1. <<>> \in Seq(C)
    OBVIOUS
  <2> QED
    BY <1>1, <2>1
<1> HIDE DEF g, t
<1> DEFINE Goal == /\ TextOn(t, C) /\ Len(t[Len(t)]) = 0
                   /\ Len(s) < Rows => /\ ShownCells(t) = ShownCells(s)
                                       /\ ShownCursor(t) = Len(s) * Columns
                   /\ Len(s) = Rows => /\ ShownCells(t) = Rolled(ShownCells(s))
                                       /\ ShownCursor(t) = Size - Columns
<1>3. ASSUME Len(s) < Rows PROVE Goal
  <2>1. t = g
    BY <1>1, <1>2, <1>3, ScreenSizes DEF LastLines, t
  <2>2. TextOn(g, C) /\ Len(g[Len(g)]) = 0
    <3>1. Len(g) \in 1..Rows /\ g[Len(g)] = <<>>
      BY <1>1, <1>2, <1>3, ScreenSizes
    <3>2. ASSUME NEW n \in 1..Len(g) PROVE Len(g[n]) <= Columns
      <4>1. CASE n = Len(s) + 1
        BY <1>2, <4>1, ScreenSizes
      <4>2. CASE n # Len(s) + 1
        <5>1. n \in 1..Len(s)
          BY <1>1, <1>2, <4>2
        <5> QED
          BY <1>1, <1>2, <5>1
      <4> QED
        BY <4>1, <4>2
    <3> QED
      BY <1>2, <3>1, <3>2 DEF TextOn
  <2>3. ShownCursor(g) = Len(s) * Columns
    BY <1>1, <1>2, ScreenSizes DEF ShownCursor
  <2>4. ASSUME NEW i \in Cells PROVE Shows(g, i) = Shows(s, i)
    <3> DEFINE r == i \div Columns
               c == i % Columns
    <3>1. r \in Nat /\ c \in Nat
      BY CellParts, ScreenSizes
    <3> HIDE DEF r, c
    <3>2. /\ Shows(g, i) = IF r + 1 <= Len(g) /\ c + 1 <= Len(g[r + 1])
                           THEN g[r + 1][c + 1] ELSE Blank
          /\ Shows(s, i) = IF r + 1 <= Len(s) /\ c + 1 <= Len(s[r + 1])
                           THEN s[r + 1][c + 1] ELSE Blank
      BY DEF Shows, r, c
    <3>3. CASE r + 1 <= Len(s)
      <4>1. g[r + 1] = s[r + 1] /\ r + 1 <= Len(g)
        <5>1. r + 1 \in 1..Len(s)
          BY <1>1, <3>1, <3>3
        <5> QED
          BY <1>1, <1>2, <3>3, <5>1
      <4> QED
        BY <3>2, <3>3, <4>1
    <3>4. CASE r + 1 = Len(s) + 1
      BY <1>1, <1>2, <3>1, <3>2, <3>4
    <3>5. CASE r + 1 > Len(s) + 1
      BY <1>1, <1>2, <3>1, <3>2, <3>5
    <3> QED
      BY <1>1, <3>1, <3>3, <3>4, <3>5
  <2>5. ShownCells(g) = ShownCells(s)
    BY <2>4, ShownAt
  <2> QED
    BY <1>1, <1>3, <2>1, <2>2, <2>3, <2>5, ScreenSizes
<1>4. ASSUME Len(s) = Rows PROVE Goal
  <2>1. t = Tail(g) /\ Len(t) = Rows /\ t \in Seq(Seq(C))
    BY <1>1, <1>2, <1>4, ScreenSizes DEF LastLines, t
  <2>2. \A n \in 1..Rows : t[n] = g[n + 1]
    BY <1>1, <1>2, <1>4, <2>1
  <2>3. t[Rows] = <<>> /\ \A n \in 1..Rows - 1 : t[n] = s[n + 1]
    BY <1>2, <1>4, <2>2, ScreenSizes
  <2>4. TextOn(t, C) /\ Len(t[Len(t)]) = 0
    <3>1. Len(t) \in 1..Rows /\ t[Len(t)] = <<>>
      BY <2>1, <2>3, ScreenSizes
    <3>2. ASSUME NEW n \in 1..Rows PROVE Len(t[n]) <= Columns
      <4>1. CASE n = Rows
        BY <2>3, <4>1, ScreenSizes
      <4>2. CASE n # Rows
        <5>1. n \in 1..Rows - 1 /\ n + 1 \in 1..Len(s)
          BY <1>4, <4>2, ScreenSizes
        <5> QED
          BY <1>1, <2>3, <5>1
      <4> QED
        BY <4>1, <4>2
    <3> QED
      BY <2>1, <3>1, <3>2 DEF TextOn
  <2>5. ShownCursor(t) = Size - Columns
    <3>1. Len(t[Len(t)]) = 0
      BY <2>4
    <3>2. ShownCursor(t) = (Rows - 1) * Columns + 0
      BY <2>1, <3>1 DEF ShownCursor
    <3> QED
      BY <3>2, ScreenSizes
  <2>6. ASSUME NEW i \in Cells
        PROVE  Shows(t, i) = IF i < Size - Columns THEN ShownCells(s)[i + Columns] ELSE Blank
    <3> DEFINE r == i \div Columns
               c == i % Columns
    <3>1. r \in 0..Rows - 1 /\ c \in 0..Columns - 1 /\ i = r * Columns + c
      BY CellParts
    <3>2. Shows(t, i) = IF r + 1 <= Len(t) /\ c + 1 <= Len(t[r + 1])
                        THEN t[r + 1][c + 1] ELSE Blank
      BY DEF Shows
    <3> HIDE DEF r, c
    <3>3. CASE r < Rows - 1
      <4>1. /\ r + 1 \in 0..Rows - 1
            /\ (r + 1) * Columns + c \in Cells
            /\ ((r + 1) * Columns + c) \div Columns = r + 1
            /\ ((r + 1) * Columns + c) % Columns = c
        <5>1. r + 1 \in 0..Rows - 1 /\ c \in 0..Columns - 1
          BY <3>1, <3>3, ScreenSizes
        <5> QED
          BY <5>1, CellAt
      <4>2. (r + 1) * Columns + c = i + Columns
        BY <3>1, ScreenSizes
      <4>3. i < Size - Columns
        BY <3>1, <4>1, <4>2, ScreenSizes DEF Cells
      <4>4. ShownCells(s)[i + Columns]
              = IF r + 2 <= Len(s) /\ c + 1 <= Len(s[r + 2]) THEN s[r + 2][c + 1] ELSE Blank
        <5>1. i + Columns \in Cells /\ (i + Columns) \div Columns = r + 1 /\ (i + Columns) % Columns = c
          BY <4>1, <4>2
        <5>2. r + 1 + 1 = r + 2
          BY <3>1
        <5> QED
          BY <5>1, <5>2, ShownAt DEF Shows
      <4>5. t[r + 1] = s[r + 2]
        <5>1. r + 1 \in 1..Rows - 1 /\ r + 1 + 1 = r + 2
          BY <3>1, <3>3, ScreenSizes
        <5> QED
          BY <2>3, <5>1
      <4>6. r + 1 <= Len(t) /\ r + 2 <= Len(s)
        BY <1>4, <2>1, <3>1, <3>3, ScreenSizes
      <4> QED
        BY <3>2, <4>3, <4>4, <4>5, <4>6
    <3>4. CASE r = Rows - 1
      <4>1. ~(i < Size - Columns)
        BY <3>1, <3>4, ScreenSizes
      <4>2. t[r + 1] = <<>>
        BY <2>3, <3>4, ScreenSizes
      <4> QED
        BY <3>1, <3>2, <4>1, <4>2, ScreenSizes
    <3> QED
      BY <3>1, <3>3, <3>4, ScreenSizes
  <2>7. ShownCells(t) = Rolled(ShownCells(s))
    BY <2>6, ShownAt DEF Rolled
  <2> QED
    BY <1>4, <2>4, <2>5, <2>7, ScreenSizes
<1>5. Goal
  BY <1>1, <1>3, <1>4, ScreenSizes
<1> QED
  BY <1>5 DEF g, t

\* What put_char writes is what a reader expects to see next.
LEMMA PutCharShows ==
    ASSUME NEW C, NEW s, TextOn(s, C), Len(s[Len(s)]) < Columns, NEW c \in C
    PROVE  LET shown == PutChar(ShownCells(s), ShownCursor(s), c)
               next  == TextPut(s, c)
           IN  /\ TextOn(next, C) /\ Len(next[Len(next)]) < Columns
               /\ shown.cells = ShownCells(next)
               /\ shown.cursor = ShownCursor(next)
<1> DEFINE n == Len(s)
           b == Len(s[n])
           k == (n - 1) * Columns + b
           next == TextPut(s, c)
           shown == PutChar(ShownCells(s), k, c)
<1>1. /\ s \in Seq(Seq(C)) /\ n \in Nat /\ n >= 1 /\ n <= Rows
      /\ s[n] \in Seq(C) /\ b \in Nat /\ b < Columns
      /\ \A m \in 1..n : Len(s[m]) <= Columns
  BY ScreenSizes DEF TextOn
<1>2. k = ShownCursor(s)
  BY DEF ShownCursor
<1>3. k \in Cells /\ k \div Columns = n - 1 /\ k % Columns = b
  <2>1. n - 1 \in 0..Rows - 1 /\ b \in 0..Columns - 1
    BY <1>1, ScreenSizes
  <2> QED
    BY <2>1, CellAt
<1> DEFINE e == n * Columns
<1>4. /\ (n - 1) * Columns = e - Columns
      /\ e \in Nat
      /\ n < Rows => e < Size
      /\ n = Rows => e = Size
      /\ n = Rows \/ n < Rows
      /\ e <= Size
  <2>1. n < Rows => n * Columns <= (Rows - 1) * Columns
    <3> SUFFICES ASSUME n < Rows PROVE n * Columns <= (Rows - 1) * Columns
      OBVIOUS
    <3>1. n <= Rows - 1
      BY <1>1, ScreenSizes
    <3> HIDE DEF n
    <3> QED
      BY <1>1, <3>1, ScreenSizes
  <2>2. n * Columns \in Nat /\ (n - 1) * Columns = n * Columns - Columns
    <3> HIDE DEF n
    <3> QED
      BY <1>1, ScreenSizes
  <2>3. n = Rows => n * Columns = Size
    BY ScreenSizes
  <2> HIDE DEF n
  <2> QED
    BY <1>1, <2>1, <2>2, <2>3, ScreenSizes
<1> HIDE DEF e
<1>5. k = e - Columns + b /\ k \in Nat /\ k < Size
  <2>1. k \in Nat /\ k < Size
    <3> HIDE DEF k
    <3> QED
      BY <1>3, ScreenSizes DEF Cells
  <2>2. k = (e - Columns) + b
    BY <1>4
  <2> QED
    BY <1>1, <1>4, <2>1, <2>2, ScreenSizes
<1>6. CASE c = LF
  <2>1. next = LastLines(Append(s, <<>>))
    <3>1. [s EXCEPT ![n] = s[n]] = s
      BY <1>1
    <3> QED
      BY <1>6, <3>1 DEF TextPut
  <2>2. shown = LineFeed(ShownCells(s), k)
    BY <1>6 DEF PutChar
  <2> HIDE DEF b, k, n
  <2>3. k - (k % Columns) + Columns = e
    BY <1>1, <1>3, <1>4, <1>5, ScreenSizes
  <2>4. shown = Settled(ShownCells(s), e)
    BY <2>2, <2>3 DEF LineFeed
  <2> HIDE DEF next, shown
  <2>5. /\ n < Rows => shown.cells = ShownCells(s) /\ shown.cursor = e
        /\ n = Rows => shown.cells = Rolled(ShownCells(s)) /\ shown.cursor = Size - Columns
    BY <1>4, <2>4, ScreenSizes DEF Settled
  <2>6. /\ TextOn(next, C) /\ Len(next[Len(next)]) = 0
        /\ n < Rows => ShownCells(next) = ShownCells(s) /\ ShownCursor(next) = e
        /\ n = Rows => /\ ShownCells(next) = Rolled(ShownCells(s))
                       /\ ShownCursor(next) = Size - Columns
    BY <2>1, NewLine DEF n, e
  <2> QED
    BY <1>2, <1>4, <2>5, <2>6, ScreenSizes DEF next, shown
<1>7. CASE c # LF
  <2> DEFINE line == Append(s[n], c)
             put == [s EXCEPT ![n] = line]
  <2>1. /\ line \in Seq(C) /\ Len(line) = b + 1 /\ line[b + 1] = c
        /\ \A m \in 1..b : line[m] = s[n][m]
    BY <1>1
  <2>2. /\ put \in Seq(Seq(C)) /\ Len(put) = n /\ put[n] = line
        /\ \A m \in 1..n : m # n => put[m] = s[m]
    BY <1>1, <2>1
  <2>3. next = IF b + 1 = Columns THEN LastLines(Append(put, <<>>)) ELSE put
    BY <1>7, <2>1 DEF TextPut
  <2> HIDE DEF line, put
  <2>4. TextOn(put, C)
    <3>1. ASSUME NEW m \in 1..n PROVE Len(put[m]) <= Columns
      <4> HIDE DEF n, b
      <4>1. CASE m = n
        BY <1>1, <2>1, <2>2, <4>1, ScreenSizes
      <4>2. CASE m # n
        BY <1>1, <2>2, <4>2
      <4> QED
        BY <4>1, <4>2
    <3> QED
      BY <1>1, <2>2, <3>1, ScreenSizes DEF TextOn
  <2>5. ShownCells(put) = [ShownCells(s) EXCEPT ![k] = c]
    <3>1. ASSUME NEW i \in Cells
          PROVE  Shows(put, i) = IF i = k THEN c ELSE Shows(s, i)
      <4> DEFINE r == i \div Columns
                 d == i % Columns
      <4>1. r \in Nat /\ d \in Nat /\ i = r * Columns + d
        BY CellParts, ScreenSizes
      <4>2. i = k <=> r = n - 1 /\ d = b
        BY <1>3, <4>1
      <4>3. /\ Shows(put, i) = IF r + 1 <= Len(put) /\ d + 1 <= Len(put[r + 1])
                               THEN put[r + 1][d + 1] ELSE Blank
            /\ Shows(s, i) = IF r + 1 <= n /\ d + 1 <= Len(s[r + 1])
                             THEN s[r + 1][d + 1] ELSE Blank
        BY DEF Shows
      <4> HIDE DEF r, d, k
      <4>4. CASE r + 1 # n
        <5>1. ASSUME r + 1 <= n PROVE put[r + 1] = s[r + 1]
          <6> HIDE DEF n
          <6>1. r + 1 \in 1..n
            BY <1>1, <4>1, <5>1
          <6> QED
            BY <2>2, <4>4, <6>1
        <5>2. i # k
          BY <1>1, <4>1, <4>2, <4>4
        <5> QED
          BY <2>2, <4>3, <5>1, <5>2
      <4>5. CASE r + 1 = n
        <5>1. r = n - 1 /\ put[r + 1] = line /\ Len(put) = n /\ s[r + 1] = s[n]
          BY <1>1, <2>2, <4>1, <4>5
        <5>2. CASE d = b
          BY <2>1, <4>2, <4>3, <4>5, <5>1, <5>2, <1>1
        <5>3. CASE d < b
          <6>1. d + 1 \in 1..b /\ i # k
            BY <1>1, <4>1, <4>2, <5>3
          <6> QED
            BY <1>1, <2>1, <4>1, <4>3, <4>5, <5>1, <5>3, <6>1
        <5>4. CASE d > b
          <6>1. ~(d + 1 <= b + 1) /\ ~(d + 1 <= b) /\ i # k
            BY <1>1, <4>1, <4>2, <5>4
          <6> QED
            BY <1>1, <2>1, <4>3, <4>5, <5>1, <6>1
        <5> QED
          BY <1>1, <4>1, <5>2, <5>3, <5>4
      <4> QED
        BY <4>4, <4>5
    <3> QED
      BY <1>3, <3>1, ShownAt
  <2> DEFINE written == [ShownCells(s) EXCEPT ![k] = c]
  <2>6. shown = IF k + 1 < Size THEN [cells |-> written, cursor |-> k + 1]
                ELSE LineFeed(written, k + 1)
    BY <1>7 DEF PutChar, PutOther
  <2>7. written = ShownCells(put)
    BY <2>5
  <2> HIDE DEF next, shown, written, n, b, k
  <2>8. CASE b + 1 # Columns
    <3>1. k + 1 < Size /\ k + 1 = ShownCursor(put)
      <4>1. ShownCursor(put) = (n - 1) * Columns + (b + 1)
        BY <2>1, <2>2 DEF ShownCursor
      <4>2. e <= Size /\ b + 1 < Columns
        BY <1>1, <1>4, <2>8, ScreenSizes
      <4> QED
        BY <1>1, <1>4, <1>5, <4>1, <4>2, ScreenSizes
    <3>2. Len(put[Len(put)]) < Columns
      BY <1>1, <2>1, <2>2, <2>8, ScreenSizes
    <3>3. next = put
      BY <2>3, <2>8
    <3>4. shown.cells = ShownCells(next) /\ shown.cursor = ShownCursor(next)
      BY <2>6, <2>7, <3>1, <3>3
    <3> QED
      BY <1>2, <2>4, <3>2, <3>3, <3>4 DEF next, shown
  <2>9. CASE b + 1 = Columns
    <3>1. k + 1 = e
      BY <1>1, <1>4, <1>5, <2>9, ScreenSizes
    <3>2. next = LastLines(Append(put, <<>>))
      BY <2>3, <2>9
    <3>3. /\ TextOn(next, C) /\ Len(next[Len(next)]) = 0
          /\ n < Rows => ShownCells(next) = written /\ ShownCursor(next) = e
          /\ n = Rows => /\ ShownCells(next) = Rolled(written)
                         /\ ShownCursor(next) = Size - Columns
      BY <2>2, <2>4, <2>7, <3>2, NewLine DEF e
    <3>4. CASE n < Rows
      <4>1. shown = [cells |-> written, cursor |-> e]
        BY <1>4, <2>6, <3>1, <3>4
      <4> QED
        BY <1>2, <3>3, <3>4, <4>1, ScreenSizes DEF next, shown
    <3>5. CASE n = Rows
      <4>1. k + 1 = Size
        BY <1>4, <3>1, <3>5
      <4>2. (k + 1) % Columns = 0
        <5>1. n * Columns + 0 = k + 1 /\ 0 \in 0..Columns - 1
          BY <1>1, <1>4, <3>1, ScreenSizes DEF e
        <5>2. (n * Columns + 0) % Columns = 0
          BY <1>1, <5>1, ScreenSizes, DivUnique
        <5> QED
          BY <5>1, <5>2
      <4>3. shown = Settled(written, Size + Columns)
        <5>1. k + 1 - ((k + 1) % Columns) + Columns = Size + Columns
          BY <4>1, <4>2, ScreenSizes
        <5> QED
          BY <2>6, <4>1, <5>1, ScreenSizes DEF LineFeed
      <4>4. shown.cells = Rolled(written) /\ shown.cursor = Size - Columns
        BY <4>3, ScreenSizes DEF Settled
      <4> QED
        BY <1>2, <3>3, <3>5, <4>4, ScreenSizes DEF next, shown
    <3> QED
      BY <1>4, <3>4, <3>5
  <2> QED
    BY <2>8, <2>9
<1> QED
  BY <1>6, <1>7

\* The cursor is on the screen.
LEMMA CursorOnScreen ==
    ASSUME NEW C, NEW s, TextOn(s, C), Len(s[Len(s)]) < Columns
    PROVE  ShownCursor(s) \in Cells
<1>1. /\ Len(s) - 1 \in 0..Rows - 1 /\ Len(s[Len(s)]) \in Nat
  BY ScreenSizes DEF TextOn
<1>2. Len(s[Len(s)]) \in 0..Columns - 1
  BY <1>1, ScreenSizes
<1> QED
  BY <1>1, <1>2, CellAt DEF ShownCursor

-----------------------------------------------------------------------------
(* The text on the screen.                                                 *)

LEMMA TextIsOn ==
    TextFits <=> /\ TextOn(text, Threads \cup {LF})
                 /\ Len(text[Len(text)]) < Columns
  BY DEF TextFits, TextOn

\* put_char works on the cursor as it is: the console's lock keeps it so.
LEMMA StepKeepsText ==
    ASSUME ProcessesInv, [ProcessesNext]_allVars
    PROVE  TextFits' /\ ScreenShowsText' /\ cursor' \in Cells /\ bx' \in [Threads -> Cells]
<1>0. /\ TextFits /\ ScreenShowsText /\ cursor \in Cells /\ bx \in [Threads -> Cells]
      /\ Processes \cup {Main} \subseteq Threads
  BY ProcessesAssumption, ThreadsAssumption DEF ProcessesInv, ProcessesTypeOK
<1>1. CASE UNCHANGED screenVars
  BY <1>0, <1>1 DEF screenVars, TextFits, ScreenShowsText
<1>2. ASSUME NEW t \in Processes \cup {Main}, ReadCursor(t)
      PROVE  TextFits' /\ ScreenShowsText' /\ cursor' \in Cells /\ bx' \in [Threads -> Cells]
  BY <1>0, <1>2 DEF ReadCursor, TextFits, ScreenShowsText
<1>3. ASSUME NEW t \in Processes \cup {Main}, WriteChar(t)
      PROVE  TextFits' /\ ScreenShowsText' /\ cursor' \in Cells /\ bx' \in [Threads -> Cells]
  <2> DEFINE C == Threads \cup {LF}
             c == Printed(t)
             shown == PutChar(ShownCells(text), ShownCursor(text), c)
             next == TextPut(text, c)
  <2>1. bx[t] = cursor /\ c \in C
    BY <1>0, <1>3 DEF WriteChar, ProcessesInv, LocksFit, Printed
  <2>2. /\ cells' = shown.cells /\ cursor' = shown.cursor /\ text' = next
        /\ bx' = [bx EXCEPT ![t] = 0]
    BY <1>0, <1>3, <2>1 DEF WriteChar, ScreenShowsText
  <2>3. TextOn(text, C) /\ Len(text[Len(text)]) < Columns
    BY <1>0, TextIsOn
  <2> HIDE DEF c, C
  <2>4. /\ TextOn(next, C) /\ Len(next[Len(next)]) < Columns
        /\ shown.cells = ShownCells(next) /\ shown.cursor = ShownCursor(next)
    BY <2>1, <2>3, PutCharShows
  <2>5. ShownCursor(next) \in Cells
    BY <2>4, CursorOnScreen
  <2> HIDE DEF shown, next
  <2>6. TextFits'
    BY <2>2, <2>4 DEF TextFits, TextOn, C
  <2>7. ScreenShowsText'
    BY <2>2, <2>4 DEF ScreenShowsText
  <2>8. 0 \in Cells
    BY <1>0, ScreenSizes DEF Cells
  <2> QED
    BY <1>0, <2>2, <2>4, <2>5, <2>6, <2>7, <2>8
<1>4. ASSUME NEW t \in Processes \cup {Main}, Acquire(t) \/ Release(t) \/ Work(t)
      PROVE  UNCHANGED screenVars
  BY <1>4, WorkMoves DEF Acquire, Release
<1>5. ASSUME \/ Boot \/ MainCalls \/ CreatePageDir \/ ListProcess \/ SystemStep
             \/ UNCHANGED allVars \/ \E t \in Processes : Syscall(t) \/ Iret(t)
      PROVE  UNCHANGED screenVars
  BY <1>5
  DEF Boot, MainCalls, CreatePageDir, ListProcess, SystemStep, Syscall, Iret, allVars, processVars
<1> QED
  BY <1>1, <1>2, <1>3, <1>4, <1>5, ThreadStepParts DEF ProcessesNext

-----------------------------------------------------------------------------
(* The invariant.                                                          *)

LEMMA ProcessesInitInv ==
    ASSUME ProcessesInit
    PROVE  ProcessesInv
<1>0. /\ Processes \subseteq Threads /\ Main \in Threads /\ Main \notin Processes
      /\ Idle \notin Processes
  BY ProcessesAssumption, ThreadsAssumption
<1>2. 0 \in Cells
  BY ScreenSizes DEF Cells
<1>3. BootEntries \in [Entries -> PageFrames \cup {None}]
  <2>1. ASSUME NEW i \in Entries, i >= UserTables
        PROVE  BootTable(i) \in PageFrames
    BY <2>1, PoolFacts
  <2> QED
    BY <2>1 DEF BootEntries
<1> USE DEF ProcessesInit
<1>1. Inv
  BY InitInv
<1>4. ProcessesTypeOK
  BY <1>0, <1>2, <1>3, PoolFacts, ProcessesAssumption
  DEF ProcessesTypeOK, MainPlaces, ProcessPlaces, Slots, Steps
<1>5. Built = {} /\ Created = {} /\ Fixed = {}
  BY <1>0 DEF Built, Created, Fixed, Init, SyncInit
<1>16. \A t \in Processes \cup {Main} : step[t] = "out" /\ Adding(t) = {} /\ Owned(t) = {}
  BY <1>0, Zenon DEF Adding, Owned, Taking, Holding
<1>17. HandsFit
  BY <1>16, Zenon DEF HandsFit, HandFits, Taking, Holding
<1>6. MapsFit
  <2>1. dir[BootDir] = BootEntries /\ \A t \in Threads : home[t] = BootDir
    BY PoolFacts
  <2>2. KernelHalf
    BY <2>1, PoolFacts, Sizes DEF KernelHalf, BootEntries, UserEntries
  <2>3. ASSUME NEW p \in KernelPages
        PROVE  KernelFrame(p) = None
    <3>1. BootTable(p \div PerTable) \in PageFrames /\ p % PerTable \in 0..PerTable - 1
      BY KernelPageParts, PoolFacts, Sizes DEF Slots
    <3> QED
      BY <3>1 DEF KernelFrame
  <2>4. KernelMaps
    BY <1>16, <2>3 DEF KernelMaps
  <2> QED
    BY <1>5, <2>2, <2>4 DEF MapsFit, TablesFit, UserMaps, AllUsed
<1>7. HomesFit
  BY <1>0, <1>5, <1>16 DEF HomesFit
<1>8. HeapsFit
  <2>1. Cardinality({}) = 0
    BY FS_EmptySet
  <2>2. HeapPages >= 0
    BY ProcessesAssumption
  <2> QED
    BY <1>0, <1>5, <1>16, <2>1, <2>2 DEF HeapsFit
<1>9. CountFits
  <2>1. Cardinality({}) = 0
    BY FS_EmptySet
  <2>2. InHand = 0
    BY <1>0 DEF InHand
  <2> QED
    BY <1>5, <2>1, <2>2 DEF CountFits
<1>10. PlacesFit
  BY <1>0, <1>5 DEF PlacesFit, MainPlaces, ProcessPlaces, Creating
<1>11. CpuFits
  BY <1>1, <1>5 DEF CpuFits, Inv, TypeOK, SchedTypeOK
<1>12. LocksFit
  BY DEF LocksFit
<1>13. text = <<<<>>>> /\ Len(text) = 1 /\ text[1] = <<>> /\ Len(text[1]) = 0
  OBVIOUS
<1>14. TextFits
  BY <1>13, ScreenSizes DEF TextFits
<1>15. ScreenShowsText
  <2>1. ShownCursor(text) = 0
    BY <1>13, ScreenSizes DEF ShownCursor
  <2>2. ASSUME NEW i \in Cells
        PROVE  Shows(text, i) = Blank
    <3>1. i \div Columns \in Nat /\ i % Columns \in Nat
      BY CellParts, ScreenSizes
    <3> DEFINE r == i \div Columns
               d == i % Columns
    <3> HIDE DEF r, d
    <3>2. ~(r + 1 <= Len(text) /\ d + 1 <= Len(text[r + 1]))
      BY <1>13, <3>1 DEF r, d
    <3> QED
      BY <3>2 DEF Shows, r, d
  <2>3. ShownCells(text) = [i \in Cells |-> Blank]
    BY <2>2, ShownAt
  <2> QED
    BY <2>1, <2>3 DEF ScreenShowsText
<1> QED
  BY <1>1, <1>4, <1>6, <1>7, <1>8, <1>9, <1>10, <1>11, <1>12, <1>14, <1>15, <1>17
  DEF ProcessesInv, SpaceInv

LEMMA StepKeepsTypes ==
    ASSUME ProcessesInv, [ProcessesNext]_allVars
    PROVE  ProcessesTypeOK'
  BY StepKeepsControl, StepKeepsPages, StepKeepsText DEF ControlTypes, SpaceTypes, ProcessesTypeOK

LEMMA ProcessesNextInv ==
    ASSUME ProcessesInv, [ProcessesNext]_allVars
    PROVE  ProcessesInv'
  BY StepKeepsSync, StepKeepsTypes, StepKeepsSpace, StepKeepsLocks, StepKeepsText
  DEF ProcessesInv

\* The inductive invariant of the processes holds in every state.
THEOREM ProcessesSpecInv == ProcessesSpec => []ProcessesInv
<1>1. ProcessesInit => ProcessesInv
  BY ProcessesInitInv
<1>2. ProcessesInv /\ [ProcessesNext]_allVars => ProcessesInv'
  BY ProcessesNextInv
<1> QED
  BY <1>1, <1>2, PTL DEF ProcessesSpec

\* process_execute, start_process, the system calls and the console keep to the
\* rules of the thread library, so that what Sync_proofs says of it holds here:
\* no ASSERT of it or of page_table_add fails.
THEOREM ProcessesImplementSync == ProcessesSpec => Spec
<1>1. ProcessesInit => Init
  BY DEF ProcessesInit
<1>2. ProcessesInv /\ [ProcessesNext]_allVars => [Next]_vars
  BY StepIsLegal
<1> QED
  BY <1>1, <1>2, ProcessesSpecInv, PTL DEF ProcessesSpec, Spec

\* The comment at process.c:34-38: whoever is switched in runs in its own page
\* directory, and a process in user mode traps onto its own kernel stack.
THEOREM RunsInOwnSpaceHolds == ProcessesSpec => []RunsInOwnSpace
<1>1. ASSUME ProcessesInv PROVE RunsInOwnSpace
  <2>1. current \in Threads
    BY <1>1 DEF ProcessesInv, Inv, TypeOK, SchedTypeOK
  <2>2. ASSUME at[current] = "user" PROVE current \in Built
    <3>1. current \in Processes
      BY <1>1, <2>1, <2>2 DEF ProcessesInv, SpaceInv, PlacesFit, MainPlaces
    <3> QED
      BY <1>1, <2>2, <3>1 DEF ProcessesInv, SpaceInv, PlacesFit, Created
  <2> QED
    BY <1>1, <2>2 DEF ProcessesInv, SpaceInv, CpuFits, RunsInOwnSpace
<1> QED
  BY <1>1, ProcessesSpecInv, PTL

\* Every page of the kernel is mapped in whichever directory is in use, to the
\* frame that the kernel's own directory has for it.
THEOREM KernelEverywhereHolds == ProcessesSpec => []KernelEverywhere
<1>1. ASSUME ProcessesInv PROVE KernelEverywhere
  <2>1. /\ current \in Threads /\ Main \in Threads /\ Main \notin Built
        /\ ProcessesTypeOK /\ KernelHalf
    BY <1>1, ThreadsAssumption, ProcessesAssumption
    DEF ProcessesInv, SpaceInv, MapsFit, Inv, TypeOK, SchedTypeOK, Built
  <2>2. home[Main] = BootDir /\ cr3 = home[current] /\ cr3 \in PageFrames
    BY <1>1, <2>1 DEF ProcessesInv, SpaceInv, HomesFit, CpuFits, ProcessesTypeOK
  <2>3. ASSUME NEW p \in vbits[Main]
        PROVE  V2P(cr3, p) = V2P(BootDir, p)
    <3>1. p \in KernelPages
      BY <1>1 DEF ProcessesInv, SpaceInv, MapsFit, KernelMaps
    <3>2. V2P(home[current], p) = KernelFrame(p) /\ V2P(home[Main], p) = KernelFrame(p)
      BY <2>1, <3>1, KernelV2P
    <3> QED
      BY <2>2, <3>2
  <2> QED
    BY <2>2, <2>3 DEF KernelEverywhere
<1> QED
  BY <1>1, ProcessesSpecInv, PTL

\* A process in user mode has its stack and its heap mapped in its own
\* directory, in frames of the user pool; and whatever the page tables of a
\* process hold, but for the page and the page table in hand, is its own: no
\* frame is behind two pages.
THEOREM UserPagesOwnHolds == ProcessesSpec => []UserPagesOwn
<1>1. ASSUME ProcessesInv PROVE UserPagesOwn
  <2>1. ASSUME NEW t \in Processes, at[t] = "user", NEW p \in {StackPage} \cup heap[t]
        PROVE  V2P(home[t], p) \in UserPool \cap taken
    <3>1. t \in Built /\ t \in Threads
      BY <1>1, <2>1, ProcessesAssumption DEF ProcessesInv, SpaceInv, PlacesFit, Created
    <3>2. step[t] = "out"
      BY <1>1, <2>1, <3>1 DEF ProcessesInv, LocksFit, Locked
    <3>3. p \in vbits[t]
      BY <1>1, <2>1, <3>1 DEF ProcessesInv, SpaceInv, HeapsFit
    <3>4. p \in Owned(t) /\ UFrame(t, p) = UserFrame(t, p)
      BY <3>2, <3>3 DEF Owned, UFrame, Holding
    <3>5. UFrame(t, p) \in UserPool \cap taken
      BY <1>1, <3>1, <3>4 DEF ProcessesInv, SpaceInv, MapsFit, UserMaps
    <3> QED
      BY <3>4, <3>5 DEF UserFrame
  <2>2. ASSUME NEW t \in Processes, NEW p \in UserPages, Mapped(t, p), V2P(home[t], p) # None
        PROVE  t \in Built /\ p \in Owned(t) /\ UFrame(t, p) = V2P(home[t], p)
    <3>1. t \in Built
      <4> SUFFICES ASSUME t \notin Built PROVE FALSE
        OBVIOUS
      <4>1. t \in Threads /\ home[t] = BootDir
        BY <1>1, ProcessesAssumption DEF ProcessesInv, SpaceInv, HomesFit
      <4>2. dir[BootDir][p \div PerTable] = None
        BY <1>1, UserPageParts DEF ProcessesInv, SpaceInv, MapsFit, KernelHalf
      <4> QED
        BY <2>2, <4>1, <4>2 DEF V2P
    <3>2. ~Uncleared(t, p) /\ UserFrame(t, p) # None /\ p # vaddr[t]
      BY <2>2 DEF Mapped, Uncleared, UserFrame
    <3>3. ~Unmapped(t, p)
      BY <1>1, <3>1, <3>2 DEF ProcessesInv, SpaceInv, MapsFit, UserMaps
    <3>4. p \in Owned(t)
      BY <3>2, <3>3 DEF Unmapped, Owned
    <3>5. UFrame(t, p) = UserFrame(t, p)
      BY <3>2 DEF UFrame
    <3> QED
      BY <3>1, <3>4, <3>5 DEF UserFrame
  <2>3. ASSUME NEW t \in Processes, NEW u \in Processes, NEW p \in UserPages, NEW q \in UserPages,
               Mapped(t, p), Mapped(u, q),
               V2P(home[t], p) = V2P(home[u], q), V2P(home[t], p) # None
        PROVE  home[t] = home[u] /\ p = q
    <3>1. /\ t \in Built /\ p \in Owned(t) /\ u \in Built /\ q \in Owned(u)
          /\ UFrame(t, p) = UFrame(u, q)
      BY <2>2, <2>3
    <3>2. u = t /\ q = p
      BY <1>1, <3>1 DEF ProcessesInv, SpaceInv, MapsFit, UserMaps
    <3> QED
      BY <3>2
  <2> QED
    BY <2>1, <2>3 DEF UserPagesOwn, UserPages
<1> QED
  BY <1>1, ProcessesSpecInv, PTL

\* Every character printed is on the screen, in the order of the calls, although
\* put_char reads and writes the cursor in separate steps.
THEOREM ScreenShowsTextHolds == ProcessesSpec => []ScreenShowsText
<1>1. ProcessesInv => ScreenShowsText
  BY DEF ProcessesInv
<1> QED
  BY <1>1, ProcessesSpecInv, PTL
=============================================================================
