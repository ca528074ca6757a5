--------------------------- MODULE ThreadLists_proofs ---------------------------
(***************************************************************************)
(* Proofs about ThreadLists: the pointers of the lists are the sequences   *)
(* that Sync takes them for, for any number of tasks and of semaphores.    *)
(***************************************************************************)
EXTENDS ThreadLists, Sync_proofs, Numbers, FiniteSetTheorems

-----------------------------------------------------------------------------
(* Heads, tails and tags.                                                  *)

LEMMA ListsFacts ==
    /\ ReadyList \in Lists
    /\ \A s \in Sems : WaitersOf[s] \in Lists \ {ReadyList} /\ SemOf(WaitersOf[s]) = s
    /\ \A l \in Lists \ {ReadyList} : SemOf(l) \in Sems /\ WaitersOf[SemOf(l)] = l
    /\ Lists \subseteq Nat \ {0}
<1>1. /\ ReadyList \in Nat \ {0}
      /\ WaitersOf \in [Sems -> Nat \ {0, ReadyList}]
      /\ \A s, r \in Sems : WaitersOf[s] = WaitersOf[r] => s = r
  BY ThreadListsAssumption
<1>2. ASSUME NEW s \in Sems
      PROVE  WaitersOf[s] \in Lists \ {ReadyList} /\ SemOf(WaitersOf[s]) = s
  BY <1>1 DEF Lists, SemOf
<1>3. ASSUME NEW l \in Lists \ {ReadyList}
      PROVE  SemOf(l) \in Sems /\ WaitersOf[SemOf(l)] = l
  <2>1. PICK s \in Sems : l = WaitersOf[s]
    BY DEF Lists
  <2> QED
    BY <1>2, <2>1
<1>4. Lists \subseteq Nat \ {0}
  BY <1>1 DEF Lists
<1> QED
  BY <1>2, <1>3, <1>4 DEF Lists

\* No two of what can be linked are the same.
LEMMA EndsFacts ==
    /\ \A l \in Lists :
          /\ ListHead(l) \in Ends /\ ListTail(l) \in Ends
          /\ ListHead(l) # Nil /\ ListTail(l) # Nil
    /\ \A l, m \in Lists :
          /\ ListHead(l) # ListTail(m)
          /\ ListHead(l) = ListHead(m) => l = m
          /\ ListTail(l) = ListTail(m) => l = m
    /\ \A e \in Ends : \E l \in Lists : e = ListHead(l) \/ e = ListTail(l)
    /\ Threads \cap Ends = {}
    /\ Nil \notin Tags
<1>1. \A l \in Lists : l \in Nat \ {0}
  BY ListsFacts
<1>2. ASSUME NEW l \in Lists
      PROVE  /\ ListHead(l) \in Ends /\ ListTail(l) \in Ends
             /\ ListHead(l) # Nil /\ ListTail(l) # Nil
  <2>1. ListHead(l) \in Ends /\ ListTail(l) \in Ends
    BY DEF Ends
  <2>2. ListHead(l) # Nil /\ ListTail(l) # Nil
    BY <1>1 DEF ListHead, ListTail, Nil
  <2> QED
    BY <2>1, <2>2
<1>3. ASSUME NEW l \in Lists, NEW m \in Lists
      PROVE  /\ ListHead(l) # ListTail(m)
             /\ ListHead(l) = ListHead(m) => l = m
             /\ ListTail(l) = ListTail(m) => l = m
  BY <1>1 DEF ListHead, ListTail
<1>4. ASSUME NEW e \in Ends
      PROVE  \E l \in Lists : e = ListHead(l) \/ e = ListTail(l)
  BY DEF Ends
<1>5. Threads \cap Ends = {} /\ Nil \notin Tags
  BY <1>2, <1>4, TagsAssumption DEF Tags
<1> QED
  BY <1>2, <1>3, <1>4, <1>5

LEMMA NodeFacts ==
    ASSUME NEW l \in Lists, NEW s \in Seq(Threads)
    PROVE  /\ Len(s) \in Nat
           /\ Node(l, s, 0) = ListHead(l)
           /\ Node(l, s, Len(s) + 1) = ListTail(l)
           /\ \A n \in 1..Len(s) : Node(l, s, n) = s[n] /\ s[n] \in Threads
           /\ \A n \in 0..Len(s) + 1 : Node(l, s, n) \in Tags
<1>1. Len(s) \in Nat /\ \A n \in 1..Len(s) : s[n] \in Threads
  OBVIOUS
<1>2. /\ Node(l, s, 0) = ListHead(l)
      /\ Node(l, s, Len(s) + 1) = ListTail(l)
      /\ \A n \in 1..Len(s) : Node(l, s, n) = s[n]
  BY <1>1 DEF Node
<1>3. \A n \in 0..Len(s) + 1 : n = 0 \/ n = Len(s) + 1 \/ n \in 1..Len(s)
  BY <1>1
<1> QED
  BY <1>1, <1>2, <1>3, EndsFacts DEF Tags

\* A tag, head or tail has one place.
LEMMA NodesApart ==
    ASSUME NEW q, Apart(q), \A l \in Lists : q[l] \in Seq(Threads),
           NEW l \in Lists, NEW m \in Lists,
           NEW i \in 0..Len(q[l]) + 1, NEW j \in 0..Len(q[m]) + 1,
           Node(l, q[l], i) = Node(m, q[m], j)
    PROVE  l = m /\ i = j
<1>1. /\ Len(q[l]) \in Nat /\ Len(q[m]) \in Nat
      /\ i = 0 \/ i = Len(q[l]) + 1 \/ i \in 1..Len(q[l])
      /\ j = 0 \/ j = Len(q[m]) + 1 \/ j \in 1..Len(q[m])
  BY NodeFacts
<1>2. CASE i = 0
  BY <1>1, <1>2, NodeFacts, EndsFacts
<1>3. CASE i = Len(q[l]) + 1
  BY <1>1, <1>3, NodeFacts, EndsFacts
<1>4. CASE i \in 1..Len(q[l])
  <2>1. Node(l, q[l], i) \in Threads /\ Node(l, q[l], i) = q[l][i]
    BY <1>4, NodeFacts
  <2>2. j \in 1..Len(q[m])
    <3>1. ListHead(m) \notin Threads /\ ListTail(m) \notin Threads
      BY EndsFacts
    <3>2. Node(m, q[m], 0) = ListHead(m) /\ Node(m, q[m], Len(q[m]) + 1) = ListTail(m)
      BY NodeFacts
    <3>3. j # 0 /\ j # Len(q[m]) + 1
      BY <2>1, <3>1, <3>2
    <3> QED
      BY <1>1, <3>3
  <2>3. q[l][i] = q[m][j]
    BY <2>1, <2>2, NodeFacts
  <2> QED
    BY <1>4, <2>2, <2>3 DEF Apart
<1> QED
  BY <1>1, <1>2, <1>3, <1>4

\* Whatever place it has, it is linked.
LEMMA NodesLinked ==
    ASSUME NEW k, NEW q, ListsHold(k, q), NEW l \in Lists, NEW n \in 0..Len(q[l]) + 1
    PROVE  Node(l, q[l], n) \in DOMAIN k
<1>1. /\ q[l] \in Seq(Threads) /\ Ends \subseteq DOMAIN k
      /\ \A i \in 1..Len(q[l]) : q[l][i] \in DOMAIN k
  BY DEF ListsHold
<1>2. Len(q[l]) \in Nat /\ (n = 0 \/ n = Len(q[l]) + 1 \/ n \in 1..Len(q[l]))
  BY <1>1, NodeFacts
<1> QED
  BY <1>1, <1>2, NodeFacts, EndsFacts

-----------------------------------------------------------------------------
(* list_insert_before and list_remove, field by field.                     *)

Links == [prev : Tags \cup {Nil}, next : Tags \cup {Nil}]

\* new is k with t between p and b.
Spliced(k, new, t, p, b) ==
    /\ DOMAIN new = DOMAIN k \cup {t}
    /\ new \in [DOMAIN new -> Links]
    /\ new[t].prev = p /\ new[t].next = b
    /\ new[p].prev = k[p].prev /\ new[p].next = t
    /\ new[b].prev = t /\ new[b].next = k[b].next
    /\ \A e \in DOMAIN k \ {t, p, b} : new[e] = k[e]

LEMMA InsertFields ==
    ASSUME NEW k, k \in [DOMAIN k -> Links],
           NEW b \in DOMAIN k, b \in Tags,
           NEW p \in DOMAIN k, p \in Tags, p = k[b].prev, p # b,
           NEW t \in Tags, t # b, t # p,
           NEW new, new = InsertBefore(k, b, t)
    PROVE  Spliced(k, new, t, p, b)
<1> DEFINE rest == [k EXCEPT ![p].next = t, ![b].prev = t]
<1>1. new = [e \in DOMAIN k \cup {t} |->
               IF e = t THEN [prev |-> p, next |-> b] ELSE rest[e]]
  BY DEF InsertBefore
<1>2. /\ rest[p] = [k[p] EXCEPT !.next = t]
      /\ rest[b] = [k[b] EXCEPT !.prev = t]
      /\ \A e \in DOMAIN k \ {p, b} : rest[e] = k[e]
  OBVIOUS
<1>3. \A e \in DOMAIN k : k[e] \in Links
  OBVIOUS
<1>4. /\ rest[p] \in Links /\ rest[p].next = t /\ rest[p].prev = k[p].prev
      /\ rest[b] \in Links /\ rest[b].prev = t /\ rest[b].next = k[b].next
  BY <1>2, <1>3 DEF Links
<1>5. [prev |-> p, next |-> b] \in Links
  BY DEF Links
<1> HIDE DEF rest
<1>6. /\ DOMAIN new = DOMAIN k \cup {t}
      /\ new[t] = [prev |-> p, next |-> b]
      /\ \A e \in DOMAIN k \ {t} : new[e] = rest[e]
  BY <1>1
<1>7. \A e \in DOMAIN k : rest[e] \in Links
  BY <1>2, <1>3, <1>4
<1>8. new \in [DOMAIN new -> Links]
  BY <1>1, <1>5, <1>6, <1>7
<1>9. /\ new[t].prev = p /\ new[t].next = b
      /\ new[p] = rest[p] /\ new[b] = rest[b]
  BY <1>6
<1>10. \A e \in DOMAIN k \ {t, p, b} : new[e] = k[e]
  BY <1>2, <1>6
<1> QED
  BY <1>4, <1>6, <1>8, <1>9, <1>10 DEF Spliced

\* new is k without what was between p and n.
Bypassed(k, new, p, n) ==
    /\ DOMAIN new = DOMAIN k
    /\ new \in [DOMAIN new -> Links]
    /\ new[p].prev = k[p].prev /\ new[p].next = n
    /\ new[n].prev = p /\ new[n].next = k[n].next
    /\ \A x \in DOMAIN k \ {p, n} : new[x] = k[x]

LEMMA RemoveFields ==
    ASSUME NEW k, k \in [DOMAIN k -> Links],
           NEW e \in DOMAIN k,
           NEW p \in DOMAIN k, p \in Tags, p = k[e].prev, p # e,
           NEW n \in DOMAIN k, n \in Tags, n = k[e].next, n # e, n # p,
           NEW new, new = ListRemove(k, e)
    PROVE  Bypassed(k, new, p, n)
<1>1. new = [k EXCEPT ![p].next = n, ![n].prev = p]
  BY DEF ListRemove
<1>2. /\ new[p] = [k[p] EXCEPT !.next = n]
      /\ new[n] = [k[n] EXCEPT !.prev = p]
      /\ DOMAIN new = DOMAIN k
      /\ \A x \in DOMAIN k \ {p, n} : new[x] = k[x]
  BY <1>1
<1>3. \A x \in DOMAIN k : k[x] \in Links
  OBVIOUS
<1>4. /\ new[p] \in Links /\ new[p].next = n /\ new[p].prev = k[p].prev
      /\ new[n] \in Links /\ new[n].prev = p /\ new[n].next = k[n].next
  BY <1>2, <1>3 DEF Links
<1>5. \A x \in DOMAIN k : new[x] \in Links
  BY <1>2, <1>3, <1>4
<1>6. new \in [DOMAIN new -> Links]
  BY <1>1, <1>2, <1>5
<1> QED
  BY <1>2, <1>4, <1>6 DEF Bypassed

-----------------------------------------------------------------------------
(* An element is inserted.                                                 *)

\* s2 is s with t behind its first i elements.
Inserted(s, s2, i, t) ==
    /\ i \in 0..Len(s)
    /\ s2 \in Seq(Threads)
    /\ Len(s2) = Len(s) + 1
    /\ s2[i + 1] = t
    /\ \A n \in 1..i : s2[n] = s[n]
    /\ \A n \in i + 1..Len(s) : s2[n + 1] = s[n]

InNone(q, t) == \A l \in Lists : ~InList(q[l], t)

LEMMA InsertedNodes ==
    ASSUME NEW l \in Lists, NEW s \in Seq(Threads), NEW s2, NEW i, NEW t \in Threads,
           Inserted(s, s2, i, t)
    PROVE  /\ Node(l, s2, i + 1) = t
           /\ \A n \in 0..i : Node(l, s2, n) = Node(l, s, n)
           /\ \A n \in i + 1..Len(s) + 1 : Node(l, s2, n + 1) = Node(l, s, n)
<1>1. /\ Len(s) \in Nat /\ i \in 0..Len(s) /\ Len(s2) = Len(s) + 1
      /\ s2[i + 1] = t
      /\ \A n \in 1..i : s2[n] = s[n]
      /\ \A n \in i + 1..Len(s) : s2[n + 1] = s[n]
  BY DEF Inserted
<1>2. Node(l, s2, i + 1) = t
  BY <1>1 DEF Node
<1>3. ASSUME NEW n \in 0..i
      PROVE  Node(l, s2, n) = Node(l, s, n)
  BY <1>1 DEF Node
<1>4. ASSUME NEW n \in i + 1..Len(s) + 1
      PROVE  Node(l, s2, n + 1) = Node(l, s, n)
  <2>1. CASE n = Len(s) + 1
    BY <1>1, <2>1 DEF Node
  <2>2. CASE n # Len(s) + 1
    BY <1>1, <2>2 DEF Node
  <2> QED
    BY <2>1, <2>2
<1> QED
  BY <1>2, <1>3, <1>4

LEMMA InsertedMembers ==
    ASSUME NEW s \in Seq(Threads), NEW s2, NEW i, NEW t \in Threads,
           Inserted(s, s2, i, t)
    PROVE  \A e : InList(s2, e) <=> InList(s, e) \/ e = t
<1>1. /\ Len(s) \in Nat /\ i \in 0..Len(s) /\ Len(s2) = Len(s) + 1
      /\ s2[i + 1] = t
      /\ \A n \in 1..i : s2[n] = s[n]
      /\ \A n \in i + 1..Len(s) : s2[n + 1] = s[n]
  BY DEF Inserted
<1>2. ASSUME NEW n \in 1..Len(s2), s2[n] # t
      PROVE  InList(s, s2[n])
  <2>1. CASE n \in 1..i
    BY <1>1, <2>1 DEF InList
  <2>2. CASE n \notin 1..i
    <3>1. n - 1 \in i + 1..Len(s) /\ n = (n - 1) + 1
      BY <1>1, <1>2, <2>2
    <3>2. s2[n] = s[n - 1]
      BY <1>1, <3>1
    <3> QED
      BY <1>1, <3>1, <3>2 DEF InList
  <2> QED
    BY <2>1, <2>2
<1>3. ASSUME NEW n \in 1..Len(s)
      PROVE  InList(s2, s[n])
  <2>1. CASE n \in 1..i
    BY <1>1, <2>1 DEF InList
  <2>2. CASE n \notin 1..i
    <3>1. s2[n + 1] = s[n] /\ n + 1 \in 1..Len(s2)
      BY <1>1, <2>2
    <3> QED
      BY <3>1 DEF InList
  <2> QED
    BY <2>1, <2>2
<1>4. InList(s2, t)
  BY <1>1 DEF InList
<1> QED
  BY <1>2, <1>3, <1>4 DEF InList

LEMMA InsertedApart ==
    ASSUME NEW q, DOMAIN q = Lists, Apart(q), \A m \in Lists : q[m] \in Seq(Threads),
           NEW l \in Lists, NEW t \in Threads, InNone(q, t),
           NEW s2, NEW i, Inserted(q[l], s2, i, t)
    PROVE  Apart([q EXCEPT ![l] = s2])
<1> DEFINE q2 == [q EXCEPT ![l] = s2]
           Old(m, n) == IF m = l /\ n > i THEN n - 1 ELSE n
<1>1. /\ Len(q[l]) \in Nat /\ i \in 0..Len(q[l]) /\ Len(s2) = Len(q[l]) + 1
      /\ s2[i + 1] = t
      /\ \A n \in 1..i : s2[n] = q[l][n]
      /\ \A n \in i + 1..Len(q[l]) : s2[n + 1] = q[l][n]
  BY DEF Inserted
<1>2. q2[l] = s2 /\ \A m \in Lists \ {l} : q2[m] = q[m]
  OBVIOUS
<1> HIDE DEF q2
<1>3. ASSUME NEW m \in Lists, NEW n \in 1..Len(q2[m]), ~(m = l /\ n = i + 1)
      PROVE  Old(m, n) \in 1..Len(q[m]) /\ q2[m][n] = q[m][Old(m, n)]
  <2>1. CASE m # l
    BY <1>2, <2>1
  <2>2. CASE m = l /\ n \in 1..i
    BY <1>1, <1>2, <2>2
  <2>3. CASE m = l /\ n \notin 1..i
    <3>1. n - 1 \in i + 1..Len(q[l]) /\ n = (n - 1) + 1 /\ n > i
      BY <1>1, <1>2, <1>3, <2>3
    <3>2. s2[n] = q[l][n - 1]
      BY <1>1, <3>1
    <3> QED
      BY <1>1, <1>2, <2>3, <3>1, <3>2
  <2> QED
    BY <2>1, <2>2, <2>3
<1>4. ASSUME NEW m \in Lists, NEW n \in 1..Len(q2[m]), ~(m = l /\ n = i + 1)
      PROVE  q2[m][n] # t
  BY <1>3, <1>4 DEF InNone, InList
<1>5. ASSUME NEW m \in Lists, NEW r \in Lists,
             NEW n \in 1..Len(q2[m]), NEW j \in 1..Len(q2[r]), q2[m][n] = q2[r][j]
      PROVE  m = r /\ n = j
  <2>1. CASE m = l /\ n = i + 1
    <3>1. q2[r][j] = t
      BY <1>1, <1>2, <1>5, <2>1
    <3> QED
      BY <1>4, <2>1, <3>1
  <2>2. CASE r = l /\ j = i + 1
    <3>1. q2[m][n] = t
      BY <1>1, <1>2, <1>5, <2>2
    <3> QED
      BY <1>4, <2>2, <3>1
  <2>3. CASE ~(m = l /\ n = i + 1) /\ ~(r = l /\ j = i + 1)
    <3>1. q[m][Old(m, n)] = q[r][Old(r, j)]
      BY <1>3, <1>5, <2>3
    <3>2. Old(m, n) \in 1..Len(q[m]) /\ Old(r, j) \in 1..Len(q[r])
      BY <1>3, <2>3
    <3>3. m = r /\ Old(m, n) = Old(r, j)
      BY <3>1, <3>2 DEF Apart
    <3>4. n \in Int /\ j \in Int /\ i \in Int
      BY <1>1
    <3> QED
      BY <2>3, <3>3, <3>4
  <2> QED
    BY <2>1, <2>2, <2>3
<1> QED
  BY <1>5 DEF Apart, q2

\* What a list's links say of its own nodes, and of no others.
LEMMA ChainedFrame ==
    ASSUME NEW k, NEW new, NEW m \in Lists, NEW s \in Seq(Threads), Chained(k, m, s),
           \A n \in 0..Len(s) + 1 : new[Node(m, s, n)] = k[Node(m, s, n)]
    PROVE  Chained(new, m, s)
<1>1. Len(s) \in Nat
  OBVIOUS
<1>2. ASSUME NEW n \in 0..Len(s)
      PROVE  /\ new[Node(m, s, n)].next = Node(m, s, n + 1)
             /\ new[Node(m, s, n + 1)].prev = Node(m, s, n)
  <2>1. n \in 0..Len(s) + 1 /\ n + 1 \in 0..Len(s) + 1
    BY <1>1
  <2> QED
    BY <2>1 DEF Chained
<1> QED
  BY <1>2 DEF Chained

LEMMA InsertedChained ==
    ASSUME NEW k, NEW new, NEW l \in Lists, NEW s \in Seq(Threads), NEW s2,
           NEW i, NEW t \in Threads, Inserted(s, s2, i, t), Chained(k, l, s),
           \A n, j \in 0..Len(s) + 1 : Node(l, s, n) = Node(l, s, j) => n = j,
           NEW p, p = Node(l, s, i), NEW b, b = Node(l, s, i + 1),
           new[t].prev = p /\ new[t].next = b,
           new[p].prev = k[p].prev /\ new[p].next = t,
           new[b].prev = t /\ new[b].next = k[b].next,
           \A n \in 0..Len(s) + 1 : n # i /\ n # i + 1 => new[Node(l, s, n)] = k[Node(l, s, n)]
    PROVE  Chained(new, l, s2)
<1>1. Len(s) \in Nat /\ i \in 0..Len(s) /\ Len(s2) = Len(s) + 1
  BY DEF Inserted
<1>2. /\ Node(l, s2, i + 1) = t
      /\ \A n \in 0..i : Node(l, s2, n) = Node(l, s, n)
      /\ \A n \in i + 1..Len(s) + 1 : Node(l, s2, n + 1) = Node(l, s, n)
  BY InsertedNodes
<1>3. /\ \A n \in 0..Len(s) : k[Node(l, s, n)].next = Node(l, s, n + 1)
      /\ \A n \in 0..Len(s) : k[Node(l, s, n + 1)].prev = Node(l, s, n)
  BY DEF Chained
<1>4. ASSUME NEW n \in 0..Len(s2)
      PROVE  /\ new[Node(l, s2, n)].next = Node(l, s2, n + 1)
             /\ new[Node(l, s2, n + 1)].prev = Node(l, s2, n)
  <2>1. CASE n < i
    <3>1. /\ n \in 0..i /\ n + 1 \in 0..i /\ n \in 0..Len(s)
          /\ n \in 0..Len(s) + 1 /\ n + 1 \in 0..Len(s) + 1 /\ n # i /\ n # i + 1
          /\ n + 1 # i + 1
      BY <1>1, <2>1
    <3>2. Node(l, s2, n) = Node(l, s, n) /\ Node(l, s2, n + 1) = Node(l, s, n + 1)
      BY <1>2, <3>1
    <3>3. new[Node(l, s, n)] = k[Node(l, s, n)]
      BY <3>1
    <3>4. new[Node(l, s, n + 1)].prev = k[Node(l, s, n + 1)].prev
      BY <3>1
    <3> QED
      BY <1>3, <3>1, <3>2, <3>3, <3>4
  <2>2. CASE n = i
    BY <1>1, <1>2, <2>2
  <2>3. CASE n = i + 1
    <3>1. i + 1 \in i + 1..Len(s) + 1
      BY <1>1
    <3>2. Node(l, s2, n) = t /\ Node(l, s2, n + 1) = b
      BY <1>2, <2>3, <3>1
    <3> QED
      BY <3>2
  <2>4. CASE n > i + 1
    <3> DEFINE o == n - 1
    <3>1. /\ n = o + 1 /\ o \in i + 1..Len(s) + 1 /\ n \in i + 1..Len(s) + 1
          /\ o \in 0..Len(s) /\ o \in 0..Len(s) + 1 /\ n \in 0..Len(s) + 1
          /\ o # i /\ n # i /\ n # i + 1
      BY <1>1, <2>4
    <3> HIDE DEF o
    <3>2. Node(l, s2, n) = Node(l, s, o) /\ Node(l, s2, n + 1) = Node(l, s, n)
      BY <1>2, <3>1
    <3>3. new[Node(l, s, n)] = k[Node(l, s, n)]
      BY <3>1
    <3>4. new[Node(l, s, o)].next = k[Node(l, s, o)].next
      BY <3>1
    <3> QED
      BY <1>3, <3>1, <3>2, <3>3, <3>4
  <2> QED
    BY <1>1, <2>1, <2>2, <2>3, <2>4
<1> QED
  BY <1>4 DEF Chained

\* After new, list l is s2 and t is linked.
Puts(k, q, new, l, s2, t) ==
    /\ ListsHold(new, [q EXCEPT ![l] = s2])
    /\ DOMAIN new = DOMAIN k \cup {t}

\* list_insert_before of a tag that is in no list, before the element behind
\* the first i of list l.
LEMMA InsertHolds ==
    ASSUME NEW k, NEW q, ListsHold(k, q), DOMAIN q = Lists,
           NEW l \in Lists, NEW t \in Threads, InNone(q, t),
           NEW s2, NEW i, Inserted(q[l], s2, i, t),
           NEW new, new = InsertBefore(k, Node(l, q[l], i + 1), t)
    PROVE  Puts(k, q, new, l, s2, t)
<1> DEFINE b == Node(l, q[l], i + 1)
           p == Node(l, q[l], i)
           q2 == [q EXCEPT ![l] = s2]
<1>1. /\ k \in [DOMAIN k -> Links]
      /\ Ends \subseteq DOMAIN k /\ DOMAIN k \subseteq Tags /\ IsFiniteSet(DOMAIN k)
      /\ \A e \in DOMAIN k : k[e].next \in DOMAIN k \cup {Nil}
      /\ Apart(q)
      /\ \A m \in Lists :
            /\ q[m] \in Seq(Threads)
            /\ \A n \in 1..Len(q[m]) : q[m][n] \in DOMAIN k
            /\ Chained(k, m, q[m])
            /\ k[ListTail(m)].next = Nil
  BY DEF ListsHold, Links
<1>2. Len(q[l]) \in Nat /\ i \in 0..Len(q[l])
  BY <1>1 DEF Inserted
<1>3. i \in 0..Len(q[l]) + 1 /\ i + 1 \in 0..Len(q[l]) + 1 /\ i # i + 1
  BY <1>2
<1>4. /\ b \in DOMAIN k /\ p \in DOMAIN k /\ b \in Tags /\ p \in Tags
  BY <1>1, <1>3, NodesLinked
<1>5. p = k[b].prev
  <2>1. Chained(k, l, q[l])
    BY <1>1
  <2> QED
    BY <1>2, <2>1 DEF Chained
<1>6. ASSUME NEW m \in Lists, NEW n \in 0..Len(q[m]) + 1
      PROVE  /\ Node(m, q[m], n) # t
             /\ Node(m, q[m], n) = p => m = l /\ n = i
             /\ Node(m, q[m], n) = b => m = l /\ n = i + 1
  <2>1. Len(q[m]) \in Nat /\ (n = 0 \/ n = Len(q[m]) + 1 \/ n \in 1..Len(q[m]))
    BY <1>1, NodeFacts
  <2>2. Node(m, q[m], n) # t
    <3>1. CASE n \in 1..Len(q[m])
      BY <1>1, <3>1, NodeFacts DEF InNone, InList
    <3>2. CASE n = 0 \/ n = Len(q[m]) + 1
      BY <1>1, <3>2, NodeFacts, EndsFacts
    <3> QED
      BY <2>1, <3>1, <3>2
  <2>3. Node(m, q[m], n) = p => m = l /\ n = i
    BY <1>1, <1>3, NodesApart
  <2>4. Node(m, q[m], n) = b => m = l /\ n = i + 1
    BY <1>1, <1>3, NodesApart
  <2> QED
    BY <2>2, <2>3, <2>4
<1>7. p # b /\ t # b /\ t # p /\ t \in Tags
  BY <1>3, <1>6 DEF Tags
<1> HIDE DEF b, p
<1>8. /\ DOMAIN new = DOMAIN k \cup {t}
      /\ new \in [DOMAIN new -> Links]
      /\ new[t].prev = p /\ new[t].next = b
      /\ new[p].prev = k[p].prev /\ new[p].next = t
      /\ new[b].prev = t /\ new[b].next = k[b].next
      /\ \A e \in DOMAIN k \ {t, p, b} : new[e] = k[e]
  <2>1. new = InsertBefore(k, b, t)
    BY DEF b
  <2>2. k \in [DOMAIN k -> Links]
    BY <1>1
  <2>3. Spliced(k, new, t, p, b)
    BY <1>4, <1>5, <1>7, <2>1, <2>2, InsertFields
  <2> QED
    BY <2>3 DEF Spliced
<1>9. /\ Ends \subseteq DOMAIN new /\ DOMAIN new \subseteq Tags
      /\ IsFiniteSet(DOMAIN new)
  BY <1>1, <1>7, <1>8, FS_AddElement
<1>10. ASSUME NEW e \in DOMAIN new
       PROVE  new[e].next \in DOMAIN new \cup {Nil}
  <2>1. CASE e \in {t, p, b}
    BY <1>1, <1>4, <1>8, <2>1
  <2>2. CASE e \notin {t, p, b}
    BY <1>1, <1>8, <2>2
  <2> QED
    BY <2>1, <2>2
<1>11. Apart(q2)
  BY <1>1, InsertedApart
<1>12. q2[l] = s2 /\ \A m \in Lists \ {l} : q2[m] = q[m]
  OBVIOUS
<1> HIDE DEF q2
<1>13. ASSUME NEW m \in Lists, NEW n \in 0..Len(q[m]) + 1,
              ~(m = l /\ (n = i \/ n = i + 1))
       PROVE  new[Node(m, q[m], n)] = k[Node(m, q[m], n)]
  <2>1. Node(m, q[m], n) \in DOMAIN k
    BY NodesLinked
  <2>2. Node(m, q[m], n) \notin {t, p, b}
    BY <1>6, <1>13
  <2> QED
    BY <1>8, <2>1, <2>2
<1>14. ASSUME NEW m \in Lists, m # l
       PROVE  Chained(new, m, q[m])
  <2>1. \A n \in 0..Len(q[m]) + 1 : new[Node(m, q[m], n)] = k[Node(m, q[m], n)]
    BY <1>13, <1>14
  <2> QED
    BY <1>1, <2>1, ChainedFrame
<1>15. Chained(new, l, s2)
  <2>1. ASSUME NEW n \in 0..Len(q[l]) + 1, NEW j \in 0..Len(q[l]) + 1,
               Node(l, q[l], n) = Node(l, q[l], j)
        PROVE  n = j
    BY <1>1, <2>1, NodesApart
  <2>2. ASSUME NEW n \in 0..Len(q[l]) + 1, n # i, n # i + 1
        PROVE  new[Node(l, q[l], n)] = k[Node(l, q[l], n)]
    BY <1>13, <2>2
  <2>3. p = Node(l, q[l], i) /\ b = Node(l, q[l], i + 1)
    BY DEF p, b
  <2>4. q[l] \in Seq(Threads) /\ Chained(k, l, q[l])
    BY <1>1
  <2> QED
    BY <1>8, <2>1, <2>2, <2>3, <2>4, InsertedChained
<1>16. ASSUME NEW m \in Lists
       PROVE  new[ListTail(m)].next = Nil
  <2>1. /\ ListTail(m) = Node(m, q[m], Len(q[m]) + 1)
        /\ Len(q[m]) \in Nat /\ Len(q[m]) + 1 \in 0..Len(q[m]) + 1
    BY <1>1, NodeFacts
  <2>2. ListTail(m) # p
    BY <1>2, <1>6, <2>1
  <2>3. ListTail(m) # t
    BY <1>6, <2>1
  <2>4. ListTail(m) \in DOMAIN k
    BY <1>1, EndsFacts
  <2>5. k[ListTail(m)].next = Nil
    BY <1>1
  <2>6. CASE ListTail(m) = b
    BY <1>8, <2>5, <2>6
  <2>7. CASE ListTail(m) # b
    BY <1>8, <2>2, <2>3, <2>4, <2>5, <2>7
  <2> QED
    BY <2>6, <2>7
<1>17. ASSUME NEW m \in Lists
       PROVE  /\ q2[m] \in Seq(Threads)
              /\ \A n \in 1..Len(q2[m]) : q2[m][n] \in DOMAIN new
              /\ Chained(new, m, q2[m])
  <2>1. CASE m # l
    BY <1>1, <1>8, <1>12, <1>14, <2>1
  <2>2. CASE m = l
    <3>1. \A e : InList(s2, e) <=> InList(q[l], e) \/ e = t
      BY <1>1, InsertedMembers
    <3>2. \A e : InList(s2, e) => e \in DOMAIN new
      BY <1>1, <1>8, <3>1 DEF InList
    <3>3. s2 \in Seq(Threads)
      BY DEF Inserted
    <3> QED
      BY <1>12, <1>15, <2>2, <3>2, <3>3 DEF InList
  <2> QED
    BY <2>1, <2>2
<1>18. ListsHold(new, q2)
  <2>1. new \in [DOMAIN new -> [prev : Tags \cup {Nil}, next : Tags \cup {Nil}]]
    BY <1>8 DEF Links
  <2> QED
    BY <1>9, <1>10, <1>11, <1>16, <1>17, <2>1 DEF ListsHold
<1> QED
  BY <1>8, <1>18 DEF q2, Puts

\* list_append.
LEMMA AppendHolds ==
    ASSUME NEW k, NEW q, ListsHold(k, q), DOMAIN q = Lists,
           NEW l \in Lists, NEW t \in Threads, InNone(q, t)
    PROVE  /\ ListsHold(ListAppend(k, l, t), [q EXCEPT ![l] = Append(q[l], t)])
           /\ DOMAIN ListAppend(k, l, t) = DOMAIN k \cup {t}
           /\ \A e : InList(Append(q[l], t), e) <=> InList(q[l], e) \/ e = t
<1> DEFINE s == q[l]
           s2 == Append(s, t)
<1>1. s \in Seq(Threads)
  BY DEF ListsHold
<1>2. /\ s2 \in Seq(Threads) /\ Len(s) \in Nat /\ Len(s2) = Len(s) + 1
      /\ s2[Len(s) + 1] = t
      /\ \A n \in 1..Len(s) : s2[n] = s[n]
  BY <1>1
<1> HIDE DEF s2
<1>3. Inserted(s, s2, Len(s), t)
  BY <1>2 DEF Inserted
<1>4. ListTail(l) = Node(l, s, Len(s) + 1)
  BY <1>1, NodeFacts
<1> DEFINE new == InsertBefore(k, Node(l, s, Len(s) + 1), t)
<1>5. ListAppend(k, l, t) = new
  BY <1>4 DEF ListAppend
<1> HIDE DEF new
<1>6. Puts(k, q, new, l, s2, t)
  BY <1>3, InsertHolds DEF new
<1>7. \A e : InList(s2, e) <=> InList(s, e) \/ e = t
  BY <1>1, <1>3, InsertedMembers
<1> QED
  BY <1>5, <1>6, <1>7 DEF s2, Puts

\* list_push.
LEMMA PushHolds ==
    ASSUME NEW k, NEW q, ListsHold(k, q), DOMAIN q = Lists,
           NEW l \in Lists, NEW t \in Threads, InNone(q, t)
    PROVE  /\ ListsHold(ListPush(k, l, t), [q EXCEPT ![l] = <<t>> \o q[l]])
           /\ DOMAIN ListPush(k, l, t) = DOMAIN k \cup {t}
           /\ \A e : InList(<<t>> \o q[l], e) <=> InList(q[l], e) \/ e = t
<1> DEFINE s == q[l]
           s2 == <<t>> \o s
<1>1. s \in Seq(Threads) /\ Chained(k, l, s)
  BY DEF ListsHold
<1>2. /\ s2 \in Seq(Threads) /\ Len(s) \in Nat /\ Len(s2) = Len(s) + 1
      /\ s2[1] = t
      /\ \A n \in 1..Len(s) : s2[n + 1] = s[n]
  BY <1>1
<1> HIDE DEF s2
<1>3. Inserted(s, s2, 0, t)
  BY <1>2 DEF Inserted
<1>4. k[ListHead(l)].next = Node(l, s, 0 + 1)
  <2>1. 0 \in 0..Len(s)
    BY <1>2
  <2>2. Node(l, s, 0) = ListHead(l)
    BY <1>1, NodeFacts
  <2> QED
    BY <1>1, <2>1, <2>2 DEF Chained
<1> DEFINE new == InsertBefore(k, Node(l, s, 0 + 1), t)
<1>5. ListPush(k, l, t) = new
  BY <1>4 DEF ListPush
<1> HIDE DEF new
<1>6. Puts(k, q, new, l, s2, t)
  BY <1>3, InsertHolds DEF new
<1>7. \A e : InList(s2, e) <=> InList(s, e) \/ e = t
  BY <1>1, <1>3, InsertedMembers
<1> QED
  BY <1>5, <1>6, <1>7 DEF s2, Puts

\* list_empty, and what list_pop takes.
LEMMA FirstOf ==
    ASSUME NEW k, NEW q, ListsHold(k, q), NEW l \in Lists
    PROVE  /\ ListEmpty(k, l) <=> q[l] = <<>>
           /\ First(k, l) \in DOMAIN k
           /\ q[l] # <<>> => First(k, l) = Head(q[l]) /\ First(k, l) \in Threads
           /\ q[l] = <<>> => First(k, l) = ListTail(l)
<1> DEFINE s == q[l]
<1>1. s \in Seq(Threads) /\ Chained(k, l, s) /\ Ends \subseteq DOMAIN k
      /\ \A n \in 1..Len(s) : s[n] \in DOMAIN k
  BY DEF ListsHold
<1>2. Len(s) \in Nat
  BY <1>1
<1>3. First(k, l) = Node(l, s, 1)
  <2>1. 0 \in 0..Len(s) /\ 0 + 1 = 1
    BY <1>2
  <2>2. Node(l, s, 0) = ListHead(l)
    BY <1>1, NodeFacts
  <2>3. k[Node(l, s, 0)].next = Node(l, s, 0 + 1)
    BY <1>1, <2>1 DEF Chained
  <2> QED
    BY <2>2, <2>3 DEF First
<1>4. ListEmpty(k, l) <=> First(k, l) = ListTail(l)
  BY DEF ListEmpty, First
<1>5. CASE s = <<>>
  <2>1. Len(s) = 0
    BY <1>5
  <2>2. First(k, l) = ListTail(l)
    BY <1>1, <1>3, <2>1, NodeFacts
  <2> QED
    BY <1>1, <1>4, <1>5, <2>2, EndsFacts
<1>6. CASE s # <<>>
  <2>1. 1 \in 1..Len(s) /\ Head(s) = s[1]
    BY <1>1, <1>6
  <2>2. First(k, l) = Head(s) /\ First(k, l) \in Threads /\ First(k, l) \in DOMAIN k
    BY <1>1, <1>3, <2>1, NodeFacts
  <2>3. ListTail(l) \notin Threads
    BY EndsFacts
  <2> QED
    BY <1>4, <1>6, <2>2, <2>3
<1> QED
  BY <1>5, <1>6

-----------------------------------------------------------------------------
(* The first element is removed.                                           *)

LEMMA TailNodes ==
    ASSUME NEW l \in Lists, NEW s \in Seq(Threads), s # <<>>
    PROVE  /\ Len(s) \in Nat \ {0}
           /\ Tail(s) \in Seq(Threads) /\ Len(Tail(s)) = Len(s) - 1
           /\ \A n \in 1..Len(s) - 1 : Tail(s)[n] = s[n + 1]
           /\ Node(l, Tail(s), 0) = Node(l, s, 0)
           /\ \A n \in 1..Len(s) : Node(l, Tail(s), n) = Node(l, s, n + 1)
<1>1. /\ Len(s) \in Nat \ {0}
      /\ Tail(s) \in Seq(Threads) /\ Len(Tail(s)) = Len(s) - 1
      /\ \A n \in 1..Len(s) - 1 : Tail(s)[n] = s[n + 1]
  OBVIOUS
<1>2. Node(l, Tail(s), 0) = Node(l, s, 0)
  BY DEF Node
<1>3. ASSUME NEW n \in 1..Len(s)
      PROVE  Node(l, Tail(s), n) = Node(l, s, n + 1)
  <2>1. CASE n = Len(s)
    <3>1. ~(n <= Len(Tail(s))) /\ ~(n + 1 <= Len(s)) /\ n # 0 /\ n + 1 # 0
      BY <1>1, <2>1
    <3> QED
      BY <3>1 DEF Node
  <2>2. CASE n # Len(s)
    <3> DEFINE a == Len(s)
               c == Len(Tail(s))
    <3>1. a \in Nat \ {0} /\ c = a - 1 /\ n \in 1..a /\ n # a
      BY <1>1, <2>2
    <3> HIDE DEF a, c
    <3>2. n \in 1..a - 1 /\ n <= c /\ n + 1 <= a /\ n # 0 /\ n + 1 # 0
      BY <3>1
    <3> USE DEF a, c
    <3>3. Tail(s)[n] = s[n + 1]
      BY <1>1, <3>2
    <3> QED
      BY <3>2, <3>3 DEF Node
  <2> QED
    BY <2>1, <2>2
<1> QED
  BY <1>1, <1>2, <1>3

LEMMA TailApart ==
    ASSUME NEW q, DOMAIN q = Lists, Apart(q), \A m \in Lists : q[m] \in Seq(Threads),
           NEW l \in Lists, q[l] # <<>>
    PROVE  Apart([q EXCEPT ![l] = Tail(q[l])])
<1> DEFINE q2 == [q EXCEPT ![l] = Tail(q[l])]
           Old(m, n) == IF m = l THEN n + 1 ELSE n
<1>1. /\ Len(q[l]) \in Nat \ {0}
      /\ Len(Tail(q[l])) = Len(q[l]) - 1
      /\ \A n \in 1..Len(q[l]) - 1 : Tail(q[l])[n] = q[l][n + 1]
  BY TailNodes
<1>2. q2[l] = Tail(q[l]) /\ \A m \in Lists \ {l} : q2[m] = q[m]
  OBVIOUS
<1> HIDE DEF q2
<1>3. ASSUME NEW m \in Lists, NEW n \in 1..Len(q2[m])
      PROVE  Old(m, n) \in 1..Len(q[m]) /\ q2[m][n] = q[m][Old(m, n)]
  BY <1>1, <1>2
<1>4. ASSUME NEW m \in Lists, NEW r \in Lists,
             NEW n \in 1..Len(q2[m]), NEW j \in 1..Len(q2[r]), q2[m][n] = q2[r][j]
      PROVE  m = r /\ n = j
  <2>1. q[m][Old(m, n)] = q[r][Old(r, j)]
    BY <1>3, <1>4
  <2>2. Old(m, n) \in 1..Len(q[m]) /\ Old(r, j) \in 1..Len(q[r])
    BY <1>3
  <2>3. m = r /\ Old(m, n) = Old(r, j)
    BY <2>1, <2>2 DEF Apart
  <2> QED
    BY <2>3
<1> QED
  BY <1>4 DEF Apart, q2

LEMMA TailChained ==
    ASSUME NEW k, NEW new, NEW l \in Lists, NEW s \in Seq(Threads), s # <<>>,
           Chained(k, l, s),
           Bypassed(k, new, Node(l, s, 0), Node(l, s, 2)),
           \A n \in 0..Len(s) + 1 : n > 2 => new[Node(l, s, n)] = k[Node(l, s, n)]
    PROVE  Chained(new, l, Tail(s))
<1> DEFINE p == Node(l, s, 0)
           b == Node(l, s, 2)
<1>1. /\ new[p].next = b /\ new[b].prev = p /\ new[b].next = k[b].next
      /\ \A n \in 3..Len(s) + 1 : new[Node(l, s, n)] = k[Node(l, s, n)]
  BY DEF Bypassed
<1>2. /\ Len(s) \in Nat \ {0} /\ Len(Tail(s)) = Len(s) - 1
      /\ Node(l, Tail(s), 0) = Node(l, s, 0)
      /\ \A n \in 1..Len(s) : Node(l, Tail(s), n) = Node(l, s, n + 1)
  BY TailNodes
<1>3. /\ \A n \in 0..Len(s) : k[Node(l, s, n)].next = Node(l, s, n + 1)
      /\ \A n \in 0..Len(s) : k[Node(l, s, n + 1)].prev = Node(l, s, n)
  BY DEF Chained
<1>4. ASSUME NEW n \in 0..Len(Tail(s))
      PROVE  /\ new[Node(l, Tail(s), n)].next = Node(l, Tail(s), n + 1)
             /\ new[Node(l, Tail(s), n + 1)].prev = Node(l, Tail(s), n)
  <2>1. CASE n = 0
    <3>1. 1 \in 1..Len(s) /\ n + 1 = 1 /\ 1 + 1 = 2
      BY <1>2, <2>1
    <3>2. Node(l, Tail(s), n) = p /\ Node(l, Tail(s), n + 1) = b
      BY <1>2, <2>1, <3>1
    <3> QED
      BY <1>1, <3>2
  <2>2. CASE n # 0
    <3> DEFINE a == n + 1
    <3>1. /\ n \in 1..Len(s) /\ a \in 1..Len(s) /\ a \in 0..Len(s) /\ a \in Nat
          /\ a + 1 \in 3..Len(s) + 1 /\ (a = 2 \/ a \in 3..Len(s) + 1)
      BY <1>2, <2>2
    <3>2. Node(l, Tail(s), n) = Node(l, s, a) /\ Node(l, Tail(s), a) = Node(l, s, a + 1)
      BY <1>2, <3>1
    <3>3. k[Node(l, s, a)].next = Node(l, s, a + 1) /\ k[Node(l, s, a + 1)].prev = Node(l, s, a)
      BY <1>3, <3>1
    <3> HIDE DEF a
    <3>4. new[Node(l, s, a + 1)] = k[Node(l, s, a + 1)]
      BY <1>1, <3>1
    <3>5. new[Node(l, s, a)].next = k[Node(l, s, a)].next
      BY <1>1, <3>1
    <3> QED
      BY <3>2, <3>3, <3>4, <3>5 DEF a
  <2> QED
    BY <2>1, <2>2
<1> QED
  BY <1>4 DEF Chained

\* After new, list l is without its first element, which keeps its links.
Takes(k, q, new, l) ==
    /\ ListsHold(new, [q EXCEPT ![l] = Tail(q[l])])
    /\ DOMAIN new = DOMAIN k

\* list_pop: list_remove of the first element.
LEMMA RemoveHolds ==
    ASSUME NEW k, NEW q, ListsHold(k, q), DOMAIN q = Lists,
           NEW l \in Lists, q[l] # <<>>,
           NEW new, new = ListRemove(k, First(k, l))
    PROVE  Takes(k, q, new, l)
<1> DEFINE s == q[l]
           e == Node(l, s, 1)
           p == Node(l, s, 0)
           b == Node(l, s, 2)
           q2 == [q EXCEPT ![l] = Tail(q[l])]
<1>1. /\ k \in [DOMAIN k -> Links]
      /\ Ends \subseteq DOMAIN k /\ DOMAIN k \subseteq Tags /\ IsFiniteSet(DOMAIN k)
      /\ \A x \in DOMAIN k : k[x].next \in DOMAIN k \cup {Nil}
      /\ Apart(q)
      /\ \A m \in Lists :
            /\ q[m] \in Seq(Threads)
            /\ \A n \in 1..Len(q[m]) : q[m][n] \in DOMAIN k
            /\ Chained(k, m, q[m])
            /\ k[ListTail(m)].next = Nil
  BY DEF ListsHold, Links
<1>2. /\ s \in Seq(Threads) /\ s # <<>> /\ Chained(k, l, s)
      /\ Len(s) \in Nat \ {0}
      /\ Tail(s) \in Seq(Threads) /\ Len(Tail(s)) = Len(s) - 1
      /\ \A n \in 1..Len(s) - 1 : Tail(s)[n] = s[n + 1]
  BY <1>1, TailNodes
<1>3. /\ 0 \in 0..Len(s) + 1 /\ 1 \in 0..Len(s) + 1 /\ 2 \in 0..Len(s) + 1
      /\ 0 \in 0..Len(s) /\ 1 \in 0..Len(s) /\ 0 + 1 = 1 /\ 1 + 1 = 2 /\ 1 \in 1..Len(s)
  BY <1>2
<1>4. /\ e \in DOMAIN k /\ p \in DOMAIN k /\ b \in DOMAIN k
      /\ p \in Tags /\ b \in Tags
  BY <1>1, <1>3, NodesLinked
<1>5. p = k[e].prev /\ b = k[e].next
  <2>1. k[Node(l, s, 1)].next = Node(l, s, 1 + 1) /\ k[Node(l, s, 0 + 1)].prev = Node(l, s, 0)
    BY <1>2, <1>3 DEF Chained
  <2> QED
    BY <1>3, <2>1
<1>6. First(k, l) = e
  <2>1. Head(s) = s[1]
    BY <1>2
  <2> QED
    BY <1>2, <1>3, <2>1, FirstOf, NodeFacts
<1>7. ASSUME NEW m \in Lists, NEW n \in 0..Len(q[m]) + 1
      PROVE  /\ Node(m, q[m], n) = p => m = l /\ n = 0
             /\ Node(m, q[m], n) = e => m = l /\ n = 1
             /\ Node(m, q[m], n) = b => m = l /\ n = 2
  <2>1. ASSUME NEW i \in 0..Len(q[l]) + 1, Node(m, q[m], n) = Node(l, q[l], i)
        PROVE  m = l /\ n = i
    <3>1. Apart(q) /\ \A r \in Lists : q[r] \in Seq(Threads)
      BY <1>1
    <3> QED
      BY <2>1, <3>1, NodesApart
  <2> QED
    BY <1>3, <2>1
<1>8. p # e /\ b # e /\ b # p
  BY <1>3, <1>7
<1> HIDE DEF e, p, b
<1>9. Bypassed(k, new, p, b)
  <2>1. new = ListRemove(k, e) /\ k \in [DOMAIN k -> Links]
    BY <1>1, <1>6
  <2> QED
    BY <1>4, <1>5, <1>8, <2>1, RemoveFields
<1>10. /\ DOMAIN new = DOMAIN k
       /\ new \in [DOMAIN new -> Links]
       /\ new[p].prev = k[p].prev /\ new[p].next = b
       /\ new[b].prev = p /\ new[b].next = k[b].next
       /\ \A x \in DOMAIN k \ {p, b} : new[x] = k[x]
  BY <1>9 DEF Bypassed
<1>11. ASSUME NEW x \in DOMAIN new
       PROVE  new[x].next \in DOMAIN new \cup {Nil}
  <2>1. CASE x \in {p, b}
    BY <1>1, <1>4, <1>10, <2>1
  <2>2. CASE x \notin {p, b}
    BY <1>1, <1>10, <2>2
  <2> QED
    BY <2>1, <2>2
<1>12. Apart(q2)
  BY <1>1, TailApart
<1>13. q2[l] = Tail(s) /\ \A m \in Lists \ {l} : q2[m] = q[m]
  OBVIOUS
<1> HIDE DEF q2
<1>14. ASSUME NEW m \in Lists, NEW n \in 0..Len(q[m]) + 1, ~(m = l /\ (n = 0 \/ n = 2))
       PROVE  new[Node(m, q[m], n)] = k[Node(m, q[m], n)]
  <2>1. Node(m, q[m], n) \in DOMAIN k
    BY NodesLinked
  <2> QED
    BY <1>7, <1>10, <1>14, <2>1
<1>15. ASSUME NEW m \in Lists, m # l
       PROVE  Chained(new, m, q[m])
  <2>1. \A n \in 0..Len(q[m]) + 1 : new[Node(m, q[m], n)] = k[Node(m, q[m], n)]
    BY <1>14, <1>15
  <2> QED
    BY <1>1, <2>1, ChainedFrame
<1>16. Chained(new, l, Tail(s))
  <2>1. ASSUME NEW n \in 0..Len(s) + 1, n > 2
        PROVE  new[Node(l, s, n)] = k[Node(l, s, n)]
    BY <1>14, <2>1
  <2>2. Bypassed(k, new, Node(l, s, 0), Node(l, s, 2))
    BY <1>9 DEF p, b
  <2> HIDE DEF s
  <2> QED
    BY <1>2, <2>1, <2>2, TailChained
<1>17. ASSUME NEW m \in Lists
       PROVE  new[ListTail(m)].next = Nil
  <2>1. /\ ListTail(m) = Node(m, q[m], Len(q[m]) + 1)
        /\ Len(q[m]) \in Nat /\ Len(q[m]) + 1 \in 0..Len(q[m]) + 1 /\ Len(q[m]) + 1 # 0
    BY <1>1, NodeFacts
  <2>2. ListTail(m) # p
    BY <1>7, <2>1
  <2>3. ListTail(m) \in DOMAIN k /\ k[ListTail(m)].next = Nil
    BY <1>1, EndsFacts
  <2>4. CASE ListTail(m) = b
    BY <1>10, <2>3, <2>4
  <2>5. CASE ListTail(m) # b
    BY <1>10, <2>2, <2>3, <2>5
  <2> QED
    BY <2>4, <2>5
<1>18. ASSUME NEW m \in Lists
       PROVE  /\ q2[m] \in Seq(Threads)
              /\ \A n \in 1..Len(q2[m]) : q2[m][n] \in DOMAIN new
              /\ Chained(new, m, q2[m])
  <2>1. CASE m # l
    BY <1>1, <1>10, <1>13, <1>15, <2>1
  <2>2. CASE m = l
    <3>1. ASSUME NEW n \in 1..Len(Tail(s))
          PROVE  Tail(s)[n] \in DOMAIN new
      <4>1. Tail(s)[n] = s[n + 1] /\ n + 1 \in 1..Len(s)
        BY <1>2
      <4> QED
        BY <1>1, <1>10, <4>1
    <3> QED
      BY <1>2, <1>13, <1>16, <2>2, <3>1
  <2> QED
    BY <2>1, <2>2
<1>19. ListsHold(new, q2)
  <2>1. new \in [DOMAIN new -> [prev : Tags \cup {Nil}, next : Tags \cup {Nil}]]
    BY <1>10 DEF Links
  <2>2. Ends \subseteq DOMAIN new /\ DOMAIN new \subseteq Tags /\ IsFiniteSet(DOMAIN new)
    BY <1>1, <1>10
  <2> QED
    BY <1>11, <1>12, <1>17, <1>18, <2>1, <2>2 DEF ListsHold
<1> QED
  BY <1>10, <1>19 DEF q2, Takes


\* What is dropped of the links has left the lists.
LEMMA RestrictHolds ==
    ASSUME NEW k, NEW q, ListsHold(k, q),
           NEW D \in SUBSET DOMAIN k, Ends \subseteq D,
           \A l \in Lists : \A i \in 1..Len(q[l]) : q[l][i] \in D,
           \A e \in D \cap Threads : \E l \in Lists : InList(q[l], e)
    PROVE  ListsHold(Restrict(k, D), q)
<1> DEFINE new == Restrict(k, D)
<1>1. /\ k \in [DOMAIN k -> Links]
      /\ DOMAIN k \subseteq Tags /\ IsFiniteSet(DOMAIN k)
      /\ Apart(q)
      /\ \A m \in Lists :
            /\ q[m] \in Seq(Threads)
            /\ Chained(k, m, q[m])
            /\ k[ListTail(m)].next = Nil
  BY DEF ListsHold, Links
<1>2. DOMAIN new = D /\ \A e \in D : new[e] = k[e]
  BY DEF Restrict
<1>3. new \in [D -> Links]
  BY <1>1 DEF Restrict
<1> HIDE DEF new
<1>4. ASSUME NEW m \in Lists, NEW n \in 0..Len(q[m]) + 1
      PROVE  Node(m, q[m], n) \in D
  <2>1. Len(q[m]) \in Nat /\ (n = 0 \/ n = Len(q[m]) + 1 \/ n \in 1..Len(q[m]))
    BY <1>1, NodeFacts
  <2> QED
    BY <1>1, <2>1, NodeFacts, EndsFacts
<1>5. ASSUME NEW e \in D
      PROVE  \E m \in Lists : \E n \in 0..Len(q[m]) + 1 : e = Node(m, q[m], n)
  <2>1. CASE e \in Threads
    <3>1. PICK m \in Lists : InList(q[m], e)
      BY <2>1
    <3>2. PICK n \in 1..Len(q[m]) : q[m][n] = e
      BY <3>1 DEF InList
    <3>3. Len(q[m]) \in Nat /\ Node(m, q[m], n) = e
      BY <1>1, <3>2, NodeFacts
    <3>4. n \in 0..Len(q[m]) + 1
      BY <3>3
    <3> QED
      BY <3>3, <3>4
  <2>2. CASE e \in Ends
    <3>1. PICK m \in Lists : e = ListHead(m) \/ e = ListTail(m)
      BY <2>2, EndsFacts
    <3>2. /\ Len(q[m]) \in Nat
          /\ Node(m, q[m], 0) = ListHead(m) /\ Node(m, q[m], Len(q[m]) + 1) = ListTail(m)
      BY <1>1, NodeFacts
    <3>3. 0 \in 0..Len(q[m]) + 1 /\ Len(q[m]) + 1 \in 0..Len(q[m]) + 1
      BY <3>2
    <3> QED
      BY <3>1, <3>2, <3>3
  <2> QED
    BY <1>1, <2>1, <2>2 DEF Tags
<1>6. ASSUME NEW e \in D
      PROVE  new[e].next \in D \cup {Nil}
  <2>1. PICK m \in Lists, n \in Nat : n \in 0..Len(q[m]) + 1 /\ e = Node(m, q[m], n)
    BY <1>5
  <2>2. new[e] = k[e] /\ Len(q[m]) \in Nat
    BY <1>1, <1>2, NodeFacts
  <2>3. CASE n = Len(q[m]) + 1
    <3>1. e = ListTail(m)
      BY <1>1, <2>1, <2>3, NodeFacts
    <3> QED
      BY <1>1, <2>2, <3>1
  <2>4. CASE n # Len(q[m]) + 1
    <3>1. n \in 0..Len(q[m]) /\ n + 1 \in 0..Len(q[m]) + 1
      BY <2>1, <2>2, <2>4
    <3>2. k[e].next = Node(m, q[m], n + 1)
      BY <1>1, <2>1, <3>1 DEF Chained
    <3> QED
      BY <1>4, <2>2, <3>1, <3>2
  <2> QED
    BY <2>3, <2>4
<1>7. ASSUME NEW m \in Lists
      PROVE  Chained(new, m, q[m]) /\ new[ListTail(m)].next = Nil
  <2>1. \A n \in 0..Len(q[m]) + 1 : new[Node(m, q[m], n)] = k[Node(m, q[m], n)]
    BY <1>2, <1>4
  <2>2. ListTail(m) \in D
    BY EndsFacts
  <2>3. Chained(new, m, q[m])
    BY <1>1, <2>1, ChainedFrame
  <2> QED
    BY <1>1, <1>2, <2>2, <2>3
<1>8. IsFiniteSet(D)
  BY <1>1, FS_Subset
<1>9. new \in [DOMAIN new -> [prev : Tags \cup {Nil}, next : Tags \cup {Nil}]]
  BY <1>2, <1>3 DEF Links
<1>10. D \subseteq Tags /\ Ends \subseteq D
  BY <1>1
<1>11. ListsHold(new, q)
  BY <1>1, <1>2, <1>6, <1>7, <1>8, <1>9, <1>10 DEF ListsHold
<1> QED
  BY <1>11 DEF new

-----------------------------------------------------------------------------
(* The walk of elem_find meets the elements of its list and no others.     *)

\* A list is no longer than there are tags.
LEMMA ListFits ==
    ASSUME NEW k, NEW q, ListsHold(k, q), NEW l \in Lists
    PROVE  /\ Cardinality(DOMAIN k) \in Nat
           /\ Len(q[l]) \in Nat
           /\ Len(q[l]) <= Cardinality(DOMAIN k)
<1> DEFINE s == q[l]
           N == Len(s)
           f == [i \in 1..N |-> s[i]]
<1>1. /\ s \in Seq(Threads) /\ IsFiniteSet(DOMAIN k)
      /\ \A i \in 1..N : s[i] \in DOMAIN k
      /\ \A i, j \in 1..N : s[i] = s[j] => i = j
  BY DEF ListsHold, Apart
<1>2. N \in Nat
  BY <1>1
<1> HIDE DEF s, N
<1>3. f \in Injection(1..N, DOMAIN k)
  <2>1. f \in [1..N -> DOMAIN k]
    BY <1>1
  <2>2. \A i, j \in 1..N : f[i] = f[j] => i = j
    BY <1>1
  <2> QED
    BY <2>1, <2>2 DEF Injection, IsInjective
<1> HIDE DEF f
<1>4. Cardinality(1..N) <= Cardinality(DOMAIN k)
  BY <1>1, <1>3, FS_Injection
<1>5. Cardinality(1..N) = N
  BY <1>2, FS_Interval
<1>6. Cardinality(DOMAIN k) \in Nat
  BY <1>1, FS_CardinalityType
<1> QED
  BY <1>2, <1>4, <1>5, <1>6 DEF s, N

\* After n steps a walk stands on the n-th element, or for ever on the tail.
LEMMA WalkMeets ==
    ASSUME NEW k, NEW q, ListsHold(k, q), NEW l \in Lists
    PROVE  /\ DOMAIN Walk(k, l) = 0..Cardinality(DOMAIN k)
           /\ \A n \in 0..Cardinality(DOMAIN k) :
                 Walk(k, l)[n] = Node(l, q[l], IF n <= Len(q[l]) THEN n + 1
                                               ELSE Len(q[l]) + 1)
<1> DEFINE s == q[l]
           N == Cardinality(DOMAIN k)
           K == Len(s)
           place == [n \in 0..N |-> Node(l, s, IF n <= K THEN n + 1 ELSE K + 1)]
           Step(at) == [n \in 0..N |->
                          IF n = 0 THEN First(k, l)
                          ELSE IF at[n - 1] = ListTail(l) THEN at[n - 1]
                          ELSE k[at[n - 1]].next]
           w == Walk(k, l)
<1>1. s \in Seq(Threads) /\ Chained(k, l, s) /\ Apart(q) /\ \A m \in Lists : q[m] \in Seq(Threads)
  BY DEF ListsHold
<1>2. N \in Nat /\ K \in Nat
  BY ListFits
<1>3. ListTail(l) = Node(l, s, K + 1) /\ First(k, l) = Node(l, s, 1)
  <2>1. ListTail(l) = Node(l, s, K + 1) /\ ListHead(l) = Node(l, s, 0)
    BY <1>1, NodeFacts
  <2>2. 0 \in 0..K /\ 0 + 1 = 1
    BY <1>2
  <2>3. k[Node(l, s, 0)].next = Node(l, s, 0 + 1)
    BY <1>1, <2>2 DEF Chained
  <2> QED
    BY <2>1, <2>2, <2>3 DEF First
<1>4. \A n \in 0..K : Node(l, s, n) # ListTail(l)
  <2> TAKE n \in 0..K
  <2>1. n \in 0..K + 1 /\ K + 1 \in 0..K + 1 /\ n # K + 1
    BY <1>2
  <2>2. Node(l, s, n) = Node(l, s, K + 1) => n = K + 1
    BY <1>1, <2>1, NodesApart
  <2> QED
    BY <1>3, <2>1, <2>2
<1> HIDE DEF s, N, K
<1>5. ASSUME NEW n \in 1..N, NEW at, at[n - 1] = place[n - 1]
      PROVE  Step(at)[n] = place[n]
  <2>1. n - 1 \in 0..N /\ n \in 0..N /\ n # 0
    BY <1>2
  <2>2. Step(at)[n] = IF at[n - 1] = ListTail(l) THEN at[n - 1] ELSE k[at[n - 1]].next
    BY <2>1
  <2>3. CASE n <= K
    <3>1. /\ n - 1 <= K /\ (n - 1) + 1 = n /\ n \in 0..K
      BY <1>2, <2>3
    <3>2. place[n - 1] = Node(l, s, n) /\ place[n] = Node(l, s, n + 1)
      BY <2>1, <2>3, <3>1
    <3>3. k[Node(l, s, n)].next = Node(l, s, n + 1)
      BY <1>1, <3>1 DEF Chained, K
    <3> HIDE DEF place
    <3> QED
      BY <1>4, <1>5, <2>2, <3>1, <3>2, <3>3
  <2>4. CASE ~(n <= K)
    <3>1. n - 1 = K \/ ~(n - 1 <= K)
      BY <1>2, <2>4
    <3>2. place[n - 1] = Node(l, s, K + 1) /\ place[n] = Node(l, s, K + 1)
      BY <2>1, <2>4, <3>1
    <3> HIDE DEF place
    <3> QED
      BY <1>3, <1>5, <2>2, <3>2
  <2> QED
    BY <2>3, <2>4
<1>6. place[0] = First(k, l)
  BY <1>2, <1>3
<1>7. place = Step(place)
  <2>1. \A n \in 0..N : place[n] = Step(place)[n]
    <3> TAKE n \in 0..N
    <3>1. CASE n = 0
      BY <1>6, <3>1
    <3>2. CASE n # 0
      <4>1. n \in 1..N
        BY <1>2, <3>2
      <4> HIDE DEF place, Step
      <4> QED
        BY <1>5, <4>1
    <3> QED
      BY <3>1, <3>2
  <2> QED
    BY <2>1
<1>8. w = Step(w)
  <2>1. w = CHOOSE at : at = Step(at)
    BY DEF Walk, N
  <2> HIDE DEF w, Step, place
  <2> QED
    BY <1>7, <2>1
<1>9. DOMAIN w = 0..N
  <2> HIDE DEF w
  <2> QED
    BY <1>8
<1>10. w[0] = place[0]
  <2> HIDE DEF w, place
  <2>1. 0 \in 0..N
    BY <1>2
  <2> QED
    BY <1>6, <1>8, <2>1
<1> HIDE DEF w, place, Step
<1>11. \A n \in 0..N : w[n] = place[n]
  <2> DEFINE T == {n \in 0..N : w[n] # place[n]}
  <2>1. SUFFICES ASSUME T # {} PROVE FALSE
    OBVIOUS
  <2>2. T \subseteq Nat
    OBVIOUS
  <2>3. PICK n \in T : \A m \in T : n <= m
    BY <2>1, <2>2, LeastNat
  <2>4. n \in 0..N /\ w[n] # place[n] /\ n # 0
    BY <1>10, <2>3
  <2>5. n \in 1..N /\ n - 1 \in 0..N /\ ~(n <= n - 1)
    BY <1>2, <2>4
  <2>6. w[n - 1] = place[n - 1]
    BY <2>3, <2>5
  <2>7. Step(w)[n] = place[n]
    BY <1>5, <2>5, <2>6
  <2> QED
    BY <1>8, <2>4, <2>7
<1> QED
  BY <1>9, <1>11 DEF w, place, s, N, K

LEMMA FindsMembers ==
    ASSUME NEW k, NEW q, ListsHold(k, q), NEW l \in Lists, NEW t \in Threads
    PROVE  ElemFind(k, l, t) <=> InList(q[l], t)
<1> DEFINE s == q[l]
           N == Cardinality(DOMAIN k)
           K == Len(s)
<1>1. s \in Seq(Threads)
  BY DEF ListsHold
<1>2. N \in Nat /\ K \in Nat /\ K <= N
  BY ListFits
<1>3. /\ DOMAIN Walk(k, l) = 0..N
      /\ \A n \in 0..N : Walk(k, l)[n] = Node(l, s, IF n <= K THEN n + 1 ELSE K + 1)
  BY WalkMeets
<1>4. ListTail(l) = Node(l, s, K + 1) /\ ListTail(l) # t
  BY <1>1, NodeFacts, EndsFacts
<1>5. \A n \in 1..K : Node(l, s, n) = s[n]
  BY <1>1, NodeFacts
<1> HIDE DEF s, N, K
<1>6. ASSUME NEW n \in 0..N, Walk(k, l)[n] = t
      PROVE  \E i \in 1..K : s[i] = t
  <2>1. n <= K /\ n # K
    BY <1>2, <1>3, <1>4, <1>6
  <2>2. n + 1 \in 1..K
    BY <1>2, <2>1
  <2>3. s[n + 1] = t
    BY <1>3, <1>5, <1>6, <2>1, <2>2
  <2> QED
    BY <2>2, <2>3
<1>7. ASSUME NEW i \in 1..K, s[i] = t
      PROVE  \E n \in 0..N : Walk(k, l)[n] = t
  <2>1. i - 1 \in 0..N /\ i - 1 <= K /\ (i - 1) + 1 = i
    BY <1>2
  <2>2. Walk(k, l)[i - 1] = Node(l, s, i)
    BY <1>3, <2>1
  <2> QED
    BY <1>5, <1>7, <2>1, <2>2
<1> QED
  BY <1>3, <1>6, <1>7 DEF ElemFind, InList, s, N, K

\* What the links of a list keep when a search has ended.
LEMMA LinkedOnlyHolds ==
    ASSUME NEW k, NEW q, ListsHold(k, q)
    PROVE  /\ ListsHold(LinkedOnly(k), q)
           /\ DOMAIN LinkedOnly(k) \subseteq DOMAIN k
           /\ \A e \in DOMAIN LinkedOnly(k) \cap Threads : \E l \in Lists : InList(q[l], e)
<1> DEFINE D == {e \in DOMAIN k : e \in Threads => \E l \in Lists : ElemFind(k, l, e)}
<1>1. LinkedOnly(k) = Restrict(k, D)
  BY DEF LinkedOnly
<1>2. \A e \in D \cap Threads : \E l \in Lists : InList(q[l], e)
  BY FindsMembers
<1>3. Ends \subseteq D
  BY EndsFacts DEF ListsHold
<1>4. ASSUME NEW l \in Lists, NEW i \in 1..Len(q[l])
      PROVE  q[l][i] \in D
  <2>1. q[l][i] \in DOMAIN k /\ q[l] \in Seq(Threads)
    BY DEF ListsHold
  <2>2. q[l][i] \in Threads
    BY <2>1
  <2>3. InList(q[l], q[l][i])
    BY DEF InList
  <2> QED
    BY <2>1, <2>2, <2>3, FindsMembers
<1>5. D \subseteq DOMAIN k
  OBVIOUS
<1> HIDE DEF D
<1>6. ListsHold(Restrict(k, D), q)
  BY <1>2, <1>3, <1>4, <1>5, RestrictHolds
<1>7. DOMAIN Restrict(k, D) = D
  BY DEF Restrict
<1> QED
  BY <1>1, <1>2, <1>5, <1>6, <1>7


-----------------------------------------------------------------------------
(* The routines of the scheduler and of the semaphores keep the lists.     *)

With(f, e, x) == [f EXCEPT ![e] = x]

LEMMA QueuesFacts ==
    ASSUME NEW r, NEW w \in [Sems -> Seq(Threads)]
    PROVE  /\ DOMAIN Queues(r, w) = Lists
           /\ Queues(r, w)[ReadyList] = r
           /\ \A s \in Sems : Queues(r, w)[WaitersOf[s]] = w[s]
           /\ \A l \in Lists : l = ReadyList \/ \E s \in Sems : l = WaitersOf[s]
           /\ \A x : [Queues(r, w) EXCEPT ![ReadyList] = x] = Queues(x, w)
           /\ \A s \in Sems : \A x : With(Queues(r, w), WaitersOf[s], x) = Queues(r, With(w, s, x))
<1> DEFINE q == Queues(r, w)
<1>1. DOMAIN q = Lists
  BY DEF Queues
<1>2. q[ReadyList] = r
  BY ListsFacts DEF Queues
<1>3. \A s \in Sems : q[WaitersOf[s]] = w[s]
  BY ListsFacts DEF Queues
<1>4. \A l \in Lists : l = ReadyList \/ \E s \in Sems : l = WaitersOf[s]
  BY DEF Lists
<1>5. ASSUME NEW x
      PROVE  [q EXCEPT ![ReadyList] = x] = Queues(x, w)
  BY ListsFacts DEF Queues
<1>6. ASSUME NEW s \in Sems, NEW x
      PROVE  With(q, WaitersOf[s], x) = Queues(r, With(w, s, x))
  <2> DEFINE w2 == [w EXCEPT ![s] = x]
             q2 == [q EXCEPT ![WaitersOf[s]] = x]
  <2>1. w2[s] = x /\ \A u \in Sems \ {s} : w2[u] = w[u]
    OBVIOUS
  <2>2. \A l \in Lists : q2[l] = IF l = WaitersOf[s] THEN x ELSE q[l]
    BY <1>1
  <2>3. DOMAIN q2 = Lists /\ q2 = [l \in Lists |-> q2[l]]
    BY <1>1
  <2> HIDE DEF w2
  <2>4. \A l \in Lists : q2[l] = Queues(r, w2)[l]
    <3> TAKE l \in Lists
    <3>1. Queues(r, w2)[l] = IF l = ReadyList THEN r ELSE w2[SemOf(l)]
      BY DEF Queues
    <3>2. q[l] = IF l = ReadyList THEN r ELSE w[SemOf(l)]
      BY DEF Queues
    <3> HIDE DEF q, q2
    <3>3. CASE l = WaitersOf[s]
      <4>1. SemOf(l) = s /\ l # ReadyList
        BY <3>3, ListsFacts
      <4> QED
        BY <2>1, <2>2, <3>1, <3>3, <4>1
    <3>4. CASE l # WaitersOf[s] /\ l # ReadyList
      <4>1. SemOf(l) \in Sems /\ SemOf(l) # s
        BY <3>4, ListsFacts
      <4> QED
        BY <2>1, <2>2, <3>1, <3>2, <3>4, <4>1
    <3>5. CASE l = ReadyList
      <4>1. l # WaitersOf[s]
        BY <3>5, ListsFacts
      <4> QED
        BY <2>2, <3>1, <3>2, <3>5, <4>1
    <3> QED
      BY <3>3, <3>4, <3>5
  <2>5. Queues(r, w2) = [l \in Lists |-> Queues(r, w2)[l]]
    BY DEF Queues
  <2> HIDE DEF q2
  <2>6. q2 = Queues(r, w2)
    BY <2>3, <2>4, <2>5
  <2> QED
    BY <2>6 DEF q2, w2, With
<1> QED
  BY <1>1, <1>2, <1>3, <1>4, <1>5, <1>6

\* What is put into a list is not the new task.
Other(t) == t \in Threads /\ (Walking => t # making)

\* After new, the lists are q2, where t has joined list l.
Joins(k, q, new, q2, l, t) ==
    /\ ListsHold(new, q2)
    /\ DOMAIN new = DOMAIN k \cup {t}
    /\ \A m \in Lists : \A e : InList(q[m], e) => InList(q2[m], e)
    /\ InList(q2[l], t)

LEMMA InsertSound ==
    ASSUME NEW k, NEW q, Sound(k, q), NEW l \in Lists, NEW t, Other(t),
           NEW new, NEW q2, Joins(k, q, new, q2, l, t)
    PROVE  Sound(new, q2)
<1> USE DEF Joins
<1>1. CASE Walking
  BY <1>1 DEF Sound, Other
<1>2. CASE ~Walking
  <2>1. ASSUME NEW e \in DOMAIN new \cap Threads
        PROVE  \E m \in Lists : InList(q2[m], e)
    BY <1>2 DEF Sound
  <2> QED
    BY <1>2, <2>1 DEF Sound
<1> QED
  BY <1>1, <1>2

LEMMA SoundAppend ==
    ASSUME NEW k, NEW q, Sound(k, q), DOMAIN q = Lists,
           NEW l \in Lists, NEW t, Other(t), InNone(q, t)
    PROVE  Sound(ListAppend(k, l, t), [q EXCEPT ![l] = Append(q[l], t)])
<1> DEFINE new == ListAppend(k, l, t)
           q2 == [q EXCEPT ![l] = Append(q[l], t)]
<1>1. ListsHold(k, q) /\ t \in Threads
  BY DEF Sound, Other
<1>2. /\ ListsHold(new, q2)
      /\ DOMAIN new = DOMAIN k \cup {t}
      /\ \A e : InList(Append(q[l], t), e) <=> InList(q[l], e) \/ e = t
  BY <1>1, AppendHolds
<1>3. q2[l] = Append(q[l], t) /\ DOMAIN q2 = Lists /\ \A m \in Lists \ {l} : q2[m] = q[m]
  OBVIOUS
<1> HIDE DEF new, q2
<1>4. InList(q2[l], t) /\ \A m \in Lists : \A e : InList(q[m], e) => InList(q2[m], e)
  BY <1>2, <1>3
<1>5. Joins(k, q, new, q2, l, t)
  BY <1>2, <1>4 DEF Joins
<1>6. Sound(new, q2)
  BY <1>5, InsertSound
<1> QED
  BY <1>6 DEF new, q2

LEMMA SoundPush ==
    ASSUME NEW k, NEW q, Sound(k, q), DOMAIN q = Lists,
           NEW l \in Lists, NEW t, Other(t), InNone(q, t)
    PROVE  Sound(ListPush(k, l, t), [q EXCEPT ![l] = <<t>> \o q[l]])
<1> DEFINE new == ListPush(k, l, t)
           q2 == [q EXCEPT ![l] = <<t>> \o q[l]]
<1>1. ListsHold(k, q) /\ t \in Threads
  BY DEF Sound, Other
<1>2. /\ ListsHold(new, q2)
      /\ DOMAIN new = DOMAIN k \cup {t}
      /\ \A e : InList(<<t>> \o q[l], e) <=> InList(q[l], e) \/ e = t
  BY <1>1, PushHolds
<1>3. q2[l] = <<t>> \o q[l] /\ DOMAIN q2 = Lists /\ \A m \in Lists \ {l} : q2[m] = q[m]
  OBVIOUS
<1> HIDE DEF new, q2
<1>4. InList(q2[l], t) /\ \A m \in Lists : \A e : InList(q[m], e) => InList(q2[m], e)
  BY <1>2, <1>3
<1>5. Joins(k, q, new, q2, l, t)
  BY <1>2, <1>4 DEF Joins
<1>6. Sound(new, q2)
  BY <1>5, InsertSound
<1> QED
  BY <1>6 DEF new, q2

\* The first of a list is in none when it is taken.
LEMMA TailMembers ==
    ASSUME NEW q, Apart(q), DOMAIN q = Lists, \A m \in Lists : q[m] \in Seq(Threads),
           NEW l \in Lists, q[l] # <<>>
    PROVE  \A m \in Lists : \A e : InList([q EXCEPT ![l] = Tail(q[l])][m], e)
                                  <=> InList(q[m], e) /\ e # Head(q[l])
<1> DEFINE q2 == [q EXCEPT ![l] = Tail(q[l])]
           h == Head(q[l])
<1>1. NoDuplicates(q[l]) /\ q[l] \in Seq(Threads)
  BY DEF Apart, NoDuplicates
<1>2. /\ InList(q[l], h)
      /\ \A e : InList(q[l], e) <=> InList(Tail(q[l]), e) \/ e = h
      /\ ~InList(Tail(q[l]), h)
  BY <1>1, PopList
<1>3. q2[l] = Tail(q[l]) /\ \A m \in Lists \ {l} : q2[m] = q[m]
  OBVIOUS
<1> HIDE DEF h, q2
<1>4. ASSUME NEW m \in Lists, m # l
      PROVE  ~InList(q[m], h)
  BY <1>2, <1>4 DEF Apart, InList
<1>5. ASSUME NEW m \in Lists, NEW e
      PROVE  InList(q2[m], e) <=> InList(q[m], e) /\ e # h
  BY <1>2, <1>3, <1>4
<1> QED
  BY <1>5 DEF h, q2

LEMMA SoundPop ==
    ASSUME NEW k, NEW q, Sound(k, q), DOMAIN q = Lists, NEW l \in Lists, q[l] # <<>>
    PROVE  Sound(Popped(k, l), [q EXCEPT ![l] = Tail(q[l])])
<1> DEFINE e == First(k, l)
           cut == ListRemove(k, e)
           q2 == [q EXCEPT ![l] = Tail(q[l])]
<1>1. /\ ListsHold(k, q) /\ Apart(q) /\ \A m \in Lists : q[m] \in Seq(Threads)
      /\ \A m \in Lists : \A i \in 1..Len(q[m]) : q[m][i] \in DOMAIN k
  BY DEF Sound, ListsHold
<1>2. e = Head(q[l]) /\ e \in Threads
  BY <1>1, FirstOf
<1>3. \A m \in Lists : \A x : InList(q2[m], x) <=> InList(q[m], x) /\ x # e
  BY <1>1, <1>2, TailMembers
<1>4. Takes(k, q, cut, l)
  BY <1>1, RemoveHolds
<1>5. ListsHold(cut, q2) /\ DOMAIN cut = DOMAIN k
  BY <1>4 DEF Takes
<1> HIDE DEF e, cut, q2
<1>6. CASE Walking
  <2>1. Popped(k, l) = cut
    BY <1>6 DEF Popped, cut, e
  <2>2. Sound(cut, q2)
    BY <1>5, <1>6 DEF Sound
  <2> QED
    BY <2>1, <2>2 DEF q2
<1>7. CASE ~Walking
  <2> DEFINE D == DOMAIN k \ {e}
             new == Restrict(cut, D)
  <2>1. Popped(k, l) = new
    BY <1>7, <1>5 DEF Popped, Detach, cut, e
  <2>2. D \in SUBSET DOMAIN cut /\ DOMAIN new = D
    BY <1>5 DEF Restrict
  <2>3. Ends \subseteq D
    BY <1>2, <1>5, EndsFacts DEF ListsHold
  <2>4. ASSUME NEW m \in Lists, NEW i \in 1..Len(q2[m])
        PROVE  q2[m][i] \in D
    <3>1. InList(q2[m], q2[m][i])
      BY DEF InList
    <3>2. q2[m][i] # e
      BY <1>3, <3>1
    <3> QED
      BY <1>5, <3>2 DEF ListsHold
  <2>5. ASSUME NEW x \in D \cap Threads
        PROVE  \E m \in Lists : InList(q2[m], x)
    <3>1. PICK m \in Lists : InList(q[m], x)
      BY <1>7 DEF Sound
    <3> QED
      BY <1>3, <3>1
  <2> HIDE DEF D
  <2>6. ListsHold(new, q2)
    BY <1>5, <2>2, <2>3, <2>4, <2>5, RestrictHolds
  <2> HIDE DEF new
  <2>7. Sound(new, q2)
    BY <1>7, <2>2, <2>5, <2>6 DEF Sound
  <2> QED
    BY <2>1, <2>7 DEF q2
<1> QED
  BY <1>6, <1>7


LEMMA QueuesWithout ==
    ASSUME NEW r, NEW w \in [Sems -> Seq(Threads)], NEW t
    PROVE  InNone(Queues(r, w), t) <=> ~InList(r, t) /\ \A s \in Sems : ~InList(w[s], t)
<1> DEFINE q == Queues(r, w)
<1>1. /\ q[ReadyList] = r /\ \A s \in Sems : q[WaitersOf[s]] = w[s]
      /\ \A l \in Lists : l = ReadyList \/ \E s \in Sems : l = WaitersOf[s]
  BY QueuesFacts
<1>2. ReadyList \in Lists /\ \A s \in Sems : WaitersOf[s] \in Lists
  BY ListsFacts
<1> HIDE DEF q
<1>3. InNone(q, t) <=> ~InList(r, t) /\ \A s \in Sems : ~InList(w[s], t)
  BY <1>1, <1>2 DEF InNone
<1> QED
  BY <1>3 DEF q

LEMMA PopReady ==
    ASSUME NEW k, NEW r, NEW w \in [Sems -> Seq(Threads)],
           Sound(k, Queues(r, w)), r # <<>>
    PROVE  /\ ~ListEmpty(k, ReadyList)
           /\ Sound(Popped(k, ReadyList), Queues(Tail(r), w))
<1> DEFINE q == Queues(r, w)
<1>1. /\ DOMAIN q = Lists /\ q[ReadyList] = r
      /\ \A x : [q EXCEPT ![ReadyList] = x] = Queues(x, w)
  BY QueuesFacts
<1>2. ReadyList \in Lists /\ ListsHold(k, q) /\ Sound(k, q)
  BY ListsFacts DEF Sound
<1> HIDE DEF q
<1>3. ~ListEmpty(k, ReadyList)
  BY <1>1, <1>2, FirstOf
<1>4. Sound(Popped(k, ReadyList), [q EXCEPT ![ReadyList] = Tail(q[ReadyList])])
  BY <1>1, <1>2, SoundPop
<1> QED
  BY <1>1, <1>3, <1>4

\* schedule does with the links what Sync's Schedule does with the ready list.
LEMMA SoundScheduled ==
    ASSUME NEW st, NEW k, NEW r \in Seq(Threads), NEW w \in [Sems -> Seq(Threads)],
           Sound(k, Queues(r, w)),
           StillRunning(st) => InNone(Queues(r, w), current) /\ Other(current),
           ~StillRunning(st) /\ r = <<>> => InNone(Queues(r, w), Idle) /\ Other(Idle)
    PROVE  Sound(Scheduled(st, k), Queues(Tail(QueueAfter(st, r)), w))
<1> DEFINE q == Queues(r, w)
<1>1. /\ DOMAIN q = Lists /\ q[ReadyList] = r
      /\ \A x : [q EXCEPT ![ReadyList] = x] = Queues(x, w)
  BY QueuesFacts
<1>2. ReadyList \in Lists /\ ListsHold(k, q) /\ Sound(k, q)
  BY ListsFacts DEF Sound
<1> HIDE DEF q
<1>3. CASE StillRunning(st)
  <2> DEFINE new == ListAppend(k, ReadyList, current)
             r2 == Append(r, current)
  <2>1. Other(current) /\ InNone(q, current) /\ current \in Threads
    BY <1>3 DEF Other, q
  <2>2. Sound(new, [q EXCEPT ![ReadyList] = Append(q[ReadyList], current)])
    BY <1>1, <1>2, <2>1, SoundAppend
  <2>3. r2 # <<>>
    BY <2>1, AppendList
  <2> HIDE DEF new, r2
  <2>4. Sound(new, Queues(r2, w))
    BY <1>1, <2>2 DEF r2
  <2>5. ~ListEmpty(new, ReadyList) /\ Sound(Popped(new, ReadyList), Queues(Tail(r2), w))
    BY <2>3, <2>4, PopReady
  <2>6. Scheduled(st, k) = Popped(new, ReadyList)
    BY <1>3, <2>5 DEF Scheduled, new
  <2>7. QueueAfter(st, r) = r2
    BY <1>3, <2>3 DEF QueueAfter, r2
  <2> QED
    BY <2>5, <2>6, <2>7
<1>4. CASE ~StillRunning(st) /\ r # <<>>
  <2>1. ~ListEmpty(k, ReadyList) /\ Sound(Popped(k, ReadyList), Queues(Tail(r), w))
    BY <1>4, PopReady
  <2>2. Scheduled(st, k) = Popped(k, ReadyList)
    BY <1>4, <2>1 DEF Scheduled
  <2>3. QueueAfter(st, r) = r
    BY <1>4 DEF QueueAfter
  <2> QED
    BY <2>1, <2>2, <2>3
<1>5. CASE ~StillRunning(st) /\ r = <<>>
  <2> DEFINE new == ListPush(k, ReadyList, Idle)
             r2 == <<Idle>>
  <2>1. Other(Idle) /\ InNone(q, Idle) /\ Idle \in Threads
    BY <1>5 DEF Other, q
  <2>2. Sound(new, [q EXCEPT ![ReadyList] = <<Idle>> \o q[ReadyList]])
    BY <1>1, <1>2, <2>1, SoundPush
  <2>3. <<Idle>> \o q[ReadyList] = r2 /\ r2 # <<>>
    BY <1>1, <1>5, <2>1
  <2> HIDE DEF new, r2
  <2>4. Sound(new, Queues(r2, w))
    BY <1>1, <2>2, <2>3
  <2>5. Sound(Popped(new, ReadyList), Queues(Tail(r2), w))
    BY <2>3, <2>4, PopReady
  <2>6. ListEmpty(k, ReadyList)
    BY <1>1, <1>2, <1>5, FirstOf
  <2>7. Scheduled(st, k) = Popped(new, ReadyList)
    BY <1>5, <2>6 DEF Scheduled, new
  <2>8. QueueAfter(st, r) = r2
    BY <1>5 DEF QueueAfter, r2
  <2> QED
    BY <2>5, <2>7, <2>8
<1> QED
  BY <1>3, <1>4, <1>5

\* sema_up does with the links what Sync's SemaUp does with the lists.
LEMMA SoundUpped ==
    ASSUME NEW s \in Sems, waiters \in [Sems -> Seq(Threads)],
           Sound(links, Queues(ready, waiters)),
           waiters[s] # <<>> => Other(Head(waiters[s]))
    PROVE  /\ waiters[s] = <<>> => Sound(Upped(s), Queues(ready, waiters))
           /\ waiters[s] # <<>> =>
                 Sound(Upped(s), Queues(<<Head(waiters[s])>> \o ready,
                                        [waiters EXCEPT ![s] = Tail(waiters[s])]))
<1> DEFINE q == Queues(ready, waiters)
           l == WaitersOf[s]
<1>1. /\ DOMAIN q = Lists /\ q[ReadyList] = ready /\ q[l] = waiters[s]
      /\ \A x : With(q, l, x) = Queues(ready, With(waiters, s, x))
  BY QueuesFacts
<1>2. /\ ReadyList \in Lists /\ l \in Lists /\ l # ReadyList
      /\ ListsHold(links, q) /\ Sound(links, q)
      /\ Apart(q) /\ \A m \in Lists : q[m] \in Seq(Threads)
  BY ListsFacts DEF Sound, ListsHold
<1> HIDE DEF q
<1>3. CASE waiters[s] = <<>>
  <2>1. ListEmpty(links, l)
    BY <1>1, <1>2, <1>3, FirstOf
  <2>2. Upped(s) = links
    BY <2>1 DEF Upped
  <2> QED
    BY <1>2, <1>3, <2>2 DEF q
<1>4. CASE waiters[s] # <<>>
  <2> DEFINE h == Head(waiters[s])
             w2 == [waiters EXCEPT ![s] = Tail(waiters[s])]
             cut == Popped(links, l)
             q2 == [q EXCEPT ![l] = Tail(q[l])]
             new == ListPush(cut, ReadyList, h)
  <2>1. ~ListEmpty(links, l) /\ First(links, l) = h
    BY <1>1, <1>2, <1>4, FirstOf
  <2>2. Sound(cut, q2)
    BY <1>1, <1>2, <1>4, SoundPop
  <2>3. q2 = Queues(ready, w2)
    <3>1. q2 = With(q, l, Tail(waiters[s])) /\ w2 = With(waiters, s, Tail(waiters[s]))
      BY <1>1 DEF With
    <3> QED
      BY <1>1, <3>1
  <2>4. Tail(waiters[s]) \in Seq(Threads)
    BY <1>4, PopList
  <2>5. w2 \in [Sems -> Seq(Threads)]
    BY <2>4
  <2>6. InNone(q2, h)
    <3>1. \A m \in Lists : \A e : InList(q2[m], e) <=> InList(q[m], e) /\ e # Head(q[l])
      BY <1>1, <1>2, <1>4, TailMembers
    <3> HIDE DEF q2
    <3> QED
      BY <1>1, <3>1 DEF InNone
  <2>7. Upped(s) = new
    BY <2>1 DEF Upped
  <2>8. Other(h)
    BY <1>4
  <2> HIDE DEF h, w2, cut, q2, new
  <2>9. /\ DOMAIN q2 = Lists /\ q2[ReadyList] = ready
        /\ \A x : [q2 EXCEPT ![ReadyList] = x] = Queues(x, w2)
    <3> DEFINE q3 == Queues(ready, w2)
    <3>1. /\ DOMAIN q3 = Lists /\ q3[ReadyList] = ready
          /\ \A x : [q3 EXCEPT ![ReadyList] = x] = Queues(x, w2)
      BY <2>5, QueuesFacts
    <3> QED
      BY <2>3, <3>1
  <2>10. Sound(new, [q2 EXCEPT ![ReadyList] = <<h>> \o q2[ReadyList]])
    BY <1>2, <2>2, <2>6, <2>8, <2>9, SoundPush DEF new
  <2>11. Sound(Upped(s), Queues(<<h>> \o ready, w2))
    BY <2>7, <2>9, <2>10
  <2> QED
    BY <1>4, <2>11 DEF h, w2
<1> QED
  BY <1>3, <1>4


-----------------------------------------------------------------------------
(* The steps of Sync.                                                      *)

LEMMA ListsInvFacts ==
    ASSUME ListsInv
    PROVE  /\ current \in Threads /\ status[current] = "RUNNING"
           /\ status \in [Threads -> TaskStatus] /\ pc \in [Threads -> PC]
           /\ ready \in Seq(Threads) /\ waiters \in [Sems -> Seq(Threads)]
           /\ Sound(links, Queues(ready, waiters))
           /\ InNone(Queues(ready, waiters), current)
           /\ \A s \in Sems : ~InList(waiters[s], Idle)
           /\ \A t \in Threads : pc[t] # "new" => Other(t)
           /\ \A t \in Threads : pc[t] = "new" => InNone(Queues(ready, waiters), t)
           /\ Other(current) /\ Other(Idle)
           /\ Idle \in Threads /\ Main \in Threads /\ Main # Idle
<1>1. Inv
  BY DEF ListsInv
<1>2. /\ current \in Threads /\ status[current] = "RUNNING"
      /\ ~InList(ready, current) /\ \A s \in Sems : ~InList(waiters[s], current)
  BY <1>1, RunningInNoList
<1>3. /\ status \in [Threads -> TaskStatus] /\ pc \in [Threads -> PC]
      /\ ready \in Seq(Threads) /\ waiters \in [Sems -> Seq(Threads)]
  BY <1>1 DEF Inv, TypeOK, SchedTypeOK, SyncTypeOK
<1>4. /\ \A t \in Threads : status[t] = "READY" <=> InList(ready, t)
      /\ \A s \in Sems : \A t \in Threads :
            InList(waiters[s], t) => pc[t] = "wait" /\ status[t] = "BLOCKED"
      /\ \A t \in Threads : status[t] = "NEW" <=> pc[t] = "new"
      /\ pc[Idle] \in {"body", "parked", "sti", "halt"}
  BY <1>1 DEF Inv, ListsAgree, ReadyAgrees, WaitersAgree, PlacesAgree
<1>5. InNone(Queues(ready, waiters), current)
  BY <1>2, <1>3, QueuesWithout
<1>6. Idle \in Threads /\ Main \in Threads /\ Main # Idle
  BY ThreadsAssumption
<1>7. \A t \in Threads : pc[t] # "new" => Other(t)
  BY DEF ListsInv, Other
<1>8. ASSUME NEW t \in Threads, pc[t] = "new"
      PROVE  InNone(Queues(ready, waiters), t)
  BY <1>3, <1>4, <1>8, QueuesWithout
<1>9. pc[current] # "new" /\ pc[Idle] # "new"
  BY <1>2, <1>4
<1>10. \A s \in Sems : ~InList(waiters[s], Idle)
  BY <1>4, <1>6
<1>11. Sound(links, Queues(ready, waiters))
  BY DEF ListsInv
<1> QED
  BY <1>2, <1>3, <1>5, <1>6, <1>7, <1>8, <1>9, <1>10, <1>11

\* What a step of Sync leaves of the links.
LinksKept == Sound(links', Queues(ready', waiters'))

LEMMA SameLists ==
    ASSUME ListsInv, UNCHANGED <<links, ready, waiters>>
    PROVE  LinksKept
  BY ListsInvFacts DEF LinksKept

\* schedule, entered by the running task when it has given up the processor and
\* with the waiters that it may have joined.
LEMMA BlockedKept ==
    ASSUME ListsInv, NEW k, NEW w \in [Sems -> Seq(Threads)], Sound(k, Queues(ready, w)),
           \A s \in Sems : ~InList(w[s], Idle)
    PROVE  Sound(Scheduled(Blocked, k), Queues(Tail(QueueAfter(Blocked, ready)), w))
<1>1. ~StillRunning(Blocked)
  BY ListsInvFacts DEF StillRunning, Blocked
<1>2. ready = <<>> => InNone(Queues(ready, w), Idle)
  BY QueuesWithout, EmptyList
<1> QED
  BY <1>1, <1>2, ListsInvFacts, SoundScheduled

LEMMA DownKept ==
    ASSUME ListsInv, NEW t \in Threads, Down(t)
    PROVE  LinksKept
<1>1. SemaDown(t) /\ (At(t, "down") \/ At(t, "wait"))
  BY DEF Down, SemaDown
<1>2. t = current /\ pc[t] \in {"down", "wait"}
  BY <1>1 DEF At
<1>3. target[t] \in Sems /\ t # Idle
  BY <1>2 DEF ListsInv, Inv, PlacesAgree
<1>4. CASE TakeUnit(t)
  <2>1. UNCHANGED <<ready, waiters>> /\ pc'[t] # "wait"
    BY <1>4, ListsInvFacts DEF TakeUnit
  <2> QED
    BY <2>1, SameLists DEF Down
<1>5. CASE Wait(t)
  <2> DEFINE s == target[t]
             l == WaitersOf[s]
             q == Queues(ready, waiters)
             k == ListAppend(links, l, t)
             w == [waiters EXCEPT ![s] = Append(waiters[s], t)]
  <2>1. /\ waiters' = w /\ pc'[t] = "wait"
        /\ ready' = Tail(QueueAfter(Blocked, ready))
    BY <1>5, ListsInvFacts DEF Wait, ThreadBlock, Schedule, Blocked
  <2>2. links' = Scheduled(Blocked, k)
    BY <2>1 DEF Down
  <2>3. l \in Lists /\ DOMAIN q = Lists /\ q[l] = waiters[s]
    BY <1>3, ListsInvFacts, QueuesFacts, ListsFacts
  <2>4. Sound(k, [q EXCEPT ![l] = Append(q[l], t)])
    BY <1>2, <2>3, ListsInvFacts, SoundAppend
  <2>5. With(q, l, Append(waiters[s], t)) = Queues(ready, With(waiters, s, Append(waiters[s], t)))
    BY <1>3, ListsInvFacts, QueuesFacts
  <2>6. Sound(k, Queues(ready, w))
    BY <2>3, <2>4, <2>5 DEF With
  <2>7. /\ Append(waiters[s], t) \in Seq(Threads)
        /\ \A u : InList(Append(waiters[s], t), u) <=> InList(waiters[s], u) \/ u = t
    BY <1>3, ListsInvFacts, AppendList
  <2>8. w \in [Sems -> Seq(Threads)] /\ \A r \in Sems : ~InList(w[r], Idle)
    BY <1>3, <2>7, ListsInvFacts
  <2> HIDE DEF k, w
  <2> QED
    BY <2>1, <2>2, <2>6, <2>8, BlockedKept DEF LinksKept
<1> QED
  BY <1>1, <1>4, <1>5 DEF SemaDown

LEMMA UppedKept ==
    ASSUME ListsInv, NEW s \in Sems, SemaUp(s), links' = Upped(s)
    PROVE  LinksKept
<1>1. CASE waiters[s] = <<>>
  <2>1. UNCHANGED <<ready, waiters>>
    BY <1>1 DEF SemaUp
  <2>2. Sound(Upped(s), Queues(ready, waiters))
    BY <1>1, ListsInvFacts, SoundUpped
  <2> QED
    BY <2>1, <2>2 DEF LinksKept
<1>2. CASE waiters[s] # <<>>
  <2> DEFINE h == Head(waiters[s])
  <2>1. /\ ready' = <<h>> \o ready
        /\ waiters' = [waiters EXCEPT ![s] = Tail(waiters[s])]
    BY <1>2 DEF SemaUp, ThreadUnblock
  <2>2. h \in Threads /\ InList(waiters[s], h)
    BY <1>2, ListsInvFacts, PopList
  <2>3. pc[h] = "wait"
    BY <2>2 DEF ListsInv, Inv, ListsAgree, WaitersAgree
  <2>4. Other(h)
    BY <2>2, <2>3, ListsInvFacts
  <2>5. Sound(Upped(s), Queues(<<h>> \o ready, [waiters EXCEPT ![s] = Tail(waiters[s])]))
    BY <1>2, <2>4, ListsInvFacts, SoundUpped
  <2> QED
    BY <2>1, <2>5 DEF LinksKept
<1> QED
  BY <1>1, <1>2

LEMMA BlockKept ==
    ASSUME ListsInv, NEW t \in Threads, BlockStep(t)
    PROVE  LinksKept
<1>1. /\ links' = Scheduled(Blocked, links) /\ waiters' = waiters
      /\ ready' = Tail(QueueAfter(Blocked, ready))
  BY DEF BlockStep, Park, ThreadBlock, Schedule, Blocked
<1> QED
  BY <1>1, ListsInvFacts, BlockedKept DEF LinksKept

LEMMA YieldKept ==
    ASSUME ListsInv, NEW t \in Threads, YieldStep(t)
    PROVE  LinksKept
<1> DEFINE st == [status EXCEPT ![current] = "READY"]
           r == Append(ready, current)
           k == ListAppend(links, ReadyList, current)
           q == Queues(ready, waiters)
<1>1. t = current /\ waiters' = waiters
  BY DEF YieldStep, Yield, Calls, syncVars
<1>2. links' = Scheduled(st, k) /\ ready' = Tail(QueueAfter(st, r))
  BY <1>1 DEF YieldStep, Yield, ThreadYield, Schedule
<1>3. ReadyList \in Lists /\ DOMAIN q = Lists /\ q[ReadyList] = ready
  BY ListsFacts, ListsInvFacts, QueuesFacts
<1>4. Sound(k, [q EXCEPT ![ReadyList] = Append(q[ReadyList], current)])
  BY <1>3, ListsInvFacts, SoundAppend
<1>5. \A x : [q EXCEPT ![ReadyList] = x] = Queues(x, waiters)
  BY ListsInvFacts, QueuesFacts
<1>6. Sound(k, Queues(r, waiters))
  BY <1>3, <1>4, <1>5
<1>7. r \in Seq(Threads) /\ r # <<>>
  BY ListsInvFacts, AppendList
<1>8. ~StillRunning(st)
  BY ListsInvFacts DEF StillRunning
<1> HIDE DEF st, k, r
<1> QED
  BY <1>1, <1>2, <1>6, <1>7, <1>8, ListsInvFacts, SoundScheduled DEF LinksKept

LEMMA UnblockKept ==
    ASSUME ListsInv, NEW p \in Threads, Unblock(p)
    PROVE  LinksKept
<1> DEFINE k == ListPush(links, ReadyList, p)
           q == Queues(ready, waiters)
<1>1. Wakes(p) /\ links' = k /\ waiters' = waiters
  BY DEF Unblock, Wake, IrqWake, syncVars
<1>2. ready' = <<p>> \o ready /\ pc[p] = "parked" /\ status[p] = "BLOCKED"
  BY <1>1 DEF Wakes, ThreadUnblock
<1>3. ~InList(ready, p) /\ \A s \in Sems : ~InList(waiters[s], p)
  BY <1>2 DEF ListsInv, Inv, ListsAgree, ReadyAgrees, WaitersAgree
<1>4. InNone(q, p) /\ Other(p)
  BY <1>2, <1>3, ListsInvFacts, QueuesWithout
<1>5. ReadyList \in Lists /\ DOMAIN q = Lists /\ q[ReadyList] = ready
  BY ListsFacts, ListsInvFacts, QueuesFacts
<1>6. Sound(k, [q EXCEPT ![ReadyList] = <<p>> \o q[ReadyList]])
  BY <1>4, <1>5, ListsInvFacts, SoundPush
<1>7. \A x : [q EXCEPT ![ReadyList] = x] = Queues(x, waiters)
  BY ListsInvFacts, QueuesFacts
<1>8. Sound(k, Queues(<<p>> \o ready, waiters))
  BY <1>5, <1>6, <1>7
<1> QED
  BY <1>1, <1>2, <1>8 DEF LinksKept

LEMMA TickKept ==
    ASSUME ListsInv, TickStep
    PROVE  LinksKept
<1>1. waiters' = waiters /\ TimerHandler
  BY DEF TickStep, Tick
<1>2. CASE ticks[current] = 0
  <2>1. links' = Scheduled(status, links) /\ ready' = Tail(QueueAfter(status, ready))
    BY <1>1, <1>2 DEF TickStep, TimerHandler, Schedule
  <2>2. StillRunning(status)
    BY ListsInvFacts DEF StillRunning
  <2> QED
    BY <1>1, <2>1, <2>2, ListsInvFacts, SoundScheduled DEF LinksKept
<1>3. CASE ticks[current] # 0
  <2>1. UNCHANGED <<links, ready, waiters>>
    BY <1>1, <1>3 DEF TickStep, TimerHandler
  <2> QED
    BY <2>1, SameLists
<1> QED
  BY <1>2, <1>3


\* A step of the library's, as opposed to one of the creation of a task.
LibStep ==
    \/ \E t \in Threads :
          LockStep(t) \/ Down(t) \/ UpStep(t) \/ Within(t) \/ BlockStep(t) \/ YieldStep(t)
    \/ \E p \in Threads : Unblock(p)
    \/ \E e \in Events : DeviceUp(e)
    \/ TickStep
    \/ OtherStep

LEMMA LibKept ==
    ASSUME ListsInv, LibStep
    PROVE  LinksKept
<1>1. ASSUME NEW t \in Threads, LockStep(t)
      PROVE  LinksKept
  <2>1. UNCHANGED <<links, ready, waiters>>
    BY <1>1 DEF LockStep, LockAcquire, LockRelease, EventDown, Cli, Sti, listVars,
                schedVars
  <2> QED
    BY <2>1, SameLists
<1>2. ASSUME NEW t \in Threads, UpStep(t)
      PROVE  LinksKept
  <2>1. /\ t = current /\ pc[t] = "up"
        /\ SemaUp(target[t]) /\ links' = Upped(target[t])
    BY <1>2 DEF UpStep, Up, At
  <2>2. target[t] \in Sems
    BY <2>1 DEF ListsInv, Inv, PlacesAgree, Sems
  <2> QED
    BY <2>1, <2>2, UppedKept
<1>3. ASSUME NEW t \in Threads, Within(t)
      PROVE  LinksKept
  <2>1. UNCHANGED <<links, ready, waiters>>
    BY <1>3 DEF Within, Own, Resume, listVars, schedVars
  <2> QED
    BY <2>1, SameLists
<1>4. ASSUME NEW e \in Events, DeviceUp(e)
      PROVE  LinksKept
  <2>1. SemaUp(e) /\ links' = Upped(e) /\ e \in Sems
    BY <1>4 DEF DeviceUp, IrqUp, Sems
  <2> QED
    BY <2>1, UppedKept
<1>5. CASE OtherStep
  <2>1. UNCHANGED <<links, ready, waiters>>
    BY <1>5 DEF OtherStep, Halt, IrqOther, listVars, schedVars
  <2> QED
    BY <2>1, SameLists
<1> QED
  BY <1>1, <1>2, <1>3, <1>4, <1>5, DownKept, BlockKept, YieldKept, UnblockKept, TickKept
  DEF LibStep

\* It is a step of Sync, and Main's walk waits.
LEMMA LibNext ==
    ASSUME LibStep
    PROVE  Next /\ UNCHANGED walkVars
<1>1. ASSUME NEW t \in Threads, LockStep(t)
      PROVE  Client(t) /\ UNCHANGED walkVars
  BY <1>1 DEF LockStep, Client, listVars
<1>2. ASSUME NEW t \in Threads, Down(t) \/ UpStep(t) \/ Within(t)
      PROVE  Library(t) /\ UNCHANGED walkVars
  BY <1>2 DEF Down, UpStep, Within, Library, listVars
<1>3. ASSUME NEW t \in Threads, BlockStep(t) \/ YieldStep(t)
      PROVE  Client(t) /\ UNCHANGED walkVars
  BY <1>3 DEF BlockStep, YieldStep, Client
<1>4. ASSUME NEW p \in Threads, Unblock(p)
      PROVE  Next /\ UNCHANGED walkVars
  BY <1>4 DEF Unblock, Next, Client, Irq
<1>5. ASSUME NEW e \in Events, DeviceUp(e)
      PROVE  Next /\ UNCHANGED walkVars
  BY <1>5 DEF DeviceUp, Next, Irq
<1>6. CASE TickStep \/ OtherStep
  BY <1>6 DEF TickStep, OtherStep, Next, Irq, listVars
<1> QED
  BY <1>1, <1>2, <1>3, <1>4, <1>5, <1>6 DEF LibStep, Next

\* It starts no task.
LEMMA LibNew ==
    ASSUME ListsInv, LibStep, NEW u \in Threads, pc[u] = "new"
    PROVE  pc'[u] = "new"
<1>1. /\ pc \in [Threads -> PC] /\ pc[Idle] # "new" /\ pc[current] # "new"
      /\ current \in Threads /\ Idle \in Threads
  BY ListsInvFacts DEF ListsInv, Inv, PlacesAgree
<1>2. u # Idle /\ u # current
  BY <1>1
<1>3. ASSUME NEW t \in Threads, t = Idle \/ t = current, NEW x,
             pc' = pc \/ pc' = [pc EXCEPT ![t] = x]
      PROVE  pc'[u] = "new"
  BY <1>1, <1>2, <1>3
<1>4. ASSUME NEW t \in Threads, LockStep(t) \/ Within(t)
      PROVE  pc'[u] = "new"
  <2>1. t = current /\ (pc' = pc \/ \E x : pc' = [pc EXCEPT ![t] = x])
    BY <1>4 DEF LockStep, Within, LockAcquire, LockRelease, EventDown, Cli, Sti, Own,
                Resume, Calls, At
  <2> QED
    BY <1>3, <2>1
<1>5. ASSUME NEW t \in Threads, Down(t) \/ UpStep(t)
      PROVE  pc'[u] = "new"
  <2>1. t = current /\ \E x : pc' = [pc EXCEPT ![t] = x]
    BY <1>5 DEF Down, UpStep, SemaDown, Wait, TakeUnit, Up, At
  <2> QED
    BY <1>3, <2>1
<1>6. ASSUME NEW t \in Threads, BlockStep(t) \/ YieldStep(t)
      PROVE  pc'[u] = "new"
  <2>1. t = current /\ (pc' = pc \/ \E x : pc' = [pc EXCEPT ![t] = x])
    BY <1>6 DEF BlockStep, YieldStep, Park, Yield, Calls, syncVars
  <2> QED
    BY <1>3, <2>1
<1>7. CASE Interrupt \/ Halt
  <2>1. pc' = pc \/ \E x : pc' = [pc EXCEPT ![Idle] = x]
    BY <1>7 DEF Interrupt, Halt
  <2> QED
    BY <1>1, <1>3, <2>1
<1>8. ASSUME NEW p \in Threads, Unblock(p)
      PROVE  pc' = pc \/ Interrupt
  BY <1>8 DEF Unblock, Wake, IrqWake, syncVars
<1>9. ASSUME NEW e \in Events, DeviceUp(e)
      PROVE  Interrupt
  BY <1>9 DEF DeviceUp, IrqUp
<1>10. ASSUME TickStep \/ OtherStep
       PROVE  Interrupt \/ Halt
  BY <1>10 DEF TickStep, OtherStep, Tick, IrqOther
<1> QED
  BY <1>4, <1>5, <1>6, <1>7, <1>8, <1>9, <1>10 DEF LibStep

\* It does not come in process_execute, whose caller is Main and disabled interrupts.
LEMMA LibFree ==
    ASSUME ListsInv, LibStep
    PROVE  old_status = "none"
<1> SUFFICES ASSUME old_status # "none"
             PROVE  FALSE
  OBVIOUS
<1>1. /\ current = Main /\ pc[Main] = "body" /\ ~intr[Main] /\ Main # Idle
      /\ ~Free(Main)
  BY ListsInvFacts DEF ListsInv, Free
<1>2. ~Interrupt /\ ~Halt
  BY <1>1 DEF Interrupt, InterruptsOn, Halt, At
<1>3. ASSUME NEW t \in Threads, LockStep(t) \/ BlockStep(t) \/ YieldStep(t)
      PROVE  Free(t) /\ t = current
  BY <1>3 DEF LockStep, BlockStep, YieldStep, LockAcquire, LockRelease, EventDown, Cli,
              Sti, Park, Yield, Calls
<1>4. ASSUME NEW t \in Threads, Down(t) \/ UpStep(t) \/ Within(t)
      PROVE  FALSE
  BY <1>1, <1>4 DEF Down, UpStep, Within, SemaDown, Up, Own, Resume, At
<1>5. ASSUME NEW p \in Threads, Unblock(p)
      PROVE  Free(current) \/ Interrupt
  BY <1>5 DEF Unblock, Wake, IrqWake, Calls
<1>6. ASSUME NEW e \in Events, DeviceUp(e)
      PROVE  Interrupt
  BY <1>6 DEF DeviceUp, IrqUp
<1>7. ASSUME TickStep \/ OtherStep
      PROVE  Interrupt \/ Halt
  BY <1>7 DEF TickStep, OtherStep, Tick, IrqOther
<1> QED
  BY <1>1, <1>2, <1>3, <1>4, <1>5, <1>6, <1>7 DEF LibStep

LEMMA SameWalk ==
    ASSUME LinksKept, UNCHANGED walkVars, Sound(links, Queues(ready, waiters))
    PROVE  Sound(links, Queues(ready, waiters))'
  BY DEF LinksKept, Sound, Walking, walkVars

LEMMA LibInv ==
    ASSUME ListsInv, LibStep
    PROVE  ListsInv'
<1>1. Next /\ UNCHANGED <<making, elem, old_status>>
  BY LibNext DEF walkVars
<1>2. Inv'
  BY <1>1, NextInv DEF ListsInv
<1>3. Sound(links, Queues(ready, waiters))'
  BY LibKept, LibNext, SameWalk DEF ListsInv
<1>4. old_status = "none" /\ old_status' = "none"
  BY <1>1, LibFree
<1>5. making' \in Threads \cup {NULL} /\ (making' # NULL => pc'[making'] = "new")
  BY <1>1, LibNew DEF ListsInv, Walking
<1> QED
  BY <1>2, <1>3, <1>4, <1>5 DEF ListsInv, Walking, ProcessWalkStays

-----------------------------------------------------------------------------
(* The creation of a task.                                                 *)

\* A task that is to be created is not linked.
LEMMA NewUnlinked ==
    ASSUME ListsInv, NEW p \in Threads, Creates(p)
    PROVE  /\ p \notin DOMAIN links
           /\ p # NULL /\ pc[p] = "new"
           /\ ~Walking /\ old_status = "none"
<1>1. /\ pc[p] = "new" /\ ~Walking /\ old_status = "none"
  BY DEF Creates, Free
<1>2. InNone(Queues(ready, waiters), p)
  BY <1>1, ListsInvFacts
<1>3. \A e \in DOMAIN links \cap Threads : \E l \in Lists : InList(Queues(ready, waiters)[l], e)
  BY <1>1 DEF ListsInv, Sound
<1>4. p # NULL
  BY SyncAssumption
<1> QED
  BY <1>1, <1>2, <1>3, <1>4 DEF InNone

LEMMA ReadyFacts ==
    ASSUME ListsInv
    PROVE  /\ ListsHold(links, Queues(ready, waiters))
           /\ ready \in Seq(Threads)
           /\ First(links, ReadyList) \in DOMAIN links
           /\ First(links, ReadyList) = ListTail(ReadyList)
                \/ InList(ready, First(links, ReadyList))
           /\ Chained(links, ReadyList, ready)
<1>1. /\ ListsHold(links, Queues(ready, waiters)) /\ ready \in Seq(Threads)
      /\ waiters \in [Sems -> Seq(Threads)]
  BY ListsInvFacts DEF Sound
<1>2. ReadyList \in Lists /\ Queues(ready, waiters)[ReadyList] = ready
  BY <1>1, ListsFacts, QueuesFacts
<1>3. /\ First(links, ReadyList) \in DOMAIN links
      /\ ready # <<>> => First(links, ReadyList) = Head(ready)
      /\ ready = <<>> => First(links, ReadyList) = ListTail(ReadyList)
  BY <1>1, <1>2, FirstOf
<1>4. ready # <<>> => InList(ready, Head(ready))
  BY <1>1, PopList
<1>5. Chained(links, ReadyList, ready)
  BY <1>1, <1>2 DEF ListsHold
<1> QED
  BY <1>1, <1>3, <1>4, <1>5

\* The lists stay, and a walk is on.
LEMMA WalkSound ==
    ASSUME Sound(links, Queues(ready, waiters)), UNCHANGED <<links, ready, waiters>>,
           making' # NULL, making' \notin DOMAIN links, elem' \in DOMAIN links \cup {Nil}
    PROVE  Sound(links, Queues(ready, waiters))'
  BY DEF Sound, Walking

LEMMA ThreadStartsInv ==
    ASSUME ListsInv, NEW p \in Threads, ThreadStarts(p)
    PROVE  ListsInv'
<1>1. /\ making' = p /\ elem' = First(links, ReadyList)
      /\ UNCHANGED <<vars, links, old_status>> /\ Creates(p)
  BY DEF ThreadStarts
<1>2. /\ p \notin DOMAIN links
      /\ p # NULL /\ pc[p] = "new" /\ old_status = "none"
  BY <1>1, NewUnlinked
<1>3. Inv'
  BY <1>1, NextInv DEF ListsInv
<1>4. Sound(links, Queues(ready, waiters))'
  BY <1>1, <1>2, ReadyFacts, WalkSound DEF ListsInv, vars, schedVars, syncVars
<1> QED
  BY <1>1, <1>2, <1>3, <1>4 DEF ListsInv, Walking, ProcessWalkStays, vars, syncVars

LEMMA ProcessExecutesInv ==
    ASSUME ListsInv, NEW p \in Threads, ProcessExecutes(p)
    PROVE  ListsInv'
<1>1. /\ making' = p /\ elem' = First(links, ReadyList)
      /\ old_status' \in {"on", "off"}
      /\ UNCHANGED links /\ Creates(p) /\ Cli(Main)
  BY DEF ProcessExecutes
<1>2. /\ current = Main /\ pc[Main] = "body"
      /\ intr' = [intr EXCEPT ![Main] = FALSE]
      /\ UNCHANGED <<current, ready, waiters, pc>>
  BY <1>1 DEF Cli, Calls, schedVars
<1>3. /\ p \notin DOMAIN links
      /\ p # NULL /\ pc[p] = "new"
  BY <1>1, NewUnlinked
<1>4. Main \in Threads /\ intr \in [Threads -> BOOLEAN]
  BY ThreadsAssumption DEF ListsInv, Inv, TypeOK, SyncTypeOK
<1>5. Next
  BY <1>1, <1>4 DEF Next, Client
<1>6. Inv'
  BY <1>5, NextInv DEF ListsInv
<1>7. Sound(links, Queues(ready, waiters))'
  BY <1>1, <1>2, <1>3, ReadyFacts, WalkSound DEF ListsInv
<1>8. ~intr'[Main]
  BY <1>2, <1>4
<1>9. ProcessWalkStays'
  BY <1>1, <1>2, ReadyFacts DEF ProcessWalkStays
<1> QED
  BY <1>1, <1>2, <1>3, <1>6, <1>7, <1>8, <1>9 DEF ListsInv, Walking

\* One step of elem_find: with interrupts disabled it goes to the next that is
\* linked at the ready list.
LEMMA FollowInv ==
    ASSUME ListsInv, Follow
    PROVE  ListsInv'
<1>1. /\ Walking /\ elem \notin {making, ListTail(ReadyList), Nil}
      /\ elem' = links[elem].next
      /\ UNCHANGED <<vars, links, making, old_status>>
  BY DEF Follow
<1>2. making \notin DOMAIN links /\ elem \in DOMAIN links
  BY <1>1 DEF ListsInv, Sound
<1>3. elem' \in DOMAIN links \cup {Nil}
  BY <1>1, <1>2, ReadyFacts DEF ListsHold
<1>4. Inv'
  BY <1>1, NextInv DEF ListsInv
<1>5. Sound(links, Queues(ready, waiters))'
  BY <1>1, <1>2, <1>3, WalkSound DEF ListsInv, Walking, vars, schedVars, syncVars
<1>6. ASSUME old_status # "none"
      PROVE  elem' = ListTail(ReadyList) \/ InList(ready, elem')
  <2>1. PICK i \in 1..Len(ready) : ready[i] = elem
    BY <1>1, <1>6 DEF ListsInv, ProcessWalkStays, InList
  <2>2. Len(ready) \in Nat /\ i \in 0..Len(ready)
    BY ReadyFacts
  <2>3. links[Node(ReadyList, ready, i)].next = Node(ReadyList, ready, i + 1)
    BY <2>2, ReadyFacts DEF Chained
  <2>4. Node(ReadyList, ready, i) = elem
    BY <2>1, <2>2 DEF Node
  <2>5. elem' = Node(ReadyList, ready, i + 1)
    BY <1>1, <2>3, <2>4
  <2>6. CASE i = Len(ready)
    BY <2>2, <2>5, <2>6 DEF Node
  <2>7. CASE i # Len(ready)
    <3>1. i + 1 \in 1..Len(ready) /\ i + 1 # 0
      BY <2>1, <2>2, <2>7
    <3>2. Node(ReadyList, ready, i + 1) = ready[i + 1]
      BY <3>1 DEF Node
    <3> QED
      BY <2>5, <3>1, <3>2 DEF InList
  <2> QED
    BY <2>6, <2>7
<1>7. ProcessWalkStays'
  BY <1>1, <1>6 DEF ProcessWalkStays, vars, schedVars
<1> QED
  BY <1>1, <1>4, <1>5, <1>7 DEF ListsInv, Walking, vars, schedVars, syncVars

\* The ASSERT of thread_start and process_execute does not fail.
LEMMA AppendsNew ==
    ASSUME ListsInv, NEW p \in Threads, Appends(p)
    PROVE  /\ Walking /\ pc[p] = "new"
           /\ Start(Main, p)
           /\ links' = LinkedOnly(ListAppend(links, ReadyList, p))
           /\ making' = NULL /\ elem' = Nil /\ UNCHANGED old_status
<1>1. p = making /\ p # NULL /\ p # Nil
  BY SyncAssumption, TagsAssumption DEF Appends
<1>2. Walking /\ pc[p] = "new"
  BY <1>1 DEF Walking, ListsInv
<1>3. elem # p
  BY <1>1, <1>2 DEF ListsInv, Sound
<1> QED
  BY <1>2, <1>3 DEF Appends

LEMMA AppendsInv ==
    ASSUME ListsInv, NEW p \in Threads, Appends(p)
    PROVE  ListsInv'
<1> DEFINE q == Queues(ready, waiters)
           k == ListAppend(links, ReadyList, p)
<1>1. /\ pc[p] = "new" /\ Start(Main, p) /\ links' = LinkedOnly(k)
      /\ making' = NULL /\ elem' = Nil /\ UNCHANGED old_status
  BY AppendsNew
<1>2. /\ current = Main /\ pc[Main] = "body" /\ ready' = Append(ready, p)
      /\ pc' = [pc EXCEPT ![p] = "body"]
      /\ UNCHANGED <<current, waiters, intr>>
  BY <1>1 DEF Start, Calls, ThreadStart
<1>3. Main \in Threads /\ pc \in [Threads -> PC]
  BY ListsInvFacts
<1>4. Inv'
  BY <1>1, <1>3, NextInv DEF ListsInv, Next, Client
<1>5. /\ ListsHold(links, q) /\ InNone(q, p)
      /\ DOMAIN q = Lists /\ q[ReadyList] = ready /\ ReadyList \in Lists
      /\ \A x : [q EXCEPT ![ReadyList] = x] = Queues(x, waiters)
  BY <1>1, ReadyFacts, ListsInvFacts, QueuesFacts, ListsFacts
<1>6. ListsHold(k, [q EXCEPT ![ReadyList] = Append(q[ReadyList], p)])
  BY <1>5, AppendHolds
<1>7. ListsHold(k, Queues(Append(ready, p), waiters))
  BY <1>5, <1>6
<1> HIDE DEF k
<1>8. /\ ListsHold(LinkedOnly(k), Queues(Append(ready, p), waiters))
      /\ \A e \in DOMAIN LinkedOnly(k) \cap Threads :
            \E l \in Lists : InList(Queues(Append(ready, p), waiters)[l], e)
  BY <1>7, LinkedOnlyHolds
<1>9. Sound(links, q)'
  BY <1>1, <1>2, <1>8 DEF Sound, Walking
<1>10. pc'[Main] = "body"
  BY <1>1, <1>2, <1>3
<1>11. old_status' # "none" => current' = Main /\ ~intr'[Main]
  BY <1>1, <1>2 DEF ListsInv
<1> QED
  BY <1>1, <1>4, <1>9, <1>10, <1>11 DEF ListsInv, Walking, ProcessWalkStays

LEMMA RestoreInv ==
    ASSUME ListsInv, Restore
    PROVE  ListsInv'
<1>1. /\ making = NULL /\ old_status' = "none"
      /\ Sti(Main) \/ Cli(Main)
      /\ UNCHANGED <<links, making, elem>>
  BY DEF Restore
<1>2. UNCHANGED <<ready, waiters, pc>>
  BY <1>1 DEF Cli, Sti, schedVars
<1>3. Inv'
  BY <1>1, ListsInvFacts, NextInv DEF ListsInv, Next, Client
<1>4. Sound(links, Queues(ready, waiters))'
  BY <1>1, <1>2 DEF ListsInv, Sound, Walking
<1> QED
  BY <1>1, <1>3, <1>4 DEF ListsInv, Walking, ProcessWalkStays

-----------------------------------------------------------------------------
(* The initial states: list_init of every list, and idle in the ready list. *)

LEMMA FiniteRange ==
    ASSUME NEW S, IsFiniteSet(S), NEW f, DOMAIN f = S, f = [x \in S |-> f[x]]
    PROVE  IsFiniteSet({f[x] : x \in S})
<1> DEFINE T == {f[x] : x \in S}
<1>1. f \in [S -> T]
  OBVIOUS
<1>2. \A y \in T : \E x \in S : f[x] = y
  OBVIOUS
<1>3. f \in Surjection(S, T)
  BY <1>1, <1>2 DEF Surjection
<1> QED
  BY <1>3, FS_Surjection

LEMMA InitHolds ==
    ASSUME NEW q, DOMAIN q = Lists, \A l \in Lists : q[l] = <<>>
    PROVE  ListsHold(ListInit(Lists), q)
<1> DEFINE k == ListInit(Lists)
<1>1. DOMAIN k = Ends
  BY DEF ListInit, Ends
<1>2. ASSUME NEW l \in Lists
      PROVE  /\ k[ListHead(l)] = [prev |-> Nil, next |-> ListTail(l)]
             /\ k[ListTail(l)] = [prev |-> ListHead(l), next |-> Nil]
  <2>1. ListHead(l) \in Ends /\ ListTail(l) \in Ends
    BY EndsFacts
  <2>2. ~\E i \in Lists : ListTail(l) = ListHead(i)
    BY EndsFacts
  <2>3. ListHead(l) - 1 = ListTail(l) /\ ListTail(l) + 1 = ListHead(l)
    BY ListsFacts DEF ListHead, ListTail
  <2>4. k[ListHead(l)] = [prev |-> Nil, next |-> ListHead(l) - 1]
    BY <2>1 DEF ListInit, Ends
  <2>5. k[ListTail(l)] = [prev |-> ListTail(l) + 1, next |-> Nil]
    BY <2>1, <2>2 DEF ListInit, Ends
  <2> QED
    BY <2>3, <2>4, <2>5
<1>3. k = [e \in DOMAIN k |-> k[e]]
  BY DEF ListInit
<1> HIDE DEF k
<1>4. ASSUME NEW e \in Ends
      PROVE  k[e] \in Links /\ k[e].next \in Ends \cup {Nil}
  <2>1. PICK l \in Lists : e = ListHead(l) \/ e = ListTail(l)
    BY EndsFacts
  <2>2. ListHead(l) \in Ends /\ ListTail(l) \in Ends
    BY EndsFacts
  <2>3. k[e] = [prev |-> Nil, next |-> ListTail(l)]
          \/ k[e] = [prev |-> ListHead(l), next |-> Nil]
    BY <1>2, <2>1
  <2>4. Ends \subseteq Tags
    BY DEF Tags
  <2> QED
    BY <2>2, <2>3, <2>4 DEF Links
<1>5. k \in [DOMAIN k -> Links]
  BY <1>1, <1>3, <1>4
<1>6. IsFiniteSet(Ends)
  <2>1. IsFiniteSet({WaitersOf[s] : s \in Sems})
    BY ThreadListsAssumption, FiniteRange
  <2>2. IsFiniteSet(Lists)
    BY <2>1, FS_AddElement DEF Lists
  <2> DEFINE head == [l \in Lists |-> ListHead(l)]
             tail == [l \in Lists |-> ListTail(l)]
  <2>3. Ends = {head[l] : l \in Lists} \cup {tail[l] : l \in Lists}
    BY DEF Ends
  <2>4. /\ DOMAIN head = Lists /\ head = [l \in Lists |-> head[l]]
        /\ DOMAIN tail = Lists /\ tail = [l \in Lists |-> tail[l]]
    OBVIOUS
  <2> HIDE DEF head, tail
  <2>5. IsFiniteSet({head[l] : l \in Lists}) /\ IsFiniteSet({tail[l] : l \in Lists})
    BY <2>2, <2>4, FiniteRange
  <2> QED
    BY <2>3, <2>5, FS_Union
<1>7. ASSUME NEW l \in Lists
      PROVE  /\ q[l] \in Seq(Threads)
             /\ \A i \in 1..Len(q[l]) : q[l][i] \in DOMAIN k
             /\ Chained(k, l, q[l])
             /\ k[ListTail(l)].next = Nil
  <2>1. q[l] = <<>>
    OBVIOUS
  <2> DEFINE s == q[l]
  <2>2. s \in Seq(Threads) /\ Len(s) = 0
    BY <2>1
  <2> HIDE DEF s
  <2>3. ASSUME NEW n \in 0..Len(s)
        PROVE  /\ k[Node(l, s, n)].next = Node(l, s, n + 1)
               /\ k[Node(l, s, n + 1)].prev = Node(l, s, n)
    <3>1. n = 0 /\ n + 1 = Len(s) + 1
      BY <2>2
    <3>2. Node(l, s, n) = ListHead(l) /\ Node(l, s, n + 1) = ListTail(l)
      BY <2>2, <3>1 DEF Node
    <3>3. /\ k[Node(l, s, n)] = [prev |-> Nil, next |-> ListTail(l)]
          /\ k[Node(l, s, n + 1)] = [prev |-> ListHead(l), next |-> Nil]
      BY <1>2, <3>2
    <3> QED
      BY <3>2, <3>3
  <2>4. Chained(k, l, s)
    BY <2>3 DEF Chained
  <2>5. \A i \in 1..Len(s) : s[i] \in DOMAIN k
    BY <2>2
  <2>6. k[ListTail(l)].next = Nil
    <3>1. k[ListTail(l)] = [prev |-> ListHead(l), next |-> Nil]
      BY <1>2
    <3> QED
      BY <3>1
  <2> QED
    BY <2>2, <2>4, <2>5, <2>6 DEF s
<1>8. Apart(q)
  BY DEF Apart
<1>9. Ends \subseteq Tags
  BY DEF Tags
<1>10. ListsHold(k, q)
  BY <1>1, <1>4, <1>5, <1>6, <1>7, <1>8, <1>9 DEF ListsHold, Links
<1> QED
  BY <1>10 DEF k

Empty(q) == \A l \in Lists : q[l] = <<>>

LEMMA InitAppendHolds ==
    ASSUME NEW q, DOMAIN q = Lists, Empty(q)
    PROVE  /\ ListsHold(ListAppend(ListInit(Lists), ReadyList, Idle),
                        [q EXCEPT ![ReadyList] = Append(q[ReadyList], Idle)])
           /\ DOMAIN ListAppend(ListInit(Lists), ReadyList, Idle)
                = DOMAIN ListInit(Lists) \cup {Idle}
<1>1. PICK k : k = ListInit(Lists)
  OBVIOUS
<1>2. ListsHold(k, q)
  BY <1>1, InitHolds DEF Empty
<1>3. InNone(q, Idle) /\ ReadyList \in Lists /\ Idle \in Threads
  BY EmptyList, ListsFacts, ThreadsAssumption DEF InNone, Empty
<1>4. /\ ListsHold(ListAppend(k, ReadyList, Idle),
                   [q EXCEPT ![ReadyList] = Append(q[ReadyList], Idle)])
      /\ DOMAIN ListAppend(k, ReadyList, Idle) = DOMAIN k \cup {Idle}
      /\ \A e : InList(Append(q[ReadyList], Idle), e) <=> InList(q[ReadyList], e) \/ e = Idle
  BY <1>2, <1>3, AppendHolds
<1> QED
  BY <1>1, <1>4

LEMMA ListsInitInv == ListsInit => ListsInv
<1> SUFFICES ASSUME ListsInit
             PROVE  ListsInv
  OBVIOUS
<1> DEFINE q == Queues(<<>>, waiters)
<1>1. Inv
  BY InitInv DEF ListsInit
<1>2. /\ links = ListAppend(ListInit(Lists), ReadyList, Idle)
      /\ making = NULL /\ old_status = "none"
      /\ ready = <<Idle>> /\ waiters = [s \in Sems |-> <<>>]
  BY DEF ListsInit, Init, SchedInit, SyncInit
<1>3. waiters \in [Sems -> Seq(Threads)] /\ Idle \in Threads
  BY <1>2, ThreadsAssumption
<1>4. /\ DOMAIN q = Lists /\ q[ReadyList] = <<>>
      /\ \A s \in Sems : q[WaitersOf[s]] = <<>>
      /\ \A l \in Lists : l = ReadyList \/ \E s \in Sems : l = WaitersOf[s]
      /\ \A x : [q EXCEPT ![ReadyList] = x] = Queues(x, waiters)
  <2>1. \A s \in Sems : waiters[s] = <<>>
    BY <1>2
  <2>2. /\ DOMAIN q = Lists /\ q[ReadyList] = <<>>
        /\ \A s \in Sems : q[WaitersOf[s]] = waiters[s]
        /\ \A l \in Lists : l = ReadyList \/ \E s \in Sems : l = WaitersOf[s]
    BY <1>3, QueuesFacts
  <2>3. \A x : [q EXCEPT ![ReadyList] = x] = Queues(x, waiters)
    BY <1>3, QueuesFacts
  <2> QED
    BY <2>1, <2>2, <2>3
<1> HIDE DEF q
<1>5. Empty(q)
  BY <1>4 DEF Empty
<1>6. ReadyList \in Lists
  BY ListsFacts
<1>7. /\ ListsHold(links, [q EXCEPT ![ReadyList] = Append(q[ReadyList], Idle)])
      /\ DOMAIN links = DOMAIN ListInit(Lists) \cup {Idle}
  BY <1>2, <1>4, <1>5, InitAppendHolds
<1>8. Append(<<>>, Idle) = ready
  BY <1>2, <1>3
<1>9. ListsHold(links, Queues(ready, waiters))
  BY <1>4, <1>7, <1>8
<1>10. ~Walking
  BY <1>2 DEF Walking
<1>11. DOMAIN ListInit(Lists) = Ends
  BY DEF ListInit, Ends
<1>12. InList(Queues(ready, waiters)[ReadyList], Idle)
  <2>1. Queues(ready, waiters)[ReadyList] = <<Idle>>
    BY <1>2, <1>3, QueuesFacts
  <2> QED
    BY <2>1 DEF InList
<1>13. \A e \in DOMAIN links \cap Threads : \E l \in Lists : InList(Queues(ready, waiters)[l], e)
  BY <1>6, <1>7, <1>11, <1>12, EndsFacts
<1> QED
  BY <1>1, <1>2, <1>9, <1>10, <1>13 DEF ListsInv, Sound, ProcessWalkStays

-----------------------------------------------------------------------------
(* The theorems.                                                           *)

LEMMA ListsNextInv == ListsInv /\ [ListsNext]_allVars => ListsInv'
<1> SUFFICES ASSUME ListsInv, [ListsNext]_allVars
             PROVE  ListsInv'
  OBVIOUS
<1>1. CASE UNCHANGED allVars
  <2>1. UNCHANGED vars /\ UNCHANGED <<links, making, elem, old_status>>
    BY <1>1 DEF allVars, listVars, walkVars
  <2>2. Inv'
    BY <2>1, NextInv DEF ListsInv
  <2>3. Sound(links, Queues(ready, waiters))'
    BY <2>1 DEF ListsInv, Sound, Walking, vars, schedVars, syncVars
  <2> QED
    BY <2>1, <2>2, <2>3 DEF ListsInv, Walking, ProcessWalkStays, vars, schedVars, syncVars
<1>2. CASE ListsNext
  BY <1>2, LibInv, ThreadStartsInv, ProcessExecutesInv, FollowInv, AppendsInv, RestoreInv
  DEF ListsNext, LibStep, Create
<1> QED
  BY <1>1, <1>2

\* The inductive invariant of the lists with their pointers (thread.c, sync.c,
\* list.c): what is linked at a list is what Sync takes it for, and outside of
\* elem_find only linked tags can be come to.
THEOREM ListsSpecInv == ListsSpec => []ListsInv
<1>1. ListsInit => ListsInv
  BY ListsInitInv
<1>2. ListsInv /\ [ListsNext]_allVars => ListsInv'
  BY ListsNextInv
<1> QED
  BY <1>1, <1>2, PTL DEF ListsSpec

LEMMA ChainedIsHeld ==
    ASSUME NEW l \in Lists, NEW s \in Seq(Threads), Chained(links, l, s)
    PROVE  Holds(l, s)
<1> DEFINE all == <<ListHead(l)>> \o s \o <<ListTail(l)>>
<1>1. /\ Len(s) \in Nat /\ s \in Seq(Tags)
      /\ ListHead(l) \in Tags /\ ListTail(l) \in Tags
  BY EndsFacts DEF Tags
<1>2. Len(all) = Len(s) + 2
  BY <1>1
<1>3. ASSUME NEW k \in 1..Len(s) + 2
      PROVE  all[k] = Node(l, s, k - 1)
  <2>1. k = 1 => all[k] = ListHead(l)
    BY <1>1
  <2>2. k = Len(s) + 2 => all[k] = ListTail(l)
    BY <1>1
  <2>3. k - 1 \in 1..Len(s) => all[k] = s[k - 1]
    BY <1>1
  <2>4. k = 1 \/ k = Len(s) + 2 \/ k - 1 \in 1..Len(s)
    BY <1>1
  <2> QED
    BY <1>1, <2>1, <2>2, <2>3, <2>4 DEF Node
<1> HIDE DEF all
<1>4. ASSUME NEW k \in 1..Len(all) - 1
      PROVE  links[all[k]].next = all[k + 1] /\ links[all[k + 1]].prev = all[k]
  <2>1. k - 1 \in 0..Len(s) /\ k \in 1..Len(s) + 2 /\ k + 1 \in 1..Len(s) + 2
    BY <1>1, <1>2
  <2>2. all[k] = Node(l, s, k - 1) /\ all[k + 1] = Node(l, s, (k - 1) + 1)
    BY <1>3, <2>1
  <2> QED
    BY <2>1, <2>2 DEF Chained
<1> QED
  BY <1>4 DEF Holds, all

\* thread_ready_list and every semaphore's waiters, followed by their pointers
\* in either direction, are the queues of Sync, although a task's one
\* general_tag moves between them and is not cleared when it leaves one.
THEOREM TagsAgreeHolds == ListsSpec => []TagsAgree
<1>1. ASSUME ListsInv
      PROVE  TagsAgree
  <2>1. /\ ListsHold(links, Queues(ready, waiters))
        /\ ready \in Seq(Threads) /\ waiters \in [Sems -> Seq(Threads)]
    BY <1>1, ListsInvFacts DEF Sound
  <2>2. Holds(ReadyList, ready)
    BY <1>1, <2>1, ReadyFacts, ListsFacts, ChainedIsHeld
  <2>3. ASSUME NEW s \in Sems
        PROVE  Holds(WaitersOf[s], waiters[s])
    <3>1. WaitersOf[s] \in Lists /\ Queues(ready, waiters)[WaitersOf[s]] = waiters[s]
      BY <2>1, ListsFacts, QueuesFacts
    <3>2. Chained(links, WaitersOf[s], waiters[s])
      BY <2>1, <3>1 DEF ListsHold
    <3> QED
      BY <2>1, <3>1, <3>2, ChainedIsHeld
  <2> QED
    BY <2>2, <2>3 DEF TagsAgree
<1> QED
  BY <1>1, ListsSpecInv, PTL

\* With interrupts disabled, as process_execute calls it, elem_find never leaves
\* the ready list that it was given.
THEOREM ProcessWalkStaysHolds == ListsSpec => []ProcessWalkStays
<1>1. ListsInv => ProcessWalkStays
  BY DEF ListsInv
<1> QED
  BY <1>1, ListsSpecInv, PTL

\* The lists with their pointers and the creation of tasks in its steps are a
\* behaviour of Sync, so that no ASSERT of thread.c, sync.c and list.c fails and
\* the locks exclude, as Sync_proofs shows.
THEOREM ListsImplementSync == ListsSpec => Spec
<1>1. ListsInit => Init
  BY DEF ListsInit
<1>2. ASSUME ListsInv, [ListsNext]_allVars
      PROVE  [Next]_vars
  <2>1. ASSUME NEW p \in Threads, ThreadStarts(p) \/ ProcessExecutes(p) \/ Appends(p)
        PROVE  [Next]_vars
    <3>1. ThreadStarts(p) => UNCHANGED vars
      BY DEF ThreadStarts
    <3>2. ProcessExecutes(p) => Next
      BY ThreadsAssumption DEF ProcessExecutes, Next, Client
    <3>3. Appends(p) => Next
      BY <1>2, AppendsNew, ThreadsAssumption DEF Next, Client
    <3> QED
      BY <2>1, <3>1, <3>2, <3>3
  <2>2. CASE Follow
    BY <2>2 DEF Follow
  <2>3. CASE Restore
    BY <2>3, ThreadsAssumption DEF Restore, Next, Client
  <2>4. CASE UNCHANGED allVars
    BY <2>4 DEF allVars
  <2>5. CASE LibStep
    BY <2>5, LibNext
  <2> QED
    BY <1>2, <2>1, <2>2, <2>3, <2>4, <2>5 DEF ListsNext, LibStep, Create
<1> QED
  BY <1>1, <1>2, ListsSpecInv, PTL DEF ListsSpec, Spec
=============================================================================
