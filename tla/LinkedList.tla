----------------------------- MODULE LinkedList -----------------------------
(***************************************************************************)
(* The doubly linked lists of lib/kernel/list.c.  The links of all lists   *)
(* are one function, from what is linked to its prev and next: elements    *)
(* are numbers from 0 on, and the head and the tail of a list, which are   *)
(* linked always, are negative ones.                                       *)
(***************************************************************************)
EXTENDS Functions, FiniteSets, Integers, Sequences, TLC

Nil == -1
ListHead(list) == -2 * list
ListTail(list) == -2 * list - 1

\* list_init of each of the lists.
ListInit(lists) ==
    [e \in UNION {{ListHead(i), ListTail(i)} : i \in lists} |->
        IF \E i \in lists : e = ListHead(i)
        THEN [prev |-> Nil, next |-> e - 1]
        ELSE [prev |-> e + 1, next |-> Nil]]

\* list_insert_before
InsertBefore(links, before, elem) ==
    LET prev == links[before].prev
        rest == [links EXCEPT ![prev].next = elem, ![before].prev = elem]
    IN  [e \in DOMAIN links \cup {elem} |->
            IF e = elem THEN [prev |-> prev, next |-> before] ELSE rest[e]]

ListAppend(links, list, elem) == InsertBefore(links, ListTail(list), elem)

ListPush(links, list, elem) == InsertBefore(links, links[ListHead(list)].next, elem)

\* Variant: the element behind the removed one keeps its prev.
RemoveForward(links, elem) == [links EXCEPT ![links[elem].prev].next = links[elem].next]

\* list_remove: the element keeps its own links.
ListRemove(links, elem) ==
    [links EXCEPT ![links[elem].prev].next = links[elem].next,
                  ![links[elem].next].prev = links[elem].prev]

\* list_remove of an element whose memory then holds something else.
Detach(links, elem) == Restrict(ListRemove(links, elem), DOMAIN links \ {elem})

ListEmpty(links, list) == links[ListHead(list)].next = ListTail(list)

\* What list_pop returns before it removes it.
First(links, list) == links[ListHead(list)].next

-----------------------------------------------------------------------------
\* The walk of elem_find and list_traversal: where it is after n steps.
Walk(links, list) ==
    LET at[n \in 0..Cardinality(DOMAIN links)] ==
            IF n = 0 THEN First(links, list)
            ELSE IF at[n - 1] = ListTail(list) THEN at[n - 1]
            ELSE links[at[n - 1]].next
    IN  at

ElemFind(links, list, elem) ==
    \E n \in DOMAIN Walk(links, list) : Walk(links, list)[n] = elem

\* The elements that a whole walk meets, in order.
Listed(links, list) ==
    LET at == Walk(links, list)
        met == {n \in DOMAIN at : at[n] # ListTail(list)}
    IN  [i \in 1..Cardinality(met) |-> at[i - 1]]

\* Forwards and backwards each list has the same elements, and no element is in
\* two lists or in none.
Linked(links, lists) ==
    /\ \A i \in lists :
          LET all == <<ListHead(i)>> \o Listed(links, i) \o <<ListTail(i)>>
          IN  \A k \in 1..Len(all) - 1 :
                 links[all[k]].next = all[k + 1] /\ links[all[k + 1]].prev = all[k]
    /\ \A e \in {x \in DOMAIN links : x >= 0} :
          \E i \in lists : ElemFind(links, i, e)
=============================================================================
