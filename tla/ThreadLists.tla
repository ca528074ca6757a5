----------------------------- MODULE ThreadLists -----------------------------
(***************************************************************************)
(* The lists of Sync with their pointers: thread_ready_list and the        *)
(* semaphores' waiters share the one general_tag of each task, and a task  *)
(* that is created is looked for in the ready list before it is appended.  *)
(*                                                                         *)
(* `links' holds the prev and next of every tag and of every list's head   *)
(* and tail.  A tag that leaves a list during a walk keeps what it had in  *)
(* it.  Outside walks that is dropped: a walk starts at a linked tag, and   *)
(* what it meets was linked when it started or is linked later.            *)
(* The creator is Main: its walk is elem_find's, one step for each element, *)
(* and process_execute, but not thread_start, disables interrupts for it.  *)
(***************************************************************************)
EXTENDS Sync, LinkedList

CONSTANTS
    ReadyList,      \* thread_ready_list, and
    WaitersOf       \* the waiters of each semaphore, by their numbers

ASSUME ThreadListsAssumption ==
    /\ ReadyList \in Nat \ {0}
    /\ WaitersOf \in [Sems -> Nat \ {0, ReadyList}]
    /\ \A s, r \in Sems : WaitersOf[s] = WaitersOf[r] => s = r
    /\ IsFiniteSet(Sems)

VARIABLES
    links,
    making,     \* the task that Main is creating
    elem,       \* elem_find's elem
    old_status  \* process_execute's; "none" in thread_start

walkVars == <<making, elem, old_status>>
listVars == <<links, walkVars>>
allVars == <<vars, listVars>>

Lists == {ReadyList} \cup {WaitersOf[s] : s \in Sems}

Ends == UNION {{ListHead(l), ListTail(l)} : l \in Lists}

\* A task's tag is in its own page and no head or tail of a list.
ASSUME TagsAssumption == Threads \cap (Ends \cup {Nil}) = {}

-----------------------------------------------------------------------------
\* thread_init appends idle.
ListsInit ==
    /\ Init
    /\ links = ListAppend(ListInit(Lists), ReadyList, Idle)
    /\ making = NULL
    /\ elem = Nil
    /\ old_status = "none"

\* Main is in elem_find, and cannot call anything else.
Walking == making # NULL
Free(t) == t = Main => ~Walking /\ old_status = "none"

\* list_pop
Popped(list, l) ==
    IF Walking THEN ListRemove(list, First(list, l)) ELSE Detach(list, First(list, l))

\* schedule, entered with statuses st and lists list.
Scheduled(st, list) ==
    LET queue == IF StillRunning(st) THEN ListAppend(list, ReadyList, current) ELSE list
        full  == IF ListEmpty(queue, ReadyList)
                 THEN ListPush(queue, ReadyList, Idle) ELSE queue
    IN  Popped(full, ReadyList)

Blocked == [status EXCEPT ![current] = "BLOCKED"]

\* sema_up
Upped(s) ==
    LET w == WaitersOf[s] IN
    IF ListEmpty(links, w) THEN links
    ELSE ListPush(Popped(links, w), ReadyList, First(links, w))

-----------------------------------------------------------------------------
(* The steps of Sync that change a list.                                   *)

\* The client's steps that change no list.
LockStep(t) ==
    /\ Free(t)
    /\ \/ \E l \in Locks : LockAcquire(t, l) \/ LockRelease(t, l)
       \/ \E e \in Events : EventDown(t, e)
       \/ Cli(t)
       \/ Sti(t)
    /\ UNCHANGED listVars

\* sema_down
Down(t) ==
    /\ SemaDown(t)
    /\ links' = IF pc'[t] = "wait"
                THEN Scheduled(Blocked, ListAppend(links, WaitersOf[target[t]], t))
                ELSE links
    /\ UNCHANGED walkVars

UpStep(t) == Up(t) /\ links' = Upped(target[t]) /\ UNCHANGED walkVars

Within(t) == (Own(t) \/ Resume(t)) /\ UNCHANGED listVars

\* thread_block and thread_yield
BlockStep(t) ==
    /\ Free(t)
    /\ Park(t)
    /\ links' = Scheduled(Blocked, links)
    /\ UNCHANGED walkVars

YieldStep(t) ==
    /\ Free(t)
    /\ Yield(t)
    /\ links' = Scheduled([status EXCEPT ![t] = "READY"],
                          ListAppend(links, ReadyList, t))
    /\ UNCHANGED walkVars

\* thread_unblock, from a thread or from the keyboard's interrupt.
Unblock(p) ==
    /\ (\E t \in Threads : Free(t) /\ Wake(t, p)) \/ IrqWake(p)
    /\ links' = ListPush(links, ReadyList, p)
    /\ UNCHANGED walkVars

TickStep ==
    /\ Tick
    /\ links' = IF ticks[current] = 0 THEN Scheduled(status, links) ELSE links
    /\ UNCHANGED walkVars

DeviceUp(e) == IrqUp(e) /\ links' = Upped(e) /\ UNCHANGED walkVars

OtherStep == (Halt \/ IrqOther) /\ UNCHANGED listVars

-----------------------------------------------------------------------------
(* The creation of a task, from the point where its task_struct is filled. *)

\* The creator calls it outside of its locks.
Creates(p) == Free(Main) /\ pc[p] = "new" /\ \A l \in Locks : depth[Main][l] = 0

\* Variant: process_execute walks with the interrupts of its caller.
ProcessOpen(p) ==
    /\ Calls(Main)
    /\ Creates(p)
    /\ old_status' = IF intr[Main] THEN "on" ELSE "off"
    /\ making' = p
    /\ elem' = First(links, ReadyList)
    /\ UNCHANGED <<vars, links>>

\* thread_start
ThreadStarts(p) ==
    /\ Calls(Main)
    /\ Creates(p)
    /\ making' = p
    /\ elem' = First(links, ReadyList)
    /\ UNCHANGED <<vars, links, old_status>>

\* process_execute
ProcessExecutes(p) ==
    /\ Creates(p)
    /\ Cli(Main)
    /\ old_status' = IF intr[Main] THEN "on" ELSE "off"
    /\ making' = p
    /\ elem' = First(links, ReadyList)
    /\ UNCHANGED links

\* elem_find's loop.  What it does at address 0 is left out: it is not known
\* whether it comes back.
Follow ==
    /\ Calls(Main) /\ Walking
    /\ elem \notin {making, ListTail(ReadyList), Nil}
    /\ elem' = links[elem].next
    /\ UNCHANGED <<vars, links, making, old_status>>

LinkedOnly(list) ==
    Restrict(list, {e \in DOMAIN list : e \in Threads =>
                                          \E l \in Lists : ElemFind(list, l, e)})

\* The ASSERT fails if the element was found; else the task is appended.
Appends(p) ==
    /\ p = making
    /\ elem \in {p, ListTail(ReadyList)}
    /\ IF elem = p
       THEN /\ Calls(Main)
            /\ panic' = TRUE
            /\ UNCHANGED <<current, status, ready, ticks, syncVars, links>>
       ELSE /\ Start(Main, p)
            /\ links' = LinkedOnly(ListAppend(links, ReadyList, p))
    /\ making' = NULL
    /\ elem' = Nil
    /\ UNCHANGED old_status

\* The intr_set_status at the end of process_execute.
Restore ==
    /\ making = NULL
    /\ old_status # "none"
    /\ IF old_status = "on" THEN Sti(Main) ELSE Cli(Main)
    /\ old_status' = "none"
    /\ UNCHANGED <<links, making, elem>>

Create ==
    \/ \E p \in Threads : ThreadStarts(p) \/ ProcessExecutes(p) \/ Appends(p)
    \/ Follow
    \/ Restore

ListsNext ==
    \/ \E t \in Threads :
          LockStep(t) \/ Down(t) \/ UpStep(t) \/ Within(t) \/ BlockStep(t) \/ YieldStep(t)
    \/ \E p \in Threads : Unblock(p)
    \/ \E e \in Events : DeviceUp(e)
    \/ TickStep
    \/ OtherStep
    \/ Create

ListsSpec == ListsInit /\ [][ListsNext]_allVars

-----------------------------------------------------------------------------
(* Safety.                                                                 *)

\* The pointers of a list: forwards it is the sequence of Sync, and every prev
\* is the element before.
Holds(l, list) ==
    LET all == <<ListHead(l)>> \o list \o <<ListTail(l)>>
    IN  \A k \in 1..Len(all) - 1 :
           links[all[k]].next = all[k + 1] /\ links[all[k + 1]].prev = all[k]

\* The lists are what Sync takes them for, although a task's one tag moves from
\* list to list and is not cleared when it leaves one (schedule, sema_down,
\* sema_up, thread_unblock).
TagsAgree ==
    /\ Holds(ReadyList, ready)
    /\ \A s \in Sems : Holds(WaitersOf[s], waiters[s])

\* elem_find, as process_execute calls it, goes along the list that it was given
\* (list.c:57): interrupts are disabled, so the tag it stands on does not move to
\* another list, as it may in thread_start's search (process.c:106, thread.c:116).
ProcessWalkStays ==
    Walking /\ old_status # "none" => elem = ListTail(ReadyList) \/ InList(ready, elem)

-----------------------------------------------------------------------------
(* The inductive invariant of ThreadLists_proofs.                          *)

\* The lists of Sync by the numbers of theirs here.
SemOf(l) == CHOOSE s \in Sems : WaitersOf[s] = l
Queues(r, w) == [l \in Lists |-> IF l = ReadyList THEN r ELSE w[SemOf(l)]]

\* The n-th that is linked at list l when its elements are s, from the head on.
Node(l, s, n) ==
    IF n = 0 THEN ListHead(l) ELSE IF n <= Len(s) THEN s[n] ELSE ListTail(l)

Chained(k, l, s) ==
    \A n \in 0..Len(s) :
        /\ k[Node(l, s, n)].next = Node(l, s, n + 1)
        /\ k[Node(l, s, n + 1)].prev = Node(l, s, n)

Tags == Threads \cup Ends
Apart(q) ==
    \A l, m \in Lists : \A i \in 1..Len(q[l]), j \in 1..Len(q[m]) :
        q[l][i] = q[m][j] => l = m /\ i = j

\* The links k hold the lists q, and no next leads out of what is linked.
ListsHold(k, q) ==
    /\ k \in [DOMAIN k -> [prev : Tags \cup {Nil}, next : Tags \cup {Nil}]]
    /\ Ends \subseteq DOMAIN k /\ DOMAIN k \subseteq Tags /\ IsFiniteSet(DOMAIN k)
    /\ \A e \in DOMAIN k : k[e].next \in DOMAIN k \cup {Nil}
    /\ Apart(q)
    /\ \A l \in Lists :
          /\ q[l] \in Seq(Threads)
          /\ \A i \in 1..Len(q[l]) : q[l][i] \in DOMAIN k
          /\ Chained(k, l, q[l])
          /\ k[ListTail(l)].next = Nil

\* Only in a walk there are tags that left their list, and the walk, wherever
\* they lead it, does not come to the new task.
Sound(k, q) ==
    /\ ListsHold(k, q)
    /\ IF Walking THEN making \notin DOMAIN k /\ elem \in DOMAIN k \cup {Nil}
       ELSE \A e \in DOMAIN k \cap Threads : \E l \in Lists : InList(q[l], e)

ListsInv ==
    /\ Inv
    /\ Sound(links, Queues(ready, waiters))
    /\ making \in Threads \cup {NULL}
    /\ Walking => pc[making] = "new"
    /\ old_status \in {"none", "on", "off"}
    /\ old_status # "none" => current = Main /\ pc[Main] = "body" /\ ~intr[Main]
    /\ ProcessWalkStays
=============================================================================
