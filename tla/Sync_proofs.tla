----------------------------- MODULE Sync_proofs -----------------------------
(***************************************************************************)
(* Proofs about the thread library, for every set of threads, locks and    *)
(* semaphores and every length of the time slices.                         *)
(***************************************************************************)
EXTENDS Sync, TLAPS

-----------------------------------------------------------------------------
(* The lists of lib/kernel/list.c.                                         *)

\* list_append puts one element behind the others.
LEMMA AppendList ==
    ASSUME NEW list \in Seq(Threads), NEW p \in Threads
    PROVE  /\ Append(list, p) \in Seq(Threads)
           /\ \A t : InList(Append(list, p), t) <=> InList(list, t) \/ t = p
           /\ NoDuplicates(list) /\ ~InList(list, p) => NoDuplicates(Append(list, p))
           /\ Append(list, p) # <<>>
<1> DEFINE a == Append(list, p)
<1>1. /\ a \in Seq(Threads)
      /\ Len(a) = Len(list) + 1
      /\ Len(list) \in Nat
      /\ \A i \in 1..Len(list) : a[i] = list[i]
      /\ a[Len(list) + 1] = p
  OBVIOUS
<1> HIDE DEF a
<1>2. ASSUME NEW t
      PROVE  InList(a, t) <=> InList(list, t) \/ t = p
  BY <1>1 DEF InList
<1>3. ASSUME NoDuplicates(list), ~InList(list, p)
      PROVE  NoDuplicates(a)
  BY <1>1, <1>3 DEF InList, NoDuplicates
<1>4. a # <<>>
  BY <1>1
<1> QED
  BY <1>1, <1>2, <1>3, <1>4 DEF a

\* list_push puts one element before the others.
LEMMA PushList ==
    ASSUME NEW list \in Seq(Threads), NEW p \in Threads
    PROVE  /\ <<p>> \o list \in Seq(Threads)
           /\ \A t : InList(<<p>> \o list, t) <=> InList(list, t) \/ t = p
           /\ NoDuplicates(list) /\ ~InList(list, p) => NoDuplicates(<<p>> \o list)
<1> DEFINE a == <<p>> \o list
<1>1. /\ a \in Seq(Threads)
      /\ Len(a) = Len(list) + 1
      /\ Len(list) \in Nat
      /\ \A i \in 2..Len(list) + 1 : a[i] = list[i - 1]
      /\ a[1] = p
  OBVIOUS
<1>2. \A i \in 1..Len(list) : a[i + 1] = list[i] /\ i + 1 \in 2..Len(list) + 1
  BY <1>1
<1> HIDE DEF a
<1>3. ASSUME NEW t
      PROVE  InList(a, t) <=> InList(list, t) \/ t = p
  <2>1. InList(a, t) => InList(list, t) \/ t = p
    BY <1>1 DEF InList
  <2>2. InList(list, t) => InList(a, t)
    BY <1>1, <1>2 DEF InList
  <2>3. InList(a, p)
    BY <1>1 DEF InList
  <2> QED
    BY <2>1, <2>2, <2>3
<1>4. ASSUME NoDuplicates(list), ~InList(list, p)
      PROVE  NoDuplicates(a)
  <2> SUFFICES ASSUME NEW i \in 1..Len(a), NEW j \in 1..Len(a), a[i] = a[j]
               PROVE  i = j
    BY DEF NoDuplicates
  <2>1. \A k \in 2..Len(a) : k - 1 \in 1..Len(list) /\ a[k] # p
    BY <1>1, <1>4 DEF InList
  <2>2. CASE i = 1 \/ j = 1
    BY <1>1, <2>1, <2>2
  <2>3. CASE i # 1 /\ j # 1
    <3>1. i \in 2..Len(a) /\ j \in 2..Len(a)
      BY <1>1, <2>3
    <3>2. list[i - 1] = list[j - 1]
      BY <1>1, <3>1
    <3>3. i - 1 = j - 1
      BY <1>4, <2>1, <3>1, <3>2 DEF NoDuplicates
    <3> QED
      BY <1>1, <3>3
  <2> QED
    BY <2>2, <2>3
<1> QED
  BY <1>1, <1>3, <1>4 DEF a

\* list_pop takes the first element off the list, and only that one.
LEMMA PopList ==
    ASSUME NEW list \in Seq(Threads), list # <<>>
    PROVE  /\ Head(list) \in Threads
           /\ Tail(list) \in Seq(Threads)
           /\ InList(list, Head(list))
           /\ \A t : InList(list, t) <=> InList(Tail(list), t) \/ t = Head(list)
           /\ NoDuplicates(list) => NoDuplicates(Tail(list)) /\ ~InList(Tail(list), Head(list))
  BY DEF InList, NoDuplicates

\* list_empty.
LEMMA EmptyList ==
    /\ <<>> \in Seq(Threads)
    /\ \A t : ~InList(<<>>, t)
    /\ NoDuplicates(<<>>)
  BY DEF InList, NoDuplicates

-----------------------------------------------------------------------------
(* The scheduler.                                                          *)

\* What holds of the statuses st and the ready list list that schedule is
\* entered with, whatever has made the caller give up the processor.
Schedulable(st, list) ==
    /\ st \in [Threads -> TaskStatus]
    /\ list \in Seq(Threads)
    /\ NoDuplicates(list)
    /\ \A t \in Threads : st[t] = "READY" <=> InList(list, t)
    /\ \A t \in Threads : st[t] = "RUNNING" => current = t
    /\ st[Idle] # "NEW"

\* schedule leaves the ready list and the statuses in agreement, its ASSERTs
\* hold, and it disturbs no blocked task but idle.
LEMMA ScheduleLemma ==
    ASSUME NEW st, NEW list,
           SchedTypeOK, Schedulable(st, list), Schedule(st, list)
    PROVE  /\ ScheduleAsserts(st, list)
           /\ current' \in Threads
           /\ status' \in [Threads -> TaskStatus]
           /\ ready' \in Seq(Threads)
           /\ ticks' \in [Threads -> Nat]
           /\ ReadyAgrees'
           /\ \A t \in Threads : status'[t] = "NEW" <=> st[t] = "NEW"
           /\ \A t \in Threads \ {Idle} : status'[t] = "BLOCKED" <=> st[t] = "BLOCKED"
           /\ status'[Idle] = "BLOCKED" => st[Idle] = "BLOCKED"
<1> USE ThreadsAssumption DEF TaskStatus
<1> DEFINE appended == IF StillRunning(st) THEN Append(list, current) ELSE list
           queue    == QueueAfter(st, list)
           parked   == IF StillRunning(st) THEN [st EXCEPT ![current] = "READY"] ELSE st
<1>0. /\ st \in [Threads -> TaskStatus]
      /\ list \in Seq(Threads)
      /\ current \in Threads
  BY DEF Schedulable, SchedTypeOK
<1>1. ~InList(list, current) \/ ~StillRunning(st)
  BY <1>0 DEF Schedulable, StillRunning
<1>2. /\ parked \in [Threads -> TaskStatus]
      /\ \A t \in Threads : parked[t] # "RUNNING"
      /\ \A t \in Threads : parked[t] = "NEW" <=> st[t] = "NEW"
      /\ \A t \in Threads : parked[t] = "BLOCKED" <=> st[t] = "BLOCKED"
  BY <1>0 DEF Schedulable, StillRunning
<1>3. /\ appended \in Seq(Threads)
      /\ NoDuplicates(appended)
      /\ \A t \in Threads : parked[t] = "READY" <=> InList(appended, t)
  <2>1. CASE StillRunning(st)
    BY <1>0, <1>1, <2>1, AppendList DEF Schedulable, StillRunning
  <2>2. CASE ~StillRunning(st)
    BY <1>0, <2>2 DEF Schedulable
  <2> QED
    BY <2>1, <2>2
<1>4. appended = <<>> => parked[Idle] = "BLOCKED"
  <2> SUFFICES ASSUME appended = <<>>
               PROVE  parked[Idle] = "BLOCKED"
    OBVIOUS
  <2>1. parked[Idle] # "READY"
    BY <1>3, EmptyList
  <2>2. parked[Idle] \in TaskStatus
    BY <1>2
  <2>3. parked[Idle] # "NEW" /\ parked[Idle] # "RUNNING"
    BY <1>2 DEF Schedulable
  <2> QED
    BY <2>1, <2>2, <2>3
<1>5. queue = IF appended = <<>> THEN <<Idle>> ELSE appended
  BY DEF QueueAfter
<1>6. /\ queue \in Seq(Threads) /\ queue # <<>>
      /\ NoDuplicates(queue)
      /\ \A t \in Threads :
            InList(queue, t) <=>
                parked[t] = "READY" \/ (t = Idle /\ appended = <<>>)
  <2>1. CASE appended = <<>>
    <3>1. queue = <<Idle>>
      BY <1>5, <2>1
    <3>2. \A t : InList(queue, t) <=> t = Idle
      BY <3>1 DEF InList
    <3>3. NoDuplicates(queue)
      BY <3>1 DEF NoDuplicates
    <3>4. \A t \in Threads : parked[t] # "READY"
      BY <1>3, <2>1, EmptyList
    <3> HIDE DEF queue, appended, parked
    <3> QED
      BY <2>1, <3>1, <3>2, <3>3, <3>4
  <2>2. CASE appended # <<>>
    BY <1>3, <1>5, <2>2
  <2> QED
    BY <2>1, <2>2
<1>7. /\ current' = Head(queue)
      /\ ready' = Tail(queue)
      /\ status' = [parked EXCEPT ![Head(queue)] = "RUNNING"]
      /\ ticks' = IF StillRunning(st)
                  THEN [ticks EXCEPT ![current] = Priority[current]]
                  ELSE ticks
  BY DEF Schedule
<1> HIDE DEF queue, appended, parked
<1>8. /\ current' \in Threads
      /\ ready' \in Seq(Threads)
      /\ InList(queue, current')
      /\ NoDuplicates(ready') /\ ~InList(ready', current')
      /\ \A t : InList(queue, t) <=> InList(ready', t) \/ t = current'
  BY <1>6, <1>7, PopList
<1>9. /\ status' \in [Threads -> TaskStatus]
      /\ status'[current'] = "RUNNING"
      /\ \A t \in Threads : t # current' => status'[t] = parked[t]
  BY <1>2, <1>7, <1>8
<1>10. ReadyAgrees'
  <2>1. ASSUME NEW t \in Threads
        PROVE  status'[t] = "READY" <=> InList(ready', t)
    <3>1. CASE t = current'
      BY <1>8, <1>9, <3>1
    <3>2. CASE t # current'
      <4>1. ~(t = Idle /\ appended = <<>>)
        BY <1>3, <1>6, <1>8, <3>2, EmptyList
      <4> QED
        BY <1>6, <1>8, <1>9, <3>2, <4>1
    <3> QED
      BY <3>1, <3>2
  <2>2. \A t \in Threads : status'[t] = "RUNNING" <=> current' = t
    BY <1>2, <1>9
  <2> QED
    BY <1>8, <2>1, <2>2 DEF ReadyAgrees
<1>11. ticks' \in [Threads -> Nat]
  BY <1>0, <1>7 DEF SchedTypeOK
<1>12. parked[current'] = "READY" \/ (current' = Idle /\ parked[Idle] = "BLOCKED")
  BY <1>4, <1>6, <1>8
<1>13. /\ \A t \in Threads : status'[t] = "NEW" <=> st[t] = "NEW"
       /\ \A t \in Threads \ {Idle} : status'[t] = "BLOCKED" <=> st[t] = "BLOCKED"
       /\ status'[Idle] = "BLOCKED" => st[Idle] = "BLOCKED"
  BY <1>2, <1>8, <1>9, <1>12
<1>14. ScheduleAsserts(st, list)
  <2>1. ~StillRunning(st) /\ list = <<>> => st[Idle] = "BLOCKED"
    BY <1>2, <1>4 DEF appended, parked
  <2> QED
    BY <1>1, <2>1 DEF ScheduleAsserts
<1> QED
  BY <1>8, <1>9, <1>10, <1>11, <1>13, <1>14

-----------------------------------------------------------------------------
(* What several steps of the invariance proof share.                       *)

\* The running thread is RUNNING and so in no list.
LEMMA RunningInNoList ==
    ASSUME Inv
    PROVE  /\ current \in Threads
           /\ status[current] = "RUNNING"
           /\ ~InList(ready, current)
           /\ \A s \in Sems : ~InList(waiters[s], current)
  BY DEF Inv, TypeOK, SchedTypeOK, ListsAgree, ReadyAgrees, WaitersAgree

\* A step of the running thread that does not reschedule leaves the lists in
\* agreement wherever in the library it takes the thread.
LEMMA QuietLists ==
    ASSUME Inv,
           UNCHANGED <<current, status, ready, waiters>>,
           \A u \in Threads \ {current} : pc'[u] = pc[u] /\ target'[u] = target[u]
    PROVE  ListsAgree'
<1>1. ReadyAgrees'
  BY DEF Inv, ListsAgree, ReadyAgrees
<1>2. WaitersAgree'
  BY RunningInNoList DEF Inv, ListsAgree, WaitersAgree
<1> QED
  BY <1>1, <1>2 DEF ListsAgree

\* A step that moves no thread into or out of the points "own" and "up" and
\* takes or gives back no unit.
LEMMA SameUnits ==
    ASSUME Inv,
           UNCHANGED <<value, holder, repeat, depth>>,
           \A u \in Threads, l \in Locks :
               pc'[u] \in {"own", "up"} /\ target'[u] = l <=>
               pc[u] \in {"own", "up"} /\ target[u] = l
    PROVE  HolderAgrees' /\ UnitsAgree'
  BY DEF Inv, HolderAgrees, UnitsAgree, UnitWith

\* The ready list and the statuses as they are satisfy what schedule needs,
\* also when the running thread has given up its RUNNING status.
LEMMA BlockSchedulable ==
    ASSUME Inv
    PROVE  Schedulable([status EXCEPT ![current] = "BLOCKED"], ready)
  BY RunningInNoList, ThreadsAssumption
  DEF Inv, TypeOK, SchedTypeOK, ListsAgree, ReadyAgrees, PlacesAgree,
      Schedulable, TaskStatus

LEMMA TickSchedulable ==
    ASSUME Inv
    PROVE  Schedulable(status, ready)
  BY ThreadsAssumption
  DEF Inv, TypeOK, SchedTypeOK, ListsAgree, ReadyAgrees, PlacesAgree, Schedulable

LEMMA YieldSchedulable ==
    ASSUME Inv
    PROVE  Schedulable([status EXCEPT ![current] = "READY"], Append(ready, current))
<1>1. /\ ready \in Seq(Threads)
      /\ NoDuplicates(ready)
      /\ status \in [Threads -> TaskStatus]
  BY DEF Inv, TypeOK, SchedTypeOK, ListsAgree, ReadyAgrees
<1> QED
  BY <1>1, AppendList, RunningInNoList, ThreadsAssumption
  DEF Inv, ListsAgree, ReadyAgrees, PlacesAgree, Schedulable, TaskStatus

-----------------------------------------------------------------------------
(* The invariant is preserved: calls that do not reschedule.               *)

LEMMA LockAcquireInv ==
    ASSUME Inv, NEW t \in Threads, NEW l \in Locks, LockAcquire(t, l)
    PROVE  Inv'
<1> USE DEF Sems
<1>1. /\ t = current /\ pc[t] = "body" /\ t # Idle
      /\ UNCHANGED <<schedVars, value, waiters, holder, intr>>
  BY DEF LockAcquire, Calls
<1>2. CASE holder[l] # t
  <2>1. /\ pc' = [pc EXCEPT ![t] = "down"]
        /\ target' = [target EXCEPT ![t] = l]
        /\ UNCHANGED <<repeat, depth>>
    BY <1>2 DEF LockAcquire
  <2>2. TypeOK'
    BY <1>1, <2>1 DEF Inv, TypeOK, SchedTypeOK, SyncTypeOK, schedVars, PC
  <2>3. NoPanic' /\ ListsAgree'
    BY <1>1, <2>1, QuietLists DEF Inv, NoPanic, schedVars, TypeOK, SyncTypeOK
  <2>4. PlacesAgree'
    BY <1>1, <2>1, RunningInNoList DEF Inv, PlacesAgree, schedVars, TypeOK, SyncTypeOK
  <2>5. HolderAgrees' /\ UnitsAgree'
    BY <1>1, <2>1, SameUnits DEF Inv, TypeOK, SyncTypeOK
  <2> QED
    BY <2>2, <2>3, <2>4, <2>5 DEF Inv
<1>3. CASE holder[l] = t
  <2>1. /\ repeat' = [repeat EXCEPT ![l] = @ + 1]
        /\ depth' = [depth EXCEPT ![t][l] = @ + 1]
        /\ UNCHANGED <<pc, target>>
    BY <1>3 DEF LockAcquire
  <2>2. TypeOK'
    BY <1>1, <2>1 DEF Inv, TypeOK, SchedTypeOK, SyncTypeOK, schedVars, PC
  <2>3. NoPanic' /\ ListsAgree'
    BY <1>1, <2>1, QuietLists DEF Inv, NoPanic, schedVars
  <2>4. PlacesAgree'
    BY <1>1, <2>1 DEF Inv, PlacesAgree, schedVars
  <2>5. depth[t][l] > 0 /\ depth[t][l] = repeat[l]
    BY <1>3 DEF Inv, HolderAgrees
  <2>6. /\ \A u \in Threads, k \in Locks :
              depth'[u][k] = IF u = t /\ k = l THEN depth[u][k] + 1 ELSE depth[u][k]
        /\ depth[t][l] \in Nat
        /\ t # NULL
    BY <2>1, SyncAssumption DEF Inv, TypeOK, SyncTypeOK
  <2>7. HolderAgrees'
    BY <1>1, <1>3, <2>1, <2>5, <2>6 DEF Inv, HolderAgrees, TypeOK, SyncTypeOK
  <2>8. \A u \in Threads, k \in Locks : UnitWith(u, k)' <=> UnitWith(u, k)
    BY <1>1, <2>1, <2>5, <2>6 DEF UnitWith
  <2>9. UnitsAgree'
    BY <1>1, <2>1, <2>6, <2>8 DEF Inv, UnitsAgree
  <2> QED
    BY <2>2, <2>3, <2>4, <2>7, <2>9 DEF Inv
<1> QED
  BY <1>2, <1>3

LEMMA LockReleaseInv ==
    ASSUME Inv, NEW t \in Threads, NEW l \in Locks, LockRelease(t, l)
    PROVE  Inv'
<1> USE DEF Sems
<1>1. /\ t = current /\ pc[t] = "body"
      /\ depth[t][l] > 0
      /\ depth' = [depth EXCEPT ![t][l] = @ - 1]
      /\ UNCHANGED <<current, status, ready, ticks, value, waiters, intr>>
  BY DEF LockRelease, Calls
<1>2. /\ holder[l] = t
      /\ depth[t][l] = repeat[l]
      /\ repeat[l] \in Nat
      /\ repeat[l] > 0
      /\ t # NULL
  BY <1>1, SyncAssumption DEF Inv, HolderAgrees, TypeOK, SyncTypeOK
<1>3. \A u \in Threads, k \in Locks :
          depth'[u][k] = IF u = t /\ k = l THEN repeat[l] - 1 ELSE depth[u][k]
  BY <1>1, <1>2 DEF Inv, TypeOK, SyncTypeOK
<1>4. depth' \in [Threads -> [Locks -> Nat]]
  BY <1>1, <1>2 DEF Inv, TypeOK, SyncTypeOK
<1>5. CASE repeat[l] > 1
  <2>1. /\ repeat' = [repeat EXCEPT ![l] = @ - 1]
        /\ KAssert(holder[l] = t)
        /\ UNCHANGED <<holder, pc, target>>
    BY <1>5 DEF LockRelease
  <2>2. TypeOK' /\ NoPanic'
    BY <1>1, <1>2, <1>4, <1>5, <2>1
    DEF Inv, TypeOK, SchedTypeOK, SyncTypeOK, NoPanic, KAssert
  <2>3. ListsAgree' /\ PlacesAgree'
    BY <1>1, <2>1, QuietLists DEF Inv, PlacesAgree
  <2>4. HolderAgrees'
    BY <1>1, <1>2, <1>3, <1>5, <2>1 DEF Inv, HolderAgrees, TypeOK, SyncTypeOK
  <2>5. \A u \in Threads, k \in Locks : UnitWith(u, k)' <=> UnitWith(u, k)
    BY <1>1, <1>2, <1>3, <1>5, <2>1 DEF UnitWith
  <2>6. UnitsAgree'
    BY <1>1, <1>2, <1>3, <1>5, <2>1, <2>5 DEF Inv, UnitsAgree
  <2> QED
    BY <2>2, <2>3, <2>4, <2>6 DEF Inv
<1>6. CASE repeat[l] = 1
  <2>1. /\ repeat' = [repeat EXCEPT ![l] = 0]
        /\ holder' = [holder EXCEPT ![l] = NULL]
        /\ pc' = [pc EXCEPT ![t] = "up"]
        /\ target' = [target EXCEPT ![t] = l]
        /\ KAssert(holder[l] = t /\ repeat[l] = 1)
    BY <1>6 DEF LockRelease
  <2>2. TypeOK' /\ NoPanic'
    BY <1>1, <1>2, <1>4, <1>6, <2>1
    DEF Inv, TypeOK, SchedTypeOK, SyncTypeOK, NoPanic, KAssert, PC
  <2>3. ListsAgree'
    BY <1>1, <2>1, QuietLists DEF Inv, TypeOK, SyncTypeOK
  <2>4. PlacesAgree'
    <3>1. t # Idle \/ pc[Idle] = "body"
      BY <1>1
    <3>2. t # Idle
      BY <1>1 DEF LockRelease
    <3>3. /\ pc'[t] = "up" /\ target'[t] = l
          /\ \A u \in Threads \ {t} : pc'[u] = pc[u] /\ target'[u] = target[u]
      BY <1>1, <2>1 DEF Inv, TypeOK, SyncTypeOK
    <3>4. status' = status /\ status[t] = "RUNNING"
      BY <1>1, RunningInNoList
    <3>5. Idle \in Threads /\ pc[t] = "body" /\ l \in Locks
      BY <1>1, ThreadsAssumption
    <3>6. \A u \in Threads \ {t} :
            /\ status'[u] = "NEW" <=> pc'[u] = "new"
            /\ status'[u] = "BLOCKED" => pc'[u] \in {"wait", "parked"}
            /\ pc'[u] \in {"down", "wait"} => target'[u] \in Sems
            /\ pc'[u] \in {"own", "up"} => target'[u] \in Locks
      BY <3>3, <3>4 DEF Inv, PlacesAgree
    <3>7. pc'[Idle] \in {"body", "parked", "sti", "halt"}
      BY <3>2, <3>3, <3>5 DEF Inv, PlacesAgree
    <3> QED
      BY <3>3, <3>4, <3>5, <3>6, <3>7 DEF PlacesAgree
  <2>5. HolderAgrees'
    <3>1. \A k \in Locks : /\ holder'[k] = IF k = l THEN NULL ELSE holder[k]
                           /\ repeat'[k] = IF k = l THEN 0 ELSE repeat[k]
      BY <2>1 DEF Inv, TypeOK, SyncTypeOK
    <3>2. \A u \in Threads \ {t} : ~(depth[u][l] > 0)
      BY <1>2 DEF Inv, HolderAgrees
    <3>3. \A u \in Threads : u # NULL
      BY SyncAssumption
    <3>4. \A u \in Threads, k \in Locks : depth[u][k] \in Nat
      BY DEF Inv, TypeOK, SyncTypeOK
    <3>5. \A u \in Threads : ~(depth'[u][l] > 0)
      BY <1>3, <1>6, <3>2
    <3> QED
      BY <1>3, <3>1, <3>3, <3>5 DEF Inv, HolderAgrees
  <2>6. \A u \in Threads, k \in Locks : UnitWith(u, k)' <=> UnitWith(u, k)
    BY <1>1, <1>2, <1>3, <1>6, <2>1 DEF UnitWith, Inv, TypeOK, SyncTypeOK
  <2>7. UnitsAgree'
    BY <1>1, <1>2, <1>3, <1>6, <2>1, <2>6 DEF Inv, UnitsAgree, TypeOK, SyncTypeOK
  <2> QED
    BY <2>2, <2>3, <2>4, <2>5, <2>7 DEF Inv
<1> QED
  BY <1>2, <1>5, <1>6

\* Calls that only move the running thread's pc or set its interrupt flag.
LEMMA EventDownInv ==
    ASSUME Inv, NEW t \in Threads, NEW e \in Events, EventDown(t, e)
    PROVE  Inv'
<1> USE DEF Sems
<1>1. /\ t = current /\ pc[t] = "body" /\ t # Idle
      /\ pc' = [pc EXCEPT ![t] = "down"]
      /\ target' = [target EXCEPT ![t] = e]
      /\ UNCHANGED <<schedVars, value, waiters, holder, repeat, intr, depth>>
  BY DEF EventDown, Calls
<1>2. TypeOK' /\ NoPanic'
  BY <1>1 DEF Inv, TypeOK, SchedTypeOK, SyncTypeOK, schedVars, PC, NoPanic
<1>3. ListsAgree'
  BY <1>1, QuietLists DEF Inv, schedVars, TypeOK, SyncTypeOK
<1>4. PlacesAgree'
  BY <1>1, RunningInNoList DEF Inv, PlacesAgree, schedVars, TypeOK, SyncTypeOK
<1>5. HolderAgrees' /\ UnitsAgree'
  BY <1>1, SameUnits DEF Inv, TypeOK, SyncTypeOK
<1> QED
  BY <1>2, <1>3, <1>4, <1>5 DEF Inv

LEMMA FlagInv ==
    ASSUME Inv, NEW t \in Threads, Cli(t) \/ Sti(t)
    PROVE  Inv'
<1>1. /\ intr' \in [Threads -> BOOLEAN]
      /\ UNCHANGED <<schedVars, value, waiters, holder, repeat, pc, target, depth>>
  BY DEF Cli, Sti, Inv, TypeOK, SyncTypeOK
<1>2. TypeOK' /\ NoPanic' /\ PlacesAgree'
  BY <1>1 DEF Inv, TypeOK, SchedTypeOK, SyncTypeOK, schedVars, NoPanic, PlacesAgree
<1>3. ListsAgree'
  BY <1>1, QuietLists DEF schedVars
<1>4. HolderAgrees' /\ UnitsAgree'
  BY <1>1, SameUnits
<1> QED
  BY <1>2, <1>3, <1>4 DEF Inv

LEMMA ResumeInv ==
    ASSUME Inv, (\E t \in Threads : Resume(t)) \/ Halt
    PROVE  Inv'
<1>1. PICK t \in Threads, p \in {"body", "sti", "halt"} :
          /\ t = current /\ pc[t] \in {"parked", "sti"}
          /\ t # Idle => p = "body"
          /\ pc' = [pc EXCEPT ![t] = p]
          /\ UNCHANGED <<schedVars, value, waiters, holder, repeat, target, intr, depth>>
  BY ThreadsAssumption DEF Resume, Halt, At
<1>2. TypeOK' /\ NoPanic'
  BY <1>1 DEF Inv, TypeOK, SchedTypeOK, SyncTypeOK, schedVars, PC, NoPanic
<1>3. ListsAgree'
  BY <1>1, QuietLists DEF Inv, schedVars, TypeOK, SyncTypeOK
<1>4. PlacesAgree'
  BY <1>1, RunningInNoList DEF Inv, PlacesAgree, schedVars, TypeOK, SyncTypeOK
<1>5. HolderAgrees' /\ UnitsAgree'
  BY <1>1, SameUnits DEF Inv, TypeOK, SyncTypeOK
<1> QED
  BY <1>2, <1>3, <1>4, <1>5 DEF Inv

-----------------------------------------------------------------------------
(* The invariant is preserved: taking a lock.                              *)

LEMMA TakeUnitInv ==
    ASSUME Inv, NEW t \in Threads, At(t, "down") \/ At(t, "wait"), TakeUnit(t)
    PROVE  Inv'
<1> USE DEF Sems
<1> DEFINE s == target[t]
<1>1. /\ t = current /\ pc[t] \in {"down", "wait"}
      /\ value[s] # 0
      /\ value' = [value EXCEPT ![s] = @ - 1]
      /\ KAssert(value[s] - 1 = 0)
      /\ pc' = [pc EXCEPT ![t] = IF s \in Locks THEN "own" ELSE "body"]
      /\ UNCHANGED <<current, status, ready, ticks, waiters, holder, repeat,
                     target, intr, depth>>
  BY DEF TakeUnit, At
<1>2. s \in Sems /\ t # Idle
  BY <1>1 DEF Inv, PlacesAgree
<1>3. value[s] = 1 /\ value' = [value EXCEPT ![s] = 0]
  <2>1. value[s] \in 0..1
    BY <1>2 DEF Inv, TypeOK, SyncTypeOK
  <2>2. value[s] = 1
    BY <1>1, <2>1
  <2>3. value[s] - 1 = 0
    BY <2>2
  <2> QED
    BY <1>1, <2>2, <2>3
<1>4. TypeOK' /\ NoPanic'
  BY <1>1, <1>2, <1>3
  DEF Inv, TypeOK, SchedTypeOK, SyncTypeOK, PC, NoPanic, KAssert
<1>5. ListsAgree'
  BY <1>1, QuietLists DEF Inv, TypeOK, SyncTypeOK
<1>6. PlacesAgree'
  BY <1>1, <1>2, RunningInNoList DEF Inv, PlacesAgree, TypeOK, SyncTypeOK
<1>7. HolderAgrees'
  BY <1>1 DEF Inv, HolderAgrees
<1>8. UnitsAgree'
  <2>1. \A u \in Threads, k \in Locks :
            UnitWith(u, k)' <=> UnitWith(u, k) \/ (u = t /\ k = s)
    BY <1>1 DEF UnitWith, Inv, TypeOK, SyncTypeOK
  <2>2. s \in Locks => \A u \in Threads : ~UnitWith(u, s)
    BY <1>3 DEF Inv, UnitsAgree
  <2>3. \A u \in Threads, k \in Locks : depth[u][k] \in Nat
    BY DEF Inv, TypeOK, SyncTypeOK
  <2>4. ASSUME NEW k \in Locks
        PROVE  /\ value'[k] = 0 <=> \E u \in Threads : UnitWith(u, k)'
               /\ \A u, v \in Threads : UnitWith(u, k)' /\ UnitWith(v, k)' => u = v
    BY <1>2, <1>3, <2>1, <2>2 DEF Inv, UnitsAgree, TypeOK, SyncTypeOK
  <2>5. ASSUME NEW k \in Locks, NEW u \in Threads,
               pc'[u] \in {"own", "up"}, target'[u] = k
        PROVE  depth'[u][k] = 0
    <3>1. CASE u = t
      BY <1>1, <2>2, <2>3, <2>5, <3>1 DEF UnitWith
    <3>2. CASE u # t
      BY <1>1, <2>5, <3>2 DEF Inv, UnitsAgree, TypeOK, SyncTypeOK
    <3> QED
      BY <3>1, <3>2
  <2> QED
    BY <2>4, <2>5 DEF UnitsAgree
<1> QED
  BY <1>4, <1>5, <1>6, <1>7, <1>8 DEF Inv

LEMMA OwnInv ==
    ASSUME Inv, NEW t \in Threads, Own(t)
    PROVE  Inv'
<1> USE DEF Sems
<1> DEFINE l == target[t]
<1>1. /\ t = current /\ pc[t] = "own"
      /\ holder' = [holder EXCEPT ![l] = t]
      /\ repeat' = [repeat EXCEPT ![l] = 1]
      /\ KAssert(repeat[l] = 0)
      /\ depth' = [depth EXCEPT ![t][l] = 1]
      /\ pc' = [pc EXCEPT ![t] = "body"]
      /\ UNCHANGED <<current, status, ready, ticks, value, waiters, target, intr>>
  BY DEF Own, At
<1>2. l \in Locks /\ t # Idle
  BY <1>1 DEF Inv, PlacesAgree
<1>3. \A u \in Threads, k \in Locks : depth[u][k] \in Nat
  BY DEF Inv, TypeOK, SyncTypeOK
<1>4. \A u \in Threads : ~(depth[u][l] > 0)
  <2>1. depth[t][l] = 0 /\ UnitWith(t, l)
    BY <1>1, <1>2 DEF Inv, UnitsAgree, UnitWith
  <2>2. \A u \in Threads : UnitWith(u, l) => u = t
    BY <1>2, <2>1 DEF Inv, UnitsAgree
  <2>3. ASSUME NEW u \in Threads, depth[u][l] > 0
        PROVE  FALSE
    <3>1. UnitWith(u, l)
      BY <2>3 DEF UnitWith
    <3>2. u = t
      BY <2>2, <3>1
    <3> QED
      BY <2>1, <2>3, <3>2
  <2> QED
    BY <2>3
<1>5. repeat[l] = 0
  <2>1. \A u \in Threads : holder[l] # u
    BY <1>2, <1>4 DEF Inv, HolderAgrees
  <2>2. holder[l] = NULL
    BY <1>2, <2>1 DEF Inv, TypeOK, SyncTypeOK
  <2> QED
    BY <1>2, <2>2 DEF Inv, HolderAgrees
<1>6. TypeOK' /\ NoPanic'
  BY <1>1, <1>2, <1>5
  DEF Inv, TypeOK, SchedTypeOK, SyncTypeOK, PC, NoPanic, KAssert
<1>7. ListsAgree'
  BY <1>1, QuietLists DEF Inv, TypeOK, SyncTypeOK
<1>8. PlacesAgree'
  BY <1>1, <1>2, RunningInNoList DEF Inv, PlacesAgree, TypeOK, SyncTypeOK
<1>9. /\ \A u \in Threads, k \in Locks :
            depth'[u][k] = IF u = t /\ k = l THEN 1 ELSE depth[u][k]
      /\ \A k \in Locks : holder'[k] = IF k = l THEN t ELSE holder[k]
      /\ \A k \in Locks : repeat'[k] = IF k = l THEN 1 ELSE repeat[k]
  BY <1>1, <1>2 DEF Inv, TypeOK, SyncTypeOK
<1>10. HolderAgrees'
  <2>1. t # NULL
    BY SyncAssumption
  <2> QED
    BY <1>4, <1>9, <2>1 DEF Inv, HolderAgrees
<1>11. UnitsAgree'
  <2>1. \A u \in Threads, k \in Locks : UnitWith(u, k)' <=> UnitWith(u, k)
    BY <1>1, <1>9 DEF UnitWith, Inv, TypeOK, SyncTypeOK
  <2>2. ASSUME NEW k \in Locks, NEW u \in Threads,
               pc'[u] \in {"own", "up"}, target'[u] = k
        PROVE  depth'[u][k] = 0
    BY <1>1, <1>9, <2>2 DEF Inv, UnitsAgree, TypeOK, SyncTypeOK
  <2> QED
    BY <1>1, <2>1, <2>2 DEF Inv, UnitsAgree
<1> QED
  BY <1>6, <1>7, <1>8, <1>10, <1>11 DEF Inv

-----------------------------------------------------------------------------
(* The invariant is preserved: steps that reschedule.                      *)

\* Outside sema_down, schedule leaves every waiter where it is.
LEMMA RescheduleLists ==
    ASSUME Inv, NEW st, NEW list, Schedulable(st, list), Schedule(st, list),
           UNCHANGED <<waiters, target>>,
           pc[current] # "wait",
           \A u \in Threads : pc'[u] = "wait" <=> pc[u] = "wait",
           \A u \in Threads \ {current} : st[u] = status[u]
    PROVE  ListsAgree'
<1>1. /\ ReadyAgrees'
      /\ \A u \in Threads \ {Idle} : status'[u] = "BLOCKED" <=> st[u] = "BLOCKED"
  BY ScheduleLemma DEF Inv, TypeOK
<1>2. pc[Idle] # "wait"
  BY DEF Inv, PlacesAgree
<1>3. WaitersAgree'
  BY <1>1, <1>2 DEF Inv, ListsAgree, WaitersAgree
<1> QED
  BY <1>1, <1>3 DEF ListsAgree

LEMMA ParkInv ==
    ASSUME Inv, NEW t \in Threads, Park(t)
    PROVE  Inv'
<1> DEFINE st == [status EXCEPT ![current] = "BLOCKED"]
<1>1. /\ t = current /\ pc[t] = "body"
      /\ Schedule(st, ready)
      /\ KAssert(ScheduleAsserts(st, ready))
      /\ pc' = [pc EXCEPT ![t] = "parked"]
      /\ UNCHANGED <<value, waiters, holder, repeat, target, intr, depth>>
  BY DEF Park, Calls, ThreadBlock, ThreadBlockAsserts
<1>2. Schedulable(st, ready)
  BY BlockSchedulable
<1>3. /\ ScheduleAsserts(st, ready)
      /\ current' \in Threads
      /\ status' \in [Threads -> TaskStatus]
      /\ ready' \in Seq(Threads)
      /\ ticks' \in [Threads -> Nat]
      /\ \A u \in Threads : status'[u] = "NEW" <=> st[u] = "NEW"
      /\ \A u \in Threads \ {Idle} : status'[u] = "BLOCKED" <=> st[u] = "BLOCKED"
      /\ status'[Idle] = "BLOCKED" => st[Idle] = "BLOCKED"
  BY <1>1, <1>2, ScheduleLemma DEF Inv, TypeOK
<1>4. \A u \in Threads \ {t} : st[u] = status[u] /\ pc'[u] = pc[u]
  BY <1>1 DEF Inv, TypeOK, SchedTypeOK, SyncTypeOK
<1>5. st[t] = "BLOCKED" /\ pc'[t] = "parked" /\ status[t] # "NEW"
  BY <1>1, RunningInNoList DEF Inv, TypeOK, SchedTypeOK, SyncTypeOK
<1>6. ListsAgree'
  BY <1>1, <1>2, <1>4, <1>5, RescheduleLists
<1> HIDE DEF st
<1>7. TypeOK' /\ NoPanic'
  BY <1>1, <1>3 DEF Inv, TypeOK, SchedTypeOK, SyncTypeOK, PC, NoPanic, KAssert
<1>8. PlacesAgree'
  <2>1. \A u \in Threads : status'[u] = "BLOCKED" => st[u] = "BLOCKED"
    BY <1>3
  <2>2. ASSUME NEW u \in Threads
        PROVE  /\ status'[u] = "NEW" <=> pc'[u] = "new"
               /\ status'[u] = "BLOCKED" => pc'[u] \in {"wait", "parked"}
               /\ pc'[u] \in {"down", "wait"} => target'[u] \in Sems
               /\ pc'[u] \in {"own", "up"} => target'[u] \in Locks
    <3>1. CASE u = t
      BY <1>1, <1>3, <1>5, <3>1
    <3>2. CASE u # t
      BY <1>1, <1>3, <1>4, <2>1, <3>2 DEF Inv, PlacesAgree
    <3> QED
      BY <3>1, <3>2
  <2>3. pc'[Idle] \in {"body", "parked", "sti", "halt"}
    BY <1>4, <1>5, ThreadsAssumption DEF Inv, PlacesAgree
  <2> QED
    BY <2>2, <2>3 DEF PlacesAgree
<1>9. HolderAgrees' /\ UnitsAgree'
  BY <1>1, <1>4, <1>5, SameUnits DEF Inv, TypeOK, SyncTypeOK
<1> QED
  BY <1>6, <1>7, <1>8, <1>9 DEF Inv

LEMMA YieldInv ==
    ASSUME Inv, NEW t \in Threads, Yield(t)
    PROVE  Inv'
<1> DEFINE st   == [status EXCEPT ![current] = "READY"]
           list == Append(ready, current)
<1>1. /\ t = current /\ pc[t] = "body"
      /\ Schedule(st, list)
      /\ KAssert(~InList(ready, current))
      /\ UNCHANGED syncVars
  BY DEF Yield, Calls, ThreadYield
<1>2. Schedulable(st, list)
  BY YieldSchedulable
<1>3. /\ current' \in Threads
      /\ status' \in [Threads -> TaskStatus]
      /\ ready' \in Seq(Threads)
      /\ ticks' \in [Threads -> Nat]
      /\ \A u \in Threads : status'[u] = "NEW" <=> st[u] = "NEW"
      /\ \A u \in Threads \ {Idle} : status'[u] = "BLOCKED" <=> st[u] = "BLOCKED"
      /\ status'[Idle] = "BLOCKED" => st[Idle] = "BLOCKED"
  BY <1>1, <1>2, ScheduleLemma DEF Inv, TypeOK
<1>4. \A u \in Threads \ {t} : st[u] = status[u]
  BY <1>1 DEF Inv, TypeOK, SchedTypeOK
<1>5. st[t] = "READY" /\ status[t] # "NEW"
  BY <1>1, RunningInNoList DEF Inv, TypeOK, SchedTypeOK
<1>6. ListsAgree'
  BY <1>1, <1>2, <1>4, RescheduleLists DEF syncVars
<1> HIDE DEF st, list
<1>7. TypeOK' /\ NoPanic'
  BY <1>1, <1>3, RunningInNoList
  DEF Inv, TypeOK, SchedTypeOK, SyncTypeOK, syncVars, NoPanic, KAssert
<1>8. PlacesAgree'
  <2>1. \A u \in Threads : status'[u] = "BLOCKED" => status[u] = "BLOCKED"
    BY <1>3, <1>4, <1>5
  <2> QED
    BY <1>1, <1>3, <1>4, <1>5, <2>1 DEF Inv, PlacesAgree, syncVars
<1>9. HolderAgrees' /\ UnitsAgree'
  BY <1>1, SameUnits DEF syncVars
<1> QED
  BY <1>6, <1>7, <1>8, <1>9 DEF Inv

LEMMA WaitInv ==
    ASSUME Inv, NEW t \in Threads, At(t, "down") \/ At(t, "wait"), Wait(t)
    PROVE  Inv'
<1> USE DEF Sems
<1> DEFINE s  == target[t]
           st == [status EXCEPT ![current] = "BLOCKED"]
<1>1. /\ t = current /\ pc[t] \in {"down", "wait"}
      /\ waiters' = [waiters EXCEPT ![s] = Append(@, t)]
      /\ Schedule(st, ready)
      /\ KAssert(~InList(waiters[s], t) /\ ScheduleAsserts(st, ready))
      /\ pc' = [pc EXCEPT ![t] = "wait"]
      /\ UNCHANGED <<value, holder, repeat, target, intr, depth>>
  BY DEF Wait, At, ThreadBlock, ThreadBlockAsserts
<1>2. s \in Sems /\ t # Idle
  BY <1>1 DEF Inv, PlacesAgree
<1>3. /\ ScheduleAsserts(st, ready)
      /\ current' \in Threads
      /\ status' \in [Threads -> TaskStatus]
      /\ ready' \in Seq(Threads)
      /\ ticks' \in [Threads -> Nat]
      /\ ReadyAgrees'
      /\ \A u \in Threads : status'[u] = "NEW" <=> st[u] = "NEW"
      /\ \A u \in Threads \ {Idle} : status'[u] = "BLOCKED" <=> st[u] = "BLOCKED"
      /\ status'[Idle] = "BLOCKED" => st[Idle] = "BLOCKED"
  BY <1>1, BlockSchedulable, ScheduleLemma DEF Inv, TypeOK
<1>4. \A u \in Threads \ {t} : st[u] = status[u] /\ pc'[u] = pc[u]
  BY <1>1 DEF Inv, TypeOK, SchedTypeOK, SyncTypeOK
<1>5. st[t] = "BLOCKED" /\ pc'[t] = "wait" /\ status[t] # "NEW"
  BY <1>1, RunningInNoList DEF Inv, TypeOK, SchedTypeOK, SyncTypeOK
<1>6. ~InList(waiters[s], t)
  BY <1>1, <1>2, RunningInNoList
<1> HIDE DEF st
<1>7. waiters[s] \in Seq(Threads) /\ NoDuplicates(waiters[s])
  BY <1>2 DEF Inv, TypeOK, SyncTypeOK, ListsAgree, WaitersAgree
<1>8. /\ waiters'[s] \in Seq(Threads)
      /\ NoDuplicates(waiters'[s])
      /\ \A u : InList(waiters'[s], u) <=> InList(waiters[s], u) \/ u = t
      /\ \A r \in Sems \ {s} : waiters'[r] = waiters[r]
  BY <1>1, <1>2, <1>6, <1>7, AppendList DEF Inv, TypeOK, SyncTypeOK
<1>9. TypeOK' /\ NoPanic'
  <2>1. waiters' \in [Sems -> Seq(Threads)]
    BY <1>1, <1>2, <1>8 DEF Inv, TypeOK, SyncTypeOK
  <2> QED
    BY <1>1, <1>3, <1>6, <2>1
    DEF Inv, TypeOK, SchedTypeOK, SyncTypeOK, PC, NoPanic, KAssert
<1>10. WaitersAgree'
  <2>1. ASSUME NEW r \in Sems, NEW u \in Threads
        PROVE  InList(waiters'[r], u) <=>
                  pc'[u] = "wait" /\ status'[u] = "BLOCKED" /\ target'[u] = r
    <3>1. InList(waiters[r], u) <=>
              pc[u] = "wait" /\ status[u] = "BLOCKED" /\ target[u] = r
      BY DEF Inv, ListsAgree, WaitersAgree
    <3>2. CASE u = t
      <4>1. status'[t] = "BLOCKED"
        BY <1>2, <1>3, <1>5
      <4>2. ~InList(waiters[r], t)
        BY <1>1, RunningInNoList
      <4> QED
        BY <1>1, <1>5, <1>8, <3>2, <4>1, <4>2
    <3>3. CASE u # t /\ u # Idle
      BY <1>1, <1>3, <1>4, <1>8, <3>1, <3>3
    <3>4. CASE u # t /\ u = Idle
      <4>1. pc[u] # "wait" /\ pc'[u] # "wait"
        BY <1>4, <3>4 DEF Inv, PlacesAgree
      <4> QED
        BY <1>8, <3>1, <3>4, <4>1
    <3> QED
      BY <3>2, <3>3, <3>4
  <2>2. \A r \in Sems : NoDuplicates(waiters'[r])
    BY <1>8 DEF Inv, ListsAgree, WaitersAgree
  <2> QED
    BY <2>1, <2>2 DEF WaitersAgree
<1>11. PlacesAgree'
  <2>1. \A u \in Threads : status'[u] = "BLOCKED" => st[u] = "BLOCKED"
    BY <1>3
  <2>2. ASSUME NEW u \in Threads
        PROVE  /\ status'[u] = "NEW" <=> pc'[u] = "new"
               /\ status'[u] = "BLOCKED" => pc'[u] \in {"wait", "parked"}
               /\ pc'[u] \in {"down", "wait"} => target'[u] \in Sems
               /\ pc'[u] \in {"own", "up"} => target'[u] \in Locks
    <3>1. CASE u = t
      BY <1>1, <1>2, <1>3, <1>5, <3>1
    <3>2. CASE u # t
      BY <1>1, <1>3, <1>4, <2>1, <3>2 DEF Inv, PlacesAgree
    <3> QED
      BY <3>1, <3>2
  <2>3. pc'[Idle] \in {"body", "parked", "sti", "halt"}
    BY <1>2, <1>4, <1>5, ThreadsAssumption DEF Inv, PlacesAgree
  <2> QED
    BY <2>2, <2>3 DEF PlacesAgree
<1>12. HolderAgrees' /\ UnitsAgree'
  BY <1>1, <1>4, <1>5, SameUnits DEF Inv, TypeOK, SyncTypeOK
<1> QED
  BY <1>3, <1>9, <1>10, <1>11, <1>12 DEF Inv, ListsAgree

\* An interrupt does not move any thread in the library; it ends idle's hlt.
LEMMA InterruptPlaces ==
    ASSUME Inv, Interrupt
    PROVE  /\ pc' \in [Threads -> PC]
           /\ pc[current] # "wait"
           /\ \A u \in Threads \ {Idle} : pc'[u] = pc[u]
           /\ pc'[Idle] \in {"body", "parked", "sti", "halt"}
           /\ pc[Idle] \in {"body", "parked", "sti", "halt"}
           /\ pc'[Idle] = "parked" <=> pc[Idle] = "parked"
           /\ UNCHANGED <<holder, repeat, target, intr, depth>>
  BY ThreadsAssumption
  DEF Inv, TypeOK, SyncTypeOK, PlacesAgree, Interrupt, InterruptsOn, PC

LEMMA TickInv ==
    ASSUME Inv, Tick
    PROVE  Inv'
<1>1. /\ pc' \in [Threads -> PC]
      /\ pc[current] # "wait"
      /\ \A u \in Threads \ {Idle} : pc'[u] = pc[u]
      /\ pc'[Idle] \in {"body", "parked", "sti", "halt"}
      /\ pc[Idle] \in {"body", "parked", "sti", "halt"}
      /\ pc'[Idle] = "parked" <=> pc[Idle] = "parked"
      /\ UNCHANGED <<holder, repeat, target, intr, depth, value, waiters>>
  BY InterruptPlaces DEF Tick
<1>2. HolderAgrees' /\ UnitsAgree'
  BY <1>1, SameUnits
<1>3. CASE ticks[current] = 0
  <2>1. Schedule(status, ready) /\ KAssert(ScheduleAsserts(status, ready))
    BY <1>3 DEF Tick, TimerHandler
  <2>2. Schedulable(status, ready)
    BY TickSchedulable
  <2>3. /\ ScheduleAsserts(status, ready)
        /\ current' \in Threads
        /\ status' \in [Threads -> TaskStatus]
        /\ ready' \in Seq(Threads)
        /\ ticks' \in [Threads -> Nat]
        /\ \A u \in Threads : status'[u] = "NEW" <=> status[u] = "NEW"
        /\ \A u \in Threads \ {Idle} : status'[u] = "BLOCKED" <=> status[u] = "BLOCKED"
        /\ status'[Idle] = "BLOCKED" => status[Idle] = "BLOCKED"
    BY <2>1, <2>2, ScheduleLemma DEF Inv, TypeOK
  <2>4. ListsAgree'
    BY <1>1, <2>1, <2>2, RescheduleLists
  <2>5. TypeOK' /\ NoPanic'
    BY <1>1, <2>1, <2>3 DEF Inv, TypeOK, SchedTypeOK, SyncTypeOK, NoPanic, KAssert
  <2>6. PlacesAgree'
    BY <1>1, <2>3, ThreadsAssumption DEF Inv, PlacesAgree
  <2> QED
    BY <1>2, <2>4, <2>5, <2>6 DEF Inv
<1>4. CASE ticks[current] # 0
  <2>1. /\ ticks' = [ticks EXCEPT ![current] = @ - 1]
        /\ UNCHANGED <<current, status, ready, panic>>
    BY <1>4 DEF Tick, TimerHandler
  <2>2. ticks' \in [Threads -> Nat]
    BY <1>4, <2>1 DEF Inv, TypeOK, SchedTypeOK
  <2>3. TypeOK' /\ NoPanic'
    BY <1>1, <2>1, <2>2 DEF Inv, TypeOK, SchedTypeOK, SyncTypeOK, NoPanic
  <2>4. ListsAgree'
    BY <1>1, <2>1 DEF Inv, ListsAgree, ReadyAgrees, WaitersAgree
  <2>5. PlacesAgree'
    BY <1>1, <2>1, ThreadsAssumption DEF Inv, PlacesAgree
  <2> QED
    BY <1>2, <2>3, <2>4, <2>5 DEF Inv
<1> QED
  BY <1>3, <1>4

LEMMA IrqOtherInv ==
    ASSUME Inv, IrqOther
    PROVE  Inv'
<1>1. /\ pc' \in [Threads -> PC]
      /\ pc[current] # "wait"
      /\ \A u \in Threads \ {Idle} : pc'[u] = pc[u]
      /\ pc'[Idle] \in {"body", "parked", "sti", "halt"}
      /\ pc[Idle] \in {"body", "parked", "sti", "halt"}
      /\ pc'[Idle] = "parked" <=> pc[Idle] = "parked"
      /\ UNCHANGED <<schedVars, holder, repeat, target, intr, depth, value, waiters>>
  BY InterruptPlaces DEF IrqOther
<1>2. TypeOK' /\ NoPanic'
  BY <1>1 DEF Inv, TypeOK, SchedTypeOK, SyncTypeOK, NoPanic, schedVars
<1>3. ListsAgree'
  BY <1>1 DEF Inv, ListsAgree, ReadyAgrees, WaitersAgree, schedVars
<1>4. PlacesAgree'
  BY <1>1, ThreadsAssumption DEF Inv, PlacesAgree, schedVars
<1>5. HolderAgrees' /\ UnitsAgree'
  BY <1>1, SameUnits
<1> QED
  BY <1>2, <1>3, <1>4, <1>5 DEF Inv

-----------------------------------------------------------------------------
(* The invariant is preserved: steps that wake a thread.                   *)

\* Unblocking a blocked task puts it on the ready list and nowhere else.
LEMMA UnblockLemma ==
    ASSUME Inv, NEW p \in Threads, status[p] = "BLOCKED", ThreadUnblock(p)
    PROVE  /\ ThreadUnblockAsserts(p)
           /\ ready' \in Seq(Threads)
           /\ status' \in [Threads -> TaskStatus]
           /\ status'[p] = "READY"
           /\ \A u \in Threads \ {p} : status'[u] = status[u]
           /\ UNCHANGED <<current, ticks>>
           /\ ReadyAgrees'
<1>1. /\ ready' = <<p>> \o ready
      /\ status' = [status EXCEPT ![p] = "READY"]
      /\ UNCHANGED <<current, ticks>>
  BY DEF ThreadUnblock
<1>2. /\ ready \in Seq(Threads)
      /\ status \in [Threads -> TaskStatus]
      /\ NoDuplicates(ready)
      /\ ~InList(ready, p)
  BY DEF Inv, TypeOK, SchedTypeOK, ListsAgree, ReadyAgrees
<1>3. /\ ready' \in Seq(Threads)
      /\ NoDuplicates(ready')
      /\ \A u : InList(ready', u) <=> InList(ready, u) \/ u = p
  BY <1>1, <1>2, PushList
<1>4. /\ status' \in [Threads -> TaskStatus]
      /\ status'[p] = "READY"
      /\ \A u \in Threads \ {p} : status'[u] = status[u]
  BY <1>1, <1>2 DEF TaskStatus
<1>5. ReadyAgrees'
  BY <1>1, <1>3, <1>4 DEF Inv, ListsAgree, ReadyAgrees
<1> QED
  BY <1>1, <1>2, <1>3, <1>4, <1>5 DEF ThreadUnblockAsserts

\* sema_up on a semaphore that is down: its ASSERTs hold, and the thread it
\* wakes moves from the waiters to the ready list.
LEMMA SemaUpLemma ==
    ASSUME Inv, NEW s \in Sems, value[s] = 0, SemaUp(s),
           UNCHANGED target,
           \A u \in Threads : pc'[u] = "wait" <=> pc[u] = "wait"
    PROVE  /\ value' = [value EXCEPT ![s] = 1]
           /\ NoPanic'
           /\ SchedTypeOK'
           /\ waiters' \in [Sems -> Seq(Threads)]
           /\ \A u \in Threads : status'[u] = "NEW" <=> status[u] = "NEW"
           /\ \A u \in Threads : status'[u] = "BLOCKED" => status[u] = "BLOCKED"
           /\ ListsAgree'
<1>1. value' = [value EXCEPT ![s] = 1]
  BY DEF SemaUp
<1>2. CASE waiters[s] = <<>>
  <2>1. /\ KAssert(value[s] = 0)
        /\ UNCHANGED <<current, status, ready, ticks, waiters>>
    BY <1>2 DEF SemaUp
  <2> QED
    BY <1>1, <2>1
    DEF Inv, TypeOK, SchedTypeOK, SyncTypeOK, NoPanic, KAssert, ListsAgree,
        ReadyAgrees, WaitersAgree
<1>3. CASE waiters[s] # <<>>
  <2> DEFINE p == Head(waiters[s])
  <2>1. /\ ThreadUnblock(p)
        /\ waiters' = [waiters EXCEPT ![s] = Tail(@)]
        /\ KAssert(value[s] = 0 /\ ThreadUnblockAsserts(p))
    BY <1>3 DEF SemaUp
  <2>2. waiters[s] \in Seq(Threads) /\ NoDuplicates(waiters[s])
    BY DEF Inv, TypeOK, SyncTypeOK, ListsAgree, WaitersAgree
  <2>3. /\ p \in Threads
        /\ Tail(waiters[s]) \in Seq(Threads)
        /\ InList(waiters[s], p)
        /\ \A u : InList(waiters[s], u) <=> InList(Tail(waiters[s]), u) \/ u = p
        /\ NoDuplicates(Tail(waiters[s])) /\ ~InList(Tail(waiters[s]), p)
    BY <1>3, <2>2, PopList
  <2> HIDE DEF p
  <2>4. status[p] = "BLOCKED" /\ pc[p] = "wait" /\ target[p] = s
    BY <2>3 DEF Inv, ListsAgree, WaitersAgree
  <2>5. /\ ThreadUnblockAsserts(p)
        /\ ready' \in Seq(Threads)
        /\ status' \in [Threads -> TaskStatus]
        /\ status'[p] = "READY"
        /\ \A u \in Threads \ {p} : status'[u] = status[u]
        /\ UNCHANGED <<current, ticks>>
        /\ ReadyAgrees'
    BY <2>1, <2>3, <2>4, UnblockLemma
  <2>6. /\ waiters' \in [Sems -> Seq(Threads)]
        /\ waiters'[s] = Tail(waiters[s])
        /\ \A r \in Sems \ {s} : waiters'[r] = waiters[r]
    BY <2>1, <2>3 DEF Inv, TypeOK, SyncTypeOK
  <2>7. WaitersAgree'
    <3>1. ASSUME NEW r \in Sems, NEW u \in Threads
          PROVE  InList(waiters'[r], u) <=>
                    pc'[u] = "wait" /\ status'[u] = "BLOCKED" /\ target'[u] = r
      <4>1. InList(waiters[r], u) <=>
                pc[u] = "wait" /\ status[u] = "BLOCKED" /\ target[u] = r
        BY DEF Inv, ListsAgree, WaitersAgree
      <4>2. CASE u = p
        BY <2>3, <2>4, <2>5, <2>6, <4>1, <4>2
      <4>3. CASE u # p
        BY <2>3, <2>5, <2>6, <4>1, <4>3
      <4> QED
        BY <4>2, <4>3
    <3>2. \A r \in Sems : NoDuplicates(waiters'[r])
      BY <2>3, <2>6 DEF Inv, ListsAgree, WaitersAgree
    <3> QED
      BY <3>1, <3>2 DEF WaitersAgree
  <2>8. NoPanic' /\ SchedTypeOK'
    BY <2>1, <2>5 DEF Inv, TypeOK, SchedTypeOK, NoPanic, KAssert
  <2> QED
    BY <1>1, <2>4, <2>5, <2>6, <2>7, <2>8 DEF ListsAgree
<1> QED
  BY <1>2, <1>3

LEMMA UpInv ==
    ASSUME Inv, NEW t \in Threads, Up(t)
    PROVE  Inv'
<1> USE DEF Sems
<1> DEFINE l == target[t]
<1>1. /\ t = current /\ pc[t] = "up"
      /\ SemaUp(l)
      /\ pc' = [pc EXCEPT ![t] = "body"]
      /\ UNCHANGED <<holder, repeat, target, intr, depth>>
  BY DEF Up, At
<1>2. l \in Locks /\ t # Idle
  BY <1>1 DEF Inv, PlacesAgree
<1>3. UnitWith(t, l) /\ depth[t][l] = 0
  BY <1>1, <1>2 DEF Inv, UnitsAgree, UnitWith
<1>4. value[l] = 0 /\ \A u \in Threads : UnitWith(u, l) => u = t
  BY <1>2, <1>3 DEF Inv, UnitsAgree
<1>5. \A u \in Threads : pc'[u] = IF u = t THEN "body" ELSE pc[u]
  BY <1>1 DEF Inv, TypeOK, SyncTypeOK
<1>6. /\ value' = [value EXCEPT ![l] = 1]
      /\ NoPanic'
      /\ SchedTypeOK'
      /\ waiters' \in [Sems -> Seq(Threads)]
      /\ \A u \in Threads : status'[u] = "NEW" <=> status[u] = "NEW"
      /\ \A u \in Threads : status'[u] = "BLOCKED" => status[u] = "BLOCKED"
      /\ ListsAgree'
  <2>1. \A u \in Threads : pc'[u] = "wait" <=> pc[u] = "wait"
    BY <1>1, <1>5
  <2>2. l \in Sems
    BY <1>2
  <2> QED
    BY <1>1, <1>4, <2>1, <2>2, SemaUpLemma
<1>7. TypeOK'
  BY <1>1, <1>2, <1>6 DEF Inv, TypeOK, SyncTypeOK, PC
<1>8. PlacesAgree'
  <2>1. status[t] = "RUNNING"
    BY <1>1, RunningInNoList
  <2> QED
    BY <1>1, <1>2, <1>5, <1>6, <2>1 DEF Inv, PlacesAgree
<1>9. HolderAgrees'
  BY <1>1 DEF Inv, HolderAgrees
<1>10. UnitsAgree'
  <2>1. \A k \in Locks : value'[k] = IF k = l THEN 1 ELSE value[k]
    BY <1>2, <1>6 DEF Inv, TypeOK, SyncTypeOK
  <2>2. \A u \in Threads, k \in Locks :
            UnitWith(u, k)' <=> UnitWith(u, k) /\ ~(u = t /\ k = l)
    BY <1>1, <1>3, <1>5 DEF UnitWith
  <2>3. ASSUME NEW k \in Locks, k = l
        PROVE  \A u \in Threads : ~(UnitWith(u, k)')
    BY <1>4, <2>2, <2>3
  <2>4. ASSUME NEW k \in Locks, k # l
        PROVE  \A u \in Threads : UnitWith(u, k)' <=> UnitWith(u, k)
    BY <2>2, <2>4
  <2>5. ASSUME NEW k \in Locks
        PROVE  /\ value'[k] = 0 <=> \E u \in Threads : UnitWith(u, k)'
               /\ \A u, v \in Threads : UnitWith(u, k)' /\ UnitWith(v, k)' => u = v
    <3>1. CASE k = l
      BY <2>1, <2>3, <3>1
    <3>2. CASE k # l
      BY <2>1, <2>4, <3>2 DEF Inv, UnitsAgree
    <3> QED
      BY <3>1, <3>2
  <2>6. \A k \in Locks, u \in Threads :
            pc'[u] \in {"own", "up"} /\ target'[u] = k => depth'[u][k] = 0
    BY <1>1, <1>5 DEF Inv, UnitsAgree
  <2> QED
    BY <2>5, <2>6 DEF UnitsAgree
<1> QED
  BY <1>6, <1>7, <1>8, <1>9, <1>10 DEF Inv

LEMMA IrqUpInv ==
    ASSUME Inv, NEW e \in Events, IrqUp(e)
    PROVE  Inv'
<1> USE DEF Sems
<1>1. /\ pc' \in [Threads -> PC]
      /\ \A u \in Threads \ {Idle} : pc'[u] = pc[u]
      /\ pc'[Idle] \in {"body", "parked", "sti", "halt"}
      /\ pc[Idle] \in {"body", "parked", "sti", "halt"}
      /\ pc'[Idle] = "parked" <=> pc[Idle] = "parked"
      /\ UNCHANGED <<holder, repeat, target, intr, depth>>
  BY InterruptPlaces DEF IrqUp
<1>2. value[e] = 0 /\ SemaUp(e) /\ e \in Sems /\ e \notin Locks
  BY SyncAssumption DEF IrqUp
<1>3. /\ value' = [value EXCEPT ![e] = 1]
      /\ NoPanic'
      /\ SchedTypeOK'
      /\ waiters' \in [Sems -> Seq(Threads)]
      /\ \A u \in Threads : status'[u] = "NEW" <=> status[u] = "NEW"
      /\ \A u \in Threads : status'[u] = "BLOCKED" => status[u] = "BLOCKED"
      /\ ListsAgree'
  BY <1>1, <1>2, SemaUpLemma
<1>4. TypeOK'
  BY <1>1, <1>2, <1>3 DEF Inv, TypeOK, SyncTypeOK
<1>5. PlacesAgree'
  BY <1>1, <1>3, ThreadsAssumption DEF Inv, PlacesAgree
<1>6. HolderAgrees'
  BY <1>1 DEF Inv, HolderAgrees
<1>7. UnitsAgree'
  <2>1. \A k \in Locks : value'[k] = value[k]
    BY <1>2, <1>3 DEF Inv, TypeOK, SyncTypeOK
  <2>2. \A u \in Threads : pc'[u] \in {"own", "up"} <=> pc[u] \in {"own", "up"}
    BY <1>1
  <2>3. \A u \in Threads, k \in Locks : UnitWith(u, k)' <=> UnitWith(u, k)
    BY <1>1, <2>2 DEF UnitWith
  <2> QED
    BY <1>1, <2>1, <2>2, <2>3 DEF Inv, UnitsAgree
<1> QED
  BY <1>3, <1>4, <1>5, <1>6, <1>7 DEF Inv

LEMMA WakesInv ==
    ASSUME Inv, NEW p \in Threads, Wakes(p),
           UNCHANGED <<value, waiters, holder, repeat, target, intr, depth>>,
           pc' \in [Threads -> PC],
           \A u \in Threads \ {Idle} : pc'[u] = pc[u],
           pc'[Idle] \in {"body", "parked", "sti", "halt"},
           pc'[Idle] = "parked" <=> pc[Idle] = "parked"
    PROVE  Inv'
<1>1. /\ p # Idle /\ pc[p] = "parked" /\ status[p] = "BLOCKED"
      /\ ThreadUnblock(p)
      /\ KAssert(ThreadUnblockAsserts(p))
  BY DEF Wakes
<1>2. /\ ThreadUnblockAsserts(p)
      /\ ready' \in Seq(Threads)
      /\ status' \in [Threads -> TaskStatus]
      /\ status'[p] = "READY"
      /\ \A u \in Threads \ {p} : status'[u] = status[u]
      /\ UNCHANGED <<current, ticks>>
      /\ ReadyAgrees'
  BY <1>1, UnblockLemma
<1>3. pc[Idle] \in {"body", "parked", "sti", "halt"}
  BY DEF Inv, PlacesAgree
<1>4. TypeOK' /\ NoPanic'
  BY <1>1, <1>2 DEF Inv, TypeOK, SchedTypeOK, SyncTypeOK, NoPanic, KAssert
<1>5. WaitersAgree'
  <2>1. \A u \in Threads : pc'[u] = "wait" <=> pc[u] = "wait"
    BY <1>3
  <2> QED
    BY <1>1, <1>2, <2>1 DEF Inv, ListsAgree, WaitersAgree
<1>6. PlacesAgree'
  BY <1>1, <1>2, <1>3, ThreadsAssumption DEF Inv, PlacesAgree
<1>7. HolderAgrees' /\ UnitsAgree'
  BY <1>3, SameUnits
<1> QED
  BY <1>2, <1>4, <1>5, <1>6, <1>7 DEF Inv, ListsAgree

LEMMA WakeInv ==
    ASSUME Inv, NEW p \in Threads, (\E t \in Threads : Wake(t, p)) \/ IrqWake(p)
    PROVE  Inv'
<1>1. CASE \E t \in Threads : Wake(t, p)
  <2>1. Wakes(p) /\ UNCHANGED syncVars
    BY <1>1 DEF Wake
  <2> QED
    BY <2>1, WakesInv DEF syncVars, Inv, TypeOK, SyncTypeOK, PlacesAgree
<1>2. CASE IrqWake(p)
  <2>1. Interrupt /\ Wakes(p) /\ UNCHANGED <<value, waiters>>
    BY <1>2 DEF IrqWake
  <2> QED
    BY <2>1, InterruptPlaces, WakesInv
<1> QED
  BY <1>1, <1>2

LEMMA StartInv ==
    ASSUME Inv, NEW t \in Threads, NEW p \in Threads, Start(t, p)
    PROVE  Inv'
<1>1. /\ pc[p] = "new"
      /\ status' = [status EXCEPT ![p] = "READY"]
      /\ ready' = Append(ready, p)
      /\ ticks' = [ticks EXCEPT ![p] = Priority[p]]
      /\ KAssert(~InList(ready, p))
      /\ pc' = [pc EXCEPT ![p] = "body"]
      /\ UNCHANGED <<current, value, waiters, holder, repeat, target, intr, depth>>
  BY DEF Start, ThreadStart
<1>2. status[p] = "NEW" /\ p # Idle
  BY <1>1 DEF Inv, PlacesAgree
<1>3. /\ ready \in Seq(Threads) /\ NoDuplicates(ready) /\ ~InList(ready, p)
      /\ status \in [Threads -> TaskStatus]
      /\ pc \in [Threads -> PC]
  BY <1>2 DEF Inv, TypeOK, SchedTypeOK, SyncTypeOK, ListsAgree, ReadyAgrees
<1>4. /\ ready' \in Seq(Threads) /\ NoDuplicates(ready')
      /\ \A u : InList(ready', u) <=> InList(ready, u) \/ u = p
  BY <1>1, <1>3, AppendList
<1>5. /\ \A u \in Threads : status'[u] = IF u = p THEN "READY" ELSE status[u]
      /\ \A u \in Threads : pc'[u] = IF u = p THEN "body" ELSE pc[u]
  BY <1>1, <1>3
<1>6. TypeOK' /\ NoPanic'
  BY <1>1, <1>3, <1>4, ThreadsAssumption
  DEF Inv, TypeOK, SchedTypeOK, SyncTypeOK, PC, TaskStatus, NoPanic, KAssert
<1>7. ListsAgree'
  <2>1. ReadyAgrees'
    BY <1>1, <1>2, <1>4, <1>5 DEF Inv, ListsAgree, ReadyAgrees
  <2>2. WaitersAgree'
    BY <1>1, <1>2, <1>5 DEF Inv, ListsAgree, WaitersAgree
  <2> QED
    BY <2>1, <2>2 DEF ListsAgree
<1>8. PlacesAgree'
  BY <1>1, <1>2, <1>5, ThreadsAssumption DEF Inv, PlacesAgree
<1>9. HolderAgrees' /\ UnitsAgree'
  BY <1>1, <1>5, SameUnits
<1> QED
  BY <1>6, <1>7, <1>8, <1>9 DEF Inv

-----------------------------------------------------------------------------
(* The theorems.                                                           *)

LEMMA InitInv == Init => Inv
<1> SUFFICES ASSUME Init
             PROVE  Inv
  OBVIOUS
<1> USE ThreadsAssumption, SyncAssumption DEF Init, SchedInit, SyncInit, Sems
<1>1. ready = <<Idle>>
  OBVIOUS
<1>2. /\ ready \in Seq(Threads)
      /\ NoDuplicates(ready)
      /\ \A t : InList(ready, t) <=> t = Idle
  BY <1>1 DEF InList, NoDuplicates
<1>3. SchedTypeOK /\ NoPanic
  BY <1>2 DEF SchedTypeOK, TaskStatus, NoPanic
<1>4. ListsAgree
  <2>1. ReadyAgrees
    BY <1>2 DEF ReadyAgrees
  <2>2. WaitersAgree
    BY EmptyList DEF WaitersAgree
  <2> QED
    BY <2>1, <2>2 DEF ListsAgree
<1>5. PlacesAgree
  BY DEF PlacesAgree
<1>6. HolderAgrees
  BY DEF HolderAgrees
<1>7. UnitsAgree
  BY DEF UnitsAgree, UnitWith
<1>8. SyncTypeOK
  <2>1. waiters \in [Sems -> Seq(Threads)]
    BY EmptyList
  <2>2. value \in [Sems -> 0..1] /\ pc \in [Threads -> PC]
    BY DEF PC
  <2>3. /\ holder \in [Locks -> Threads \cup {NULL}]
        /\ repeat \in [Locks -> Nat]
        /\ depth \in [Threads -> [Locks -> Nat]]
    OBVIOUS
  <2>4. /\ target \in [Threads -> Sems \cup {NULL}]
        /\ intr \in [Threads -> BOOLEAN]
    OBVIOUS
  <2> QED
    BY <2>1, <2>2, <2>3, <2>4 DEF SyncTypeOK
<1> QED
  BY <1>3, <1>4, <1>5, <1>6, <1>7, <1>8 DEF Inv, TypeOK

LEMMA NextInv == Inv /\ [Next]_vars => Inv'
<1> SUFFICES ASSUME Inv, [Next]_vars
             PROVE  Inv'
  OBVIOUS
<1>1. CASE UNCHANGED vars
  BY <1>1
  DEF vars, schedVars, syncVars, Inv, TypeOK, SchedTypeOK, SyncTypeOK, NoPanic,
      ListsAgree, ReadyAgrees, WaitersAgree, PlacesAgree, HolderAgrees,
      UnitsAgree, UnitWith
<1>2. ASSUME NEW t \in Threads, Library(t)
      PROVE  Inv'
  <2>1. CASE SemaDown(t)
    BY <2>1, WaitInv, TakeUnitInv DEF SemaDown
  <2>2. CASE Own(t)
    BY <2>2, OwnInv
  <2>3. CASE Up(t)
    BY <2>3, UpInv
  <2>4. CASE Resume(t)
    BY <2>4, ResumeInv
  <2> QED
    BY <1>2, <2>1, <2>2, <2>3, <2>4 DEF Library
<1>3. ASSUME NEW t \in Threads, Client(t)
      PROVE  Inv'
  <2>1. CASE \E l \in Locks : LockAcquire(t, l) \/ LockRelease(t, l)
    BY <2>1, LockAcquireInv, LockReleaseInv
  <2>2. CASE \E e \in Events : EventDown(t, e)
    BY <2>2, EventDownInv
  <2>3. CASE Park(t)
    BY <2>3, ParkInv
  <2>4. CASE Yield(t)
    BY <2>4, YieldInv
  <2>5. CASE \E p \in Threads : Start(t, p) \/ Wake(t, p)
    BY <2>5, StartInv, WakeInv
  <2>6. CASE Cli(t) \/ Sti(t)
    BY <2>6, FlagInv
  <2> QED
    BY <1>3, <2>1, <2>2, <2>3, <2>4, <2>5, <2>6 DEF Client
<1>4. CASE Halt
  BY <1>4, ResumeInv
<1>5. CASE Irq
  BY <1>5, TickInv, IrqOtherInv, IrqUpInv, WakeInv DEF Irq
<1> QED
  BY <1>1, <1>2, <1>3, <1>4, <1>5 DEF Next

\* Inv is an invariant of the thread library, and with it its parts.
THEOREM SpecInv == Spec => []Inv
<1>1. Init => Inv
  BY InitInv
<1>2. Inv /\ [Next]_vars => Inv'
  BY NextInv
<1> QED
  BY <1>1, <1>2, PTL DEF Spec

\* Every variable of thread.c and sync.c keeps its type.
THEOREM SpecTypeOK == Spec => []TypeOK
<1>1. Inv => TypeOK
  BY DEF Inv
<1> QED
  BY <1>1, SpecInv, PTL

\* No ASSERT of thread.c or sync.c can fail, for any number of threads, locks
\* and semaphores and any interleaving of ticks, device interrupts and calls.
THEOREM SpecNoPanic == Spec => []NoPanic
<1>1. Inv => NoPanic
  BY DEF Inv
<1> QED
  BY <1>1, SpecInv, PTL

\* lock_acquire and lock_release give mutual exclusion.
THEOREM SpecMutualExclusion == Spec => []MutualExclusion
<1>1. Inv => MutualExclusion
  BY DEF Inv, HolderAgrees, MutualExclusion
<1> QED
  BY <1>1, SpecInv, PTL

\* A task is in at most one list, the one its status tells.
THEOREM SpecListsAgree == Spec => []ListsAgree
<1>1. Inv => ListsAgree
  BY DEF Inv
<1> QED
  BY <1>1, SpecInv, PTL

\* The unit of a lock's semaphore is never lost and never duplicated.
THEOREM SpecUnitsAgree == Spec => []UnitsAgree
<1>1. Inv => UnitsAgree
  BY DEF Inv
<1> QED
  BY <1>1, SpecInv, PTL

-----------------------------------------------------------------------------
(* sync.c implements the recursive lock of LockSpec.                       *)

LEMMA StepRefines ==
    ASSUME Inv, [Next]_vars
    PROVE  L!Next \/ UNCHANGED depth
<1>1. CASE UNCHANGED vars
  BY <1>1 DEF vars, syncVars
<1>2. ASSUME NEW t \in Threads, NEW l \in Locks, LockAcquire(t, l)
      PROVE  L!Next \/ UNCHANGED depth
  <2>1. CASE holder[l] # t
    BY <1>2, <2>1 DEF LockAcquire
  <2>2. CASE holder[l] = t
    <3>1. depth' = [depth EXCEPT ![t][l] = @ + 1]
      BY <1>2, <2>2 DEF LockAcquire
    <3>2. \A u \in Threads \ {t} : depth[u][l] = 0
      BY <2>2 DEF Inv, HolderAgrees, TypeOK, SyncTypeOK
    <3> QED
      BY <3>1, <3>2 DEF L!Next, L!Acquire
  <2> QED
    BY <2>1, <2>2
<1>3. ASSUME NEW t \in Threads, NEW l \in Locks, LockRelease(t, l)
      PROVE  L!Next
  BY <1>3 DEF LockRelease, L!Next, L!Release
<1>4. ASSUME NEW t \in Threads, Own(t)
      PROVE  L!Next
  <2> DEFINE l == target[t]
  <2>1. /\ l \in Locks /\ pc[t] = "own"
        /\ depth' = [depth EXCEPT ![t][l] = 1]
    BY <1>4 DEF Own, At, Inv, PlacesAgree
  <2>2. depth[t][l] = 0 /\ UnitWith(t, l)
    BY <2>1 DEF Inv, UnitsAgree, UnitWith
  <2>3. \A u \in Threads \ {t} : depth[u][l] = 0
    <3> SUFFICES ASSUME NEW u \in Threads \ {t}, depth[u][l] > 0
                 PROVE  FALSE
      BY <2>1 DEF Inv, TypeOK, SyncTypeOK
    <3>1. UnitWith(u, l)
      BY DEF UnitWith
    <3> QED
      BY <2>1, <2>2, <3>1 DEF Inv, UnitsAgree
  <2>4. depth' = [depth EXCEPT ![t][l] = @ + 1]
    BY <2>1, <2>2
  <2> HIDE DEF l
  <2> QED
    BY <2>1, <2>3, <2>4 DEF L!Next, L!Acquire
<1>5. CASE (\E t \in Threads : SemaDown(t) \/ Up(t) \/ Resume(t)) \/ Halt
  BY <1>5 DEF SemaDown, Wait, TakeUnit, Up, Resume, Halt
<1>6. ASSUME NEW t \in Threads,
             \/ \E e \in Events : EventDown(t, e)
             \/ Park(t) \/ Yield(t) \/ Cli(t) \/ Sti(t)
             \/ \E p \in Threads : Start(t, p) \/ Wake(t, p)
      PROVE  UNCHANGED depth
  BY <1>6 DEF EventDown, Park, Yield, Cli, Sti, Start, Wake, syncVars
<1>7. CASE Irq
  BY <1>7 DEF Irq, Tick, IrqOther, IrqUp, IrqWake, Interrupt
<1> QED
  BY <1>1, <1>2, <1>3, <1>4, <1>5, <1>6, <1>7 DEF Next, Library, Client

\* lock_acquire and lock_release implement the abstract recursive lock.
THEOREM SpecImplementsLock == Spec => ImplementsLock
<1>1. Init => L!Init
  BY DEF Init, SyncInit, L!Init
<1>2. Inv /\ [Next]_vars => [L!Next]_depth
  BY StepRefines
<1> QED
  BY <1>1, <1>2, SpecInv, PTL DEF Spec, ImplementsLock, L!Spec

-----------------------------------------------------------------------------
(* No lost wake-up.                                                        *)

\* A step that neither hands a unit back nor makes a woken waiter leave.
LEMMA StillWoken ==
    ASSUME Inv, NoLostWakeup,
           UNCHANGED <<value, waiters>>,
           \A u \in Threads :
               pc[u] = "wait" => /\ pc'[u] = "wait"
                                 /\ target'[u] = target[u]
                                 /\ status[u] # "BLOCKED" => status'[u] # "BLOCKED"
    PROVE  NoLostWakeup'
  BY DEF NoLostWakeup

\* schedule never blocks a thread; only the caller's own status may be BLOCKED.
LEMMA ScheduleWoken ==
    ASSUME Inv, NEW st, NEW list, Schedulable(st, list), Schedule(st, list),
           \A u \in Threads \ {current} : st[u] = status[u]
    PROVE  \A u \in Threads \ {current} :
               pc[u] = "wait" /\ status[u] # "BLOCKED" => status'[u] # "BLOCKED"
  BY ScheduleLemma DEF Inv, TypeOK, PlacesAgree

\* sema_up leaves a woken thread behind whenever somebody still waits.
LEMMA SemaUpWoken ==
    ASSUME Inv, NoLostWakeup, NEW s \in Sems, value[s] = 0, SemaUp(s),
           UNCHANGED target,
           \A u \in Threads : pc'[u] = "wait" <=> pc[u] = "wait"
    PROVE  NoLostWakeup'
<1>1. /\ value' = [value EXCEPT ![s] = 1]
      /\ \A u \in Threads : status'[u] = "BLOCKED" => status[u] = "BLOCKED"
  BY SemaUpLemma
<1> SUFFICES ASSUME NEW r \in Sems, value'[r] = 1, waiters'[r] # <<>>
             PROVE  \E u \in Threads :
                       pc'[u] = "wait" /\ target'[u] = r /\ status'[u] # "BLOCKED"
  BY DEF NoLostWakeup
<1>2. CASE r = s
  <2> DEFINE p == Head(waiters[s])
  <2>1. waiters[s] # <<>>
    BY <1>2 DEF SemaUp
  <2>2. ThreadUnblock(p)
    BY <2>1 DEF SemaUp
  <2>3. waiters[s] \in Seq(Threads)
    BY DEF Inv, TypeOK, SyncTypeOK
  <2>4. p \in Threads /\ InList(waiters[s], p)
    BY <2>1, <2>3, PopList
  <2> HIDE DEF p
  <2>5. pc[p] = "wait" /\ status[p] = "BLOCKED" /\ target[p] = s
    BY <2>4 DEF Inv, ListsAgree, WaitersAgree
  <2>6. status'[p] = "READY"
    BY <2>2, <2>4, <2>5, UnblockLemma
  <2> QED
    BY <1>2, <2>4, <2>5, <2>6
<1>3. CASE r # s
  <2>1. value[r] = 1 /\ waiters[r] = waiters'[r]
    BY <1>1, <1>3 DEF SemaUp, Inv, TypeOK, SyncTypeOK
  <2>2. PICK u \in Threads :
            pc[u] = "wait" /\ target[u] = r /\ status[u] # "BLOCKED"
    BY <2>1 DEF NoLostWakeup
  <2> QED
    BY <1>1, <2>2
<1> QED
  BY <1>2, <1>3

\* A thread that blocks again or takes a unit is the only woken thread that
\* leaves, and it leaves a semaphore whose value is then 0.
LEMMA SemaDownWoken ==
    ASSUME Inv, NoLostWakeup, NEW t \in Threads, SemaDown(t)
    PROVE  NoLostWakeup'
<1>1. t = current /\ pc[t] \in {"down", "wait"}
  BY DEF SemaDown, At
<1>2. target[t] \in Sems
  BY <1>1 DEF Inv, PlacesAgree
<1>3. /\ value'[target[t]] = 0
      /\ \A r \in Sems \ {target[t]} : value'[r] = value[r] /\ waiters'[r] = waiters[r]
      /\ UNCHANGED target
      /\ \A u \in Threads \ {t} :
            /\ pc'[u] = pc[u]
            /\ pc[u] = "wait" /\ status[u] # "BLOCKED" => status'[u] # "BLOCKED"
  <2>1. CASE Wait(t)
    <3> DEFINE st == [status EXCEPT ![current] = "BLOCKED"]
    <3>1. Schedule(st, ready) /\ Schedulable(st, ready)
      BY <2>1, BlockSchedulable DEF Wait, ThreadBlock
    <3>2. \A u \in Threads \ {current} : st[u] = status[u]
      BY DEF Inv, TypeOK, SchedTypeOK
    <3> HIDE DEF st
    <3>3. \A u \in Threads \ {t} :
              pc[u] = "wait" /\ status[u] # "BLOCKED" => status'[u] # "BLOCKED"
      BY <1>1, <3>1, <3>2, ScheduleWoken
    <3> QED
      BY <1>2, <2>1, <3>3 DEF Wait, Inv, TypeOK, SyncTypeOK
  <2>2. CASE TakeUnit(t)
    <3>1. value[target[t]] \in 0..1 /\ value[target[t]] # 0
      BY <1>2, <2>2 DEF TakeUnit, Inv, TypeOK, SyncTypeOK
    <3>2. value[target[t]] - 1 = 0
      BY <3>1
    <3> QED
      BY <1>2, <2>2, <3>2 DEF TakeUnit, Inv, TypeOK, SyncTypeOK
  <2> QED
    BY <2>1, <2>2 DEF SemaDown
<1> SUFFICES ASSUME NEW r \in Sems, value'[r] = 1, waiters'[r] # <<>>
             PROVE  \E u \in Threads :
                       pc'[u] = "wait" /\ target'[u] = r /\ status'[u] # "BLOCKED"
  BY DEF NoLostWakeup
<1>4. r # target[t] /\ value[r] = 1 /\ waiters[r] # <<>>
  BY <1>3
<1>5. PICK u \in Threads :
          pc[u] = "wait" /\ target[u] = r /\ status[u] # "BLOCKED"
  BY <1>4 DEF NoLostWakeup
<1> QED
  BY <1>3, <1>4, <1>5

LEMMA NextWoken == Inv /\ NoLostWakeup /\ [Next]_vars => NoLostWakeup'
<1> SUFFICES ASSUME Inv, NoLostWakeup, [Next]_vars
             PROVE  NoLostWakeup'
  OBVIOUS
<1>1. CASE UNCHANGED vars
  BY <1>1 DEF vars, schedVars, syncVars, NoLostWakeup
<1>2. ASSUME NEW t \in Threads,
             \/ \E l \in Locks : LockAcquire(t, l) \/ LockRelease(t, l)
             \/ \E e \in Events : EventDown(t, e)
             \/ Cli(t) \/ Sti(t) \/ Own(t) \/ Resume(t)
      PROVE  NoLostWakeup'
  <2>1. /\ UNCHANGED <<value, waiters, status>>
        /\ pc[t] # "wait"
        /\ \A u \in Threads \ {t} : pc'[u] = pc[u] /\ target'[u] = target[u]
    BY <1>2
    DEF LockAcquire, LockRelease, EventDown, Cli, Sti, Own, Resume, Calls, At,
        schedVars, Inv, TypeOK, SyncTypeOK
  <2> QED
    BY <2>1, StillWoken
<1>3. CASE Halt
  <2>1. /\ UNCHANGED <<value, waiters, status, target>>
        /\ \A u \in Threads \ {Idle} : pc'[u] = pc[u]
    BY <1>3 DEF Halt, schedVars, Inv, TypeOK, SyncTypeOK
  <2>2. pc[Idle] # "wait"
    BY DEF Inv, PlacesAgree
  <2> QED
    BY <2>1, <2>2, StillWoken
<1>11. CASE IrqOther
  <2>1. /\ UNCHANGED <<value, waiters, status, target>>
        /\ \A u \in Threads \ {Idle} : pc'[u] = pc[u]
    BY <1>11, InterruptPlaces DEF IrqOther, schedVars
  <2>2. pc[Idle] # "wait"
    BY DEF Inv, PlacesAgree
  <2> QED
    BY <2>1, <2>2, StillWoken
<1>4. ASSUME NEW t \in Threads, Park(t) \/ Yield(t)
      PROVE  NoLostWakeup'
  <2>1. PICK st, list :
            /\ Schedulable(st, list) /\ Schedule(st, list)
            /\ \A u \in Threads \ {current} : st[u] = status[u]
    <3>1. CASE Park(t)
      <4>1. Schedule([status EXCEPT ![current] = "BLOCKED"], ready)
        BY <3>1 DEF Park, ThreadBlock
      <4>2. \A u \in Threads \ {current} :
                [status EXCEPT ![current] = "BLOCKED"][u] = status[u]
        BY DEF Inv, TypeOK, SchedTypeOK
      <4> QED
        BY <4>1, <4>2, BlockSchedulable
    <3>2. CASE Yield(t)
      <4>1. Schedule([status EXCEPT ![current] = "READY"], Append(ready, current))
        BY <3>2 DEF Yield, ThreadYield
      <4>2. \A u \in Threads \ {current} :
                [status EXCEPT ![current] = "READY"][u] = status[u]
        BY DEF Inv, TypeOK, SchedTypeOK
      <4> QED
        BY <4>1, <4>2, YieldSchedulable
    <3> QED
      BY <1>4, <3>1, <3>2
  <2>2. /\ UNCHANGED <<value, waiters, target>>
        /\ t = current /\ pc[t] # "wait"
        /\ \A u \in Threads \ {t} : pc'[u] = pc[u]
    BY <1>4 DEF Park, Yield, Calls, syncVars, Inv, TypeOK, SyncTypeOK
  <2>3. \A u \in Threads \ {current} :
            pc[u] = "wait" /\ status[u] # "BLOCKED" => status'[u] # "BLOCKED"
    BY <2>1, ScheduleWoken
  <2> QED
    BY <2>2, <2>3, StillWoken
<1>5. ASSUME NEW t \in Threads, NEW p \in Threads, Start(t, p)
      PROVE  NoLostWakeup'
  <2>1. /\ pc[p] = "new"
        /\ UNCHANGED <<value, waiters, target>>
        /\ \A u \in Threads \ {p} : pc'[u] = pc[u] /\ status'[u] = status[u]
    BY <1>5 DEF Start, ThreadStart, Inv, TypeOK, SchedTypeOK, SyncTypeOK
  <2> QED
    BY <2>1, StillWoken
<1>6. ASSUME NEW p \in Threads, (\E t \in Threads : Wake(t, p)) \/ IrqWake(p)
      PROVE  NoLostWakeup'
  <2>1. Wakes(p) /\ UNCHANGED <<value, waiters, target>>
    BY <1>6 DEF Wake, IrqWake, syncVars, Interrupt
  <2>2. status' = [status EXCEPT ![p] = "READY"]
    BY <2>1 DEF Wakes, ThreadUnblock
  <2>3. \A u \in Threads : pc[u] = "wait" => pc'[u] = "wait"
    <3>1. pc[Idle] # "wait"
      BY DEF Inv, PlacesAgree
    <3>2. \A u \in Threads \ {Idle} : pc'[u] = pc[u]
      BY <1>6, InterruptPlaces DEF Wake, IrqWake, syncVars
    <3> QED
      BY <3>1, <3>2
  <2>4. \A u \in Threads : status[u] # "BLOCKED" => status'[u] # "BLOCKED"
    BY <2>2 DEF Inv, TypeOK, SchedTypeOK
  <2> QED
    BY <2>1, <2>3, <2>4, StillWoken
<1>7. CASE Tick
  <2>1. /\ pc[current] # "wait"
        /\ \A u \in Threads \ {Idle} : pc'[u] = pc[u]
        /\ pc[Idle] # "wait"
        /\ UNCHANGED <<value, waiters, target>>
    BY <1>7, InterruptPlaces DEF Tick
  <2>2. \A u \in Threads \ {current} :
            pc[u] = "wait" /\ status[u] # "BLOCKED" => status'[u] # "BLOCKED"
    <3>1. CASE ticks[current] = 0
      <4>1. Schedule(status, ready)
        BY <1>7, <3>1 DEF Tick, TimerHandler
      <4> QED
        BY <4>1, TickSchedulable, ScheduleWoken
    <3>2. CASE ticks[current] # 0
      BY <1>7, <3>2 DEF Tick, TimerHandler
    <3> QED
      BY <3>1, <3>2
  <2> QED
    BY <2>1, <2>2, StillWoken
<1>8. ASSUME NEW e \in Events, IrqUp(e)
      PROVE  NoLostWakeup'
  <2>1. value[e] = 0 /\ SemaUp(e) /\ Interrupt /\ e \in Sems
    BY <1>8 DEF IrqUp, Sems
  <2>2. UNCHANGED target /\ \A u \in Threads : pc'[u] = "wait" <=> pc[u] = "wait"
    BY <2>1, InterruptPlaces
  <2> QED
    BY <2>1, <2>2, SemaUpWoken
<1>9. ASSUME NEW t \in Threads, Up(t)
      PROVE  NoLostWakeup'
  <2>1. /\ pc[t] = "up" /\ SemaUp(target[t])
        /\ pc' = [pc EXCEPT ![t] = "body"]
        /\ UNCHANGED target
    BY <1>9 DEF Up, At
  <2>2. target[t] \in Locks /\ target[t] \in Sems
    BY <2>1 DEF Inv, PlacesAgree, Sems
  <2>3. value[target[t]] = 0
    BY <2>1, <2>2 DEF Inv, UnitsAgree, UnitWith
  <2>4. \A u \in Threads : pc'[u] = "wait" <=> pc[u] = "wait"
    BY <2>1 DEF Inv, TypeOK, SyncTypeOK
  <2> QED
    BY <2>1, <2>2, <2>3, <2>4, SemaUpWoken
<1>10. ASSUME NEW t \in Threads, Library(t) \/ Client(t)
       PROVE  NoLostWakeup'
  BY <1>2, <1>4, <1>5, <1>6, <1>9, <1>10, SemaDownWoken DEF Library, Client
<1> QED
  BY <1>1, <1>3, <1>6, <1>7, <1>8, <1>10, <1>11 DEF Next, Irq

\* No wake-up of a semaphore is lost.
THEOREM SpecNoLostWakeup == Spec => []NoLostWakeup
<1>1. Init => NoLostWakeup
  BY DEF Init, SyncInit, NoLostWakeup
<1>2. Inv /\ NoLostWakeup /\ [Next]_vars => NoLostWakeup'
  BY NextWoken
<1> QED
  BY <1>1, <1>2, SpecInv, PTL DEF Spec
=============================================================================
