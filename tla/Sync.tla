-------------------------------- MODULE Sync --------------------------------
(***************************************************************************)
(* Threads, semaphores and locks: thread/thread.c, thread/sync.c and the   *)
(* clock interrupt of device/timer.c, under the most general client the    *)
(* kernel's own code stays within.                                         *)
(*                                                                         *)
(* `pc' says where inside the thread library a thread stands.  A thread    *)
(* whose pc is "body" runs code of its own and may call any routine of the *)
(* library; the steps between two points where interrupts are enabled are  *)
(* one action.  A component that uses the library conjoins these actions   *)
(* with its own state (see Disk and IoQueue).                              *)
(*                                                                         *)
(*   "down"    in sema_down, before interrupts are disabled                *)
(*   "wait"    in sema_down, blocked or just woken, interrupts disabled    *)
(*   "own"     in lock_acquire, after sema_down                            *)
(*   "up"      in lock_release, before sema_up                             *)
(*   "parked"  in thread_block outside sema_down (ioq_wait, idle)          *)
(*   "sti", "halt"   the idle thread before and inside `sti; hlt'          *)
(***************************************************************************)
EXTENDS Scheduler

CONSTANTS
    Locks,      \* struct lock objects; each contains a semaphore
    Events,     \* semaphores initialised to 0 and upped by an interrupt
    NULL,
    MaxRepeat   \* bound on the depth of recursive lock_acquire calls

Sems == Locks \cup Events

ASSUME SyncAssumption ==
    /\ NULL \notin Threads
    /\ Locks \cap Events = {}
    /\ NULL \notin Sems
    /\ MaxRepeat \in Nat \ {0}

VARIABLES
    value,      \* semaphore.value
    waiters,    \* semaphore.waiters, head first
    holder,     \* lock.holder
    repeat,     \* lock.holder_repeat_nr
    pc,
    target,     \* the semaphore a thread's call is about
    intr,       \* the interrupt flag in a thread's own code
    depth       \* what each thread's code knows: acquires minus releases

syncVars == <<value, waiters, holder, repeat, pc, target, intr, depth>>
vars == <<schedVars, syncVars>>

PC == {"new", "body", "down", "wait", "own", "up", "parked", "sti", "halt"}

SyncTypeOK ==
    /\ value \in [Sems -> 0..1]
    /\ waiters \in [Sems -> Seq(Threads)]
    /\ holder \in [Locks -> Threads \cup {NULL}]
    /\ repeat \in [Locks -> Nat]
    /\ pc \in [Threads -> PC]
    /\ target \in [Threads -> Sems \cup {NULL}]
    /\ intr \in [Threads -> BOOLEAN]
    /\ depth \in [Threads -> [Locks -> Nat]]

TypeOK == SchedTypeOK /\ SyncTypeOK

-----------------------------------------------------------------------------
\* The state at the end of thread_init: interrupts are still disabled in the
\* boot code; lock_init and sema_init have run for every object.
SyncInit ==
    /\ value = [s \in Sems |-> IF s \in Locks THEN 1 ELSE 0]
    /\ waiters = [s \in Sems |-> <<>>]
    /\ holder = [l \in Locks |-> NULL]
    /\ repeat = [l \in Locks |-> 0]
    /\ pc = [t \in Threads |-> IF t \in {Main, Idle} THEN "body" ELSE "new"]
    /\ target = [t \in Threads |-> NULL]
    /\ intr = [t \in Threads |-> t # Main]
    /\ depth = [t \in Threads |-> [l \in Locks |-> 0]]

Init == SchedInit /\ SyncInit

\* eflags.IF of the processor: sema_down and thread_block return from the
\* switch with interrupts disabled and restore the caller's flag later.
InterruptsOn == intr[current] /\ pc[current] \notin {"wait", "parked"}

\* t executes its own code and may call a routine of the library.
Calls(t) == ~panic /\ t = current /\ pc[t] = "body"

\* t executes inside the library at point p.
At(t, p) == ~panic /\ t = current /\ pc[t] = p

-----------------------------------------------------------------------------
(* Calls.                                                                  *)

\* lock_acquire: the holder only counts (only the holder ever writes holder
\* or holder_repeat_nr while it holds), anyone else goes on to sema_down.
LockAcquire(t, l) ==
    /\ Calls(t) /\ t # Idle
    /\ depth[t][l] < MaxRepeat
    /\ IF holder[l] # t
       THEN /\ pc' = [pc EXCEPT ![t] = "down"]
            /\ target' = [target EXCEPT ![t] = l]
            /\ UNCHANGED <<repeat, depth>>
       ELSE /\ repeat' = [repeat EXCEPT ![l] = @ + 1]
            /\ depth' = [depth EXCEPT ![t][l] = @ + 1]
            /\ UNCHANGED <<pc, target>>
    /\ UNCHANGED <<schedVars, value, waiters, holder, intr>>

\* lock_release up to the call of sema_up: an outer acquire remains, or the
\* lock is marked free before the V operation.
LockRelease(t, l) ==
    /\ Calls(t) /\ t # Idle
    /\ depth[t][l] > 0
    /\ depth' = [depth EXCEPT ![t][l] = @ - 1]
    /\ IF repeat[l] > 1
       THEN /\ repeat' = [repeat EXCEPT ![l] = @ - 1]
            /\ KAssert(holder[l] = t)
            /\ UNCHANGED <<holder, pc, target>>
       ELSE /\ repeat' = [repeat EXCEPT ![l] = 0]
            /\ holder' = [holder EXCEPT ![l] = NULL]
            /\ pc' = [pc EXCEPT ![t] = "up"]
            /\ target' = [target EXCEPT ![t] = l]
            /\ KAssert(holder[l] = t /\ repeat[l] = 1)
    /\ UNCHANGED <<current, status, ready, ticks, value, waiters, intr>>

\* sema_down on a semaphore that an interrupt ups (disk_done).
EventDown(t, e) ==
    /\ Calls(t) /\ t # Idle
    /\ pc' = [pc EXCEPT ![t] = "down"]
    /\ target' = [target EXCEPT ![t] = e]
    /\ UNCHANGED <<schedVars, value, waiters, holder, repeat, intr, depth>>

\* thread_block called from outside sema_down: ioq_wait and the idle thread.
Park(t) ==
    /\ Calls(t)
    /\ ThreadBlock
    /\ KAssert(ThreadBlockAsserts)
    /\ pc' = [pc EXCEPT ![t] = "parked"]
    /\ UNCHANGED <<value, waiters, holder, repeat, target, intr, depth>>

\* thread_yield, as mtime_sleep calls it.
Yield(t) ==
    /\ Calls(t) /\ t # Idle
    /\ ThreadYield
    /\ UNCHANGED syncVars

\* thread_start and process_execute.
Start(t, p) ==
    /\ Calls(t) /\ t # Idle
    /\ pc[p] = "new"
    /\ ThreadStart(p)
    /\ pc' = [pc EXCEPT ![p] = "body"]
    /\ UNCHANGED <<value, waiters, holder, repeat, target, intr, depth>>

\* intr_disable or the interrupt gate of a system call, and intr_set_status
\* or the iret that ends it.
Cli(t) ==
    /\ Calls(t) /\ t # Idle
    /\ intr' = [intr EXCEPT ![t] = FALSE]
    /\ UNCHANGED <<schedVars, value, waiters, holder, repeat, pc, target, depth>>

Sti(t) ==
    /\ Calls(t)
    /\ intr' = [intr EXCEPT ![t] = TRUE]
    /\ UNCHANGED <<schedVars, value, waiters, holder, repeat, pc, target, depth>>

-----------------------------------------------------------------------------
(* Inside the library.                                                     *)

\* sema_down from intr_disable on, and again each time the thread comes back
\* from thread_block: block while the value is 0, else take the unit.
Wait(t) ==
    LET s == target[t] IN
    /\ value[s] = 0
    /\ waiters' = [waiters EXCEPT ![s] = Append(@, t)]
    /\ ThreadBlock
    /\ KAssert(~InList(waiters[s], t) /\ ThreadBlockAsserts)
    /\ pc' = [pc EXCEPT ![t] = "wait"]
    /\ UNCHANGED <<value, holder, repeat, target, intr, depth>>

TakeUnit(t) ==
    LET s == target[t] IN
    /\ value[s] # 0
    /\ value' = [value EXCEPT ![s] = @ - 1]
    /\ KAssert(value[s] - 1 = 0)
    /\ pc' = [pc EXCEPT ![t] = IF s \in Locks THEN "own" ELSE "body"]
    /\ UNCHANGED <<current, status, ready, ticks, waiters, holder, repeat,
                   target, intr, depth>>

\* Variant: `if' instead of `while': a woken thread takes the unit unseen.
SemaDownIf(t) ==
    \/ At(t, "down") /\ (Wait(t) \/ TakeUnit(t))
    \/ /\ At(t, "wait")
       /\ KAssert(value[target[t]] = 1)
       /\ value' = [value EXCEPT ![target[t]] = 0]
       /\ pc' = [pc EXCEPT ![t] = IF target[t] \in Locks THEN "own" ELSE "body"]
       /\ UNCHANGED <<current, status, ready, ticks, waiters, holder, repeat,
                      target, intr, depth>>

\* Variant: a thread takes the unit whether it is there or not.
SemaDownBarging(t) ==
    /\ At(t, "down") \/ At(t, "wait")
    /\ value' = [value EXCEPT ![target[t]] = 0]
    /\ pc' = [pc EXCEPT ![t] = IF target[t] \in Locks THEN "own" ELSE "body"]
    /\ UNCHANGED <<schedVars, waiters, holder, repeat, target, intr, depth>>

SemaDown(t) ==
    /\ At(t, "down") \/ At(t, "wait")
    /\ Wait(t) \/ TakeUnit(t)

\* lock_acquire after sema_down.
Own(t) ==
    LET l == target[t] IN
    /\ At(t, "own")
    /\ holder' = [holder EXCEPT ![l] = t]
    /\ repeat' = [repeat EXCEPT ![l] = 1]
    /\ KAssert(repeat[l] = 0)
    /\ depth' = [depth EXCEPT ![t][l] = 1]
    /\ pc' = [pc EXCEPT ![t] = "body"]
    /\ UNCHANGED <<current, status, ready, ticks, value, waiters, target, intr>>

\* Variant: sema_up wakes nobody while the unit is there for the next caller.
SemaUpSilent(s) ==
    /\ value' = [value EXCEPT ![s] = @ + 1]
    /\ KAssert(value[s] = 0)
    /\ UNCHANGED <<current, status, ready, ticks, waiters>>

\* Variant: the woken thread stays linked into the waiters.
SemaUpLinked(s) ==
    /\ value' = [value EXCEPT ![s] = @ + 1]
    /\ IF waiters[s] = <<>>
       THEN /\ KAssert(value[s] = 0)
            /\ UNCHANGED <<current, status, ready, ticks>>
       ELSE /\ ThreadUnblock(Head(waiters[s]))
            /\ KAssert(value[s] = 0 /\ ThreadUnblockAsserts(Head(waiters[s])))
    /\ UNCHANGED waiters

\* sema_up: hand the unit back and wake the first waiter.
SemaUp(s) ==
    /\ value' = [value EXCEPT ![s] = @ + 1]
    /\ IF waiters[s] = <<>>
       THEN /\ KAssert(value[s] = 0)
            /\ UNCHANGED <<current, status, ready, ticks, waiters>>
       ELSE /\ ThreadUnblock(Head(waiters[s]))
            /\ waiters' = [waiters EXCEPT ![s] = Tail(@)]
            /\ KAssert(value[s] = 0 /\ ThreadUnblockAsserts(Head(waiters[s])))

\* The end of lock_release.
Up(t) ==
    /\ At(t, "up")
    /\ SemaUp(target[t])
    /\ pc' = [pc EXCEPT ![t] = "body"]
    /\ UNCHANGED <<holder, repeat, target, intr, depth>>

\* The return from thread_block; idle goes on to `sti; hlt'.
Resume(t) ==
    /\ At(t, "parked")
    /\ pc' = [pc EXCEPT ![t] = IF t = Idle THEN "sti" ELSE "body"]
    /\ UNCHANGED <<schedVars, value, waiters, holder, repeat, target, intr, depth>>

Halt ==
    /\ At(Idle, "sti")
    /\ pc' = [pc EXCEPT ![Idle] = "halt"]
    /\ UNCHANGED <<schedVars, value, waiters, holder, repeat, target, intr, depth>>

-----------------------------------------------------------------------------
(* Interrupts.  Any of them ends the idle thread's hlt.                    *)

Interrupt ==
    /\ ~panic
    /\ InterruptsOn
    /\ pc' = IF current = Idle /\ pc[Idle] = "halt"
             THEN [pc EXCEPT ![Idle] = "body"] ELSE pc
    /\ UNCHANGED <<holder, repeat, target, intr, depth>>

Tick ==
    /\ Interrupt
    /\ TimerHandler
    /\ UNCHANGED <<value, waiters>>

\* sema_up from a device's interrupt handler, which calls it once for each
\* request (expecting_intr), so never on a semaphore that is up already.
IrqUp(e) ==
    /\ Interrupt
    /\ value[e] = 0
    /\ SemaUp(e)

\* An interrupt whose handler touches none of this state: a key that finds
\* no reader asleep, a disk interrupt that nobody expects.
IrqOther == Interrupt /\ UNCHANGED <<schedVars, value, waiters>>

\* thread_unblock of a thread that some other code knows to be parked:
\* ioqueue's wakeup, from a thread or from the keyboard's interrupt.
Wakes(p) ==
    /\ p # Idle
    /\ pc[p] = "parked"
    /\ status[p] = "BLOCKED"
    /\ ThreadUnblock(p)
    /\ KAssert(ThreadUnblockAsserts(p))

Wake(t, p) ==
    /\ Calls(t) /\ t # Idle
    /\ Wakes(p)
    /\ UNCHANGED syncVars

IrqWake(p) ==
    /\ Interrupt
    /\ Wakes(p)
    /\ UNCHANGED <<value, waiters>>

-----------------------------------------------------------------------------
Library(t) == SemaDown(t) \/ Own(t) \/ Up(t) \/ Resume(t)

Client(t) ==
    \/ \E l \in Locks : LockAcquire(t, l) \/ LockRelease(t, l)
    \/ \E e \in Events : EventDown(t, e)
    \/ Park(t)
    \/ Yield(t)
    \/ \E p \in Threads : Start(t, p) \/ Wake(t, p)
    \/ Cli(t)
    \/ Sti(t)

Irq ==
    \/ Tick
    \/ IrqOther
    \/ \E e \in Events : IrqUp(e)
    \/ \E p \in Threads : IrqWake(p)

Next == (\E t \in Threads : Library(t) \/ Client(t)) \/ Halt \/ Irq

Spec == Init /\ [][Next]_vars

-----------------------------------------------------------------------------
(* Safety.                                                                 *)

\* No ASSERT of thread.c or sync.c fails: no thread is queued twice, no one
\* but a blocked thread is unblocked, a semaphore never exceeds 1, and the
\* lock's holder and count are what acquire and release expect.
NoPanic == ~panic

\* At most one thread is between the return of its lock_acquire and its last
\* lock_release, however ticks, wake-ups and re-acquires interleave.
MutualExclusion ==
    \A l \in Locks : \A t, u \in Threads :
        depth[t][l] > 0 /\ depth[u][l] > 0 => t = u

\* lock.holder and lock.holder_repeat_nr describe the thread that is in fact
\* inside, and count how often it is.
HolderAgrees ==
    \A l \in Locks :
        /\ \A t \in Threads : depth[t][l] > 0 <=> holder[l] = t
        /\ \A t \in Threads : holder[l] = t => depth[t][l] = repeat[l]
        /\ holder[l] = NULL => repeat[l] = 0

\* t has the unit of lock l's semaphore: it is inside, or about to be, or
\* about to hand the unit back.
UnitWith(t, l) ==
    depth[t][l] > 0 \/ (pc[t] \in {"own", "up"} /\ target[t] = l)

\* The unit of a lock is in the semaphore or with exactly one thread: it is
\* never duplicated, and never lost while threads block, wake and race.
UnitsAgree ==
    \A l \in Locks :
        /\ value[l] = 0 <=> \E t \in Threads : UnitWith(t, l)
        /\ \A t, u \in Threads : UnitWith(t, l) /\ UnitWith(u, l) => t = u
        /\ \A t \in Threads :
              pc[t] \in {"own", "up"} /\ target[t] = l => depth[t][l] = 0

\* Exactly the READY tasks are on the ready list, once each, and exactly the
\* running one is RUNNING.
ReadyAgrees ==
    /\ NoDuplicates(ready)
    /\ \A t \in Threads : status[t] = "READY" <=> InList(ready, t)
    /\ \A t \in Threads : status[t] = "RUNNING" <=> current = t

\* A semaphore's waiters are exactly the threads blocked in its sema_down,
\* once each.
WaitersAgree ==
    \A s \in Sems :
        /\ NoDuplicates(waiters[s])
        /\ \A t \in Threads :
              InList(waiters[s], t) <=>
                  pc[t] = "wait" /\ status[t] = "BLOCKED" /\ target[t] = s

\* A task's one general_tag is in at most one list, once, and in the list
\* its status tells.
ListsAgree == ReadyAgrees /\ WaitersAgree

\* Where a thread stands in the library fits its status: it is BLOCKED only
\* inside sema_down or thread_block, and idle never enters a semaphore.
PlacesAgree ==
    /\ \A t \in Threads :
          /\ status[t] = "NEW" <=> pc[t] = "new"
          /\ status[t] = "BLOCKED" => pc[t] \in {"wait", "parked"}
          /\ pc[t] \in {"down", "wait"} => target[t] \in Sems
          /\ pc[t] \in {"own", "up"} => target[t] \in Locks
    /\ pc[Idle] \in {"body", "parked", "sti", "halt"}

\* The inductive invariant of Sync_proofs.
Inv ==
    /\ TypeOK
    /\ NoPanic
    /\ ListsAgree
    /\ PlacesAgree
    /\ HolderAgrees
    /\ UnitsAgree

\* No wake-up is lost: when a semaphore is up and threads still wait for it,
\* one that sema_up has woken is on its way to take the unit.
NoLostWakeup ==
    \A s \in Sems :
        value[s] = 1 /\ waiters[s] # <<>> =>
            \E t \in Threads :
                pc[t] = "wait" /\ target[t] = s /\ status[t] # "BLOCKED"

-----------------------------------------------------------------------------
(* sync.c implements the recursive lock of LockSpec.                       *)

L == INSTANCE LockSpec WITH held <- depth

\* lock_acquire and lock_release, with every preemption, wake-up and lost
\* race inside them, act as the atomic recursive lock.
ImplementsLock == L!Spec
=============================================================================
