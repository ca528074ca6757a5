----------------------------- MODULE Scheduler -----------------------------
(***************************************************************************)
(* The scheduler of thread/thread.c: who runs, the ready list, the status  *)
(* and the remaining time slice of each task, on the one processor the     *)
(* kernel drives.                                                          *)
(*                                                                         *)
(* The operators describe the kernel's routines as the state changes they  *)
(* make from start to end: every one of them runs with interrupts disabled *)
(* (schedule asserts it, thread_block, thread_unblock and thread_yield     *)
(* call intr_disable first), so nothing else runs in between.              *)
(*                                                                         *)
(* A failed ASSERT calls panic_spin, which disables interrupts and loops   *)
(* for ever: `panic' becomes TRUE and no step follows.                     *)
(***************************************************************************)
EXTENDS Naturals, Sequences

CONSTANTS
    Threads,    \* the tasks that may ever exist, kernel threads and processes
    Main,       \* the boot flow of control, made a thread by thread_init
    Idle,       \* the thread that runs when no other can
    Priority    \* the length of a task's slice, in clock ticks

ASSUME ThreadsAssumption ==
    /\ Main \in Threads
    /\ Idle \in Threads
    /\ Main # Idle
    /\ Priority \in [Threads -> Nat]

VARIABLES
    current,    \* running_thread()
    status,     \* task_struct.status
    ready,      \* thread_ready_list, head first
    ticks,      \* task_struct.ticks
    panic       \* an ASSERT has failed

schedVars == <<current, status, ready, ticks, panic>>

\* "NEW" stands for a task_struct that has not been allocated yet.  No code
\* uses TASK_WAITING, TASK_HANGING or TASK_DIED.
TaskStatus == {"NEW", "READY", "RUNNING", "BLOCKED"}

SchedTypeOK ==
    /\ current \in Threads
    /\ status \in [Threads -> TaskStatus]
    /\ ready \in Seq(Threads)
    /\ ticks \in [Threads -> Nat]
    /\ panic \in BOOLEAN

-----------------------------------------------------------------------------
\* ASSERT(c): the step completes and the system goes on only if c holds.
KAssert(c) == panic' = ~c

\* elem_find: is t's general_tag linked into the list?
InList(list, t) == \E i \in 1..Len(list) : list[i] = t

\* No task is linked into the list twice.
NoDuplicates(list) ==
    \A i, j \in 1..Len(list) : list[i] = list[j] => i = j

\* schedule, entered with statuses st and a ready list: a task that is
\* still RUNNING only used up its slice and goes to the tail; an empty list
\* makes thread_unblock(idle_thread) push the idle thread.
StillRunning(st) == st[current] = "RUNNING"

\* Variant: the expired task goes back to the head, as a woken one does.
QueueAtHead(st, list) ==
    LET queue == IF StillRunning(st) THEN <<current>> \o list ELSE list
    IN  IF queue = <<>> THEN <<Idle>> ELSE queue

QueueAfter(st, list) ==
    LET queue == IF StillRunning(st) THEN Append(list, current) ELSE list
    IN  IF queue = <<>> THEN <<Idle>> ELSE queue

Schedule(st, list) ==
    LET queue  == QueueAfter(st, list)
        parked == IF StillRunning(st) THEN [st EXCEPT ![current] = "READY"] ELSE st
    IN  /\ current' = Head(queue)
        /\ ready'   = Tail(queue)
        /\ status'  = [parked EXCEPT ![Head(queue)] = "RUNNING"]
        /\ ticks'   = IF StillRunning(st)
                      THEN [ticks EXCEPT ![current] = Priority[current]]
                      ELSE ticks

ScheduleAsserts(st, list) ==
    /\ StillRunning(st) => ~InList(list, current)
    /\ (~StillRunning(st) /\ list = <<>>) => st[Idle] = "BLOCKED"

\* thread_block(TASK_BLOCKED), called by the running thread.
ThreadBlock == Schedule([status EXCEPT ![current] = "BLOCKED"], ready)

ThreadBlockAsserts ==
    ScheduleAsserts([status EXCEPT ![current] = "BLOCKED"], ready)

\* thread_unblock(p): p goes to the head of the ready list.
ThreadUnblock(p) ==
    /\ ready'  = <<p>> \o ready
    /\ status' = [status EXCEPT ![p] = "READY"]
    /\ UNCHANGED <<current, ticks>>

ThreadUnblockAsserts(p) == status[p] = "BLOCKED" /\ ~InList(ready, p)

\* thread_yield: to the tail of the ready list, keeping the ticks left.
ThreadYield ==
    /\ Schedule([status EXCEPT ![current] = "READY"], Append(ready, current))
    /\ KAssert(~InList(ready, current))

\* thread_start and process_execute: the new task becomes READY and is
\* appended.  init_thread sets the status before the append; until then the
\* task_struct is known to its creator only.
ThreadStart(p) ==
    /\ status' = [status EXCEPT ![p] = "READY"]
    /\ ready'  = Append(ready, p)
    /\ ticks'  = [ticks EXCEPT ![p] = Priority[p]]
    /\ KAssert(~InList(ready, p))
    /\ UNCHANGED current

\* intr_timer_handler: the slice is used up, or one tick shorter.
TimerHandler ==
    IF ticks[current] = 0
    THEN Schedule(status, ready) /\ KAssert(ScheduleAsserts(status, ready))
    ELSE /\ ticks' = [ticks EXCEPT ![current] = @ - 1]
         /\ UNCHANGED <<current, status, ready, panic>>

\* thread_init: main is running already, idle is the first ready thread.
SchedInit ==
    /\ current = Main
    /\ status = [t \in Threads |->
                    IF t = Main THEN "RUNNING"
                    ELSE IF t = Idle THEN "READY" ELSE "NEW"]
    /\ ready = <<Idle>>
    /\ ticks = Priority
    /\ panic = FALSE
=============================================================================
