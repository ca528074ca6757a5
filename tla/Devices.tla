------------------------------ MODULE Devices ------------------------------
(***************************************************************************)
(* The disk driver and the keyboard's queue on one processor: what threads *)
(* of the two can count on while they compete for it, while the handlers   *)
(* of both devices wake threads and the clock preempts them.               *)
(***************************************************************************)
EXTENDS Disk

CONSTANTS Consumers, Ioq, Chars, BufSize    \* of IoQueue

ASSUME DevicesAssumption == Consumers \cap Users = {} /\ Ioq # Chan

VARIABLES buf, head, tail, consumer, producer, byte, at     \* of IoQueue

Q == INSTANCE IoQueue WITH Producers <- {}, Keyboard <- TRUE

queueVars == <<buf, head, tail, consumer, producer, byte, at>>
devicesVars == <<driverVars, queueVars>>

DevicesInit == DiskInit /\ Q!IoqInit

\* Main enables interrupts at the end of the boot, starts the consumers and
\* uses the disk; a consumer calls ioq_getchar again and again.
QueueStep ==
    /\ (\E t \in Consumers \cup {Main} : Q!ThreadStep(t)) \/ Q!KeyIrq
    /\ UNCHANGED diskVars

DiskStep ==
    /\ \/ at[Main] = "idle" /\ (\E t \in Users : DriverStep(t))
       \/ DiskIrq \/ DeviceReady \/ Clock
    /\ UNCHANGED queueVars

Launch == (\E t \in Threads : Q!Spawn(t)) /\ req[Main].at = "idle" /\ UNCHANGED diskVars

Kernel == DriverSystemStep /\ UNCHANGED queueVars

DevicesNext == QueueStep \/ DiskStep \/ Launch \/ Kernel

\* A thread that is scheduled goes on, main starts the consumers but may
\* stop using the disk; the clock ticks; the disk answers and interrupts.
Runs(t) ==
    \/ Library(t) /\ UNCHANGED <<diskVars, queueVars>>
    \/ Q!ThreadStep(t) /\ UNCHANGED diskVars
    \/ t \in Users /\ DriverStep(t) /\ ~Request(t) /\ UNCHANGED queueVars

DevicesFairness ==
    /\ \A t \in Threads : SF_devicesVars(Runs(t))
    /\ WF_devicesVars(DeviceReady /\ UNCHANGED queueVars)
    /\ SF_devicesVars(DiskIrq /\ UNCHANGED queueVars)
    /\ SF_devicesVars(Clock /\ UNCHANGED queueVars)
    /\ SF_devicesVars(Launch)
    /\ SF_devicesVars((Park(Idle) \/ Halt) /\ UNCHANGED <<diskVars, queueVars>>)

DevicesSpec == DevicesInit /\ [][DevicesNext]_devicesVars /\ DevicesFairness

-----------------------------------------------------------------------------
\* The disk driver's PANIC stops the processor.
DiskPanic == \E t \in Users : req[t].at = "panic"

\* A character in the buffer is taken at last: the wake-up sent by the keyboard's
\* interrupt is never missed by a consumer about to sleep, nor is it put behind
\* the disk's users for ever.
CharactersRead ==
    \A i \in Q!Positions : tail = i /\ ~Q!Empty ~> tail # i \/ DiskPanic

\* A thread on the ready list gets the processor, although thread_unblock pushes
\* the threads that two devices wake in front of it again and again.
ReadyTaskRuns ==
    \A t \in Threads : status[t] = "READY" ~> status[t] = "RUNNING" \/ DiskPanic
=============================================================================
