------------------------------ MODULE IoQueue ------------------------------
(***************************************************************************)
(* The ring buffer of device/ioqueue.c between threads and the keyboard's  *)
(* interrupt (device/keyboard.c), on top of the locks and the scheduler of *)
(* Sync.                                                                   *)
(*                                                                         *)
(* A consumer or producer thread disables interrupts, calls ioq_getchar or *)
(* ioq_putchar and enables them again; the keyboard's handler puts a       *)
(* character when the buffer is not full.  `at' is the line a thread's     *)
(* call has reached:                                                       *)
(*                                                                         *)
(*   "idle"    outside the queue, interrupts enabled                       *)
(*   "get", "put"     at the test of the while loop                        *)
(*   "wait"    in the loop, holding the lock once lock_acquire returned    *)
(*   "woken"   after ioq_wait, before lock_release                         *)
(*   "leave"   after the call (or the boot), before interrupts are enabled *)
(***************************************************************************)
EXTENDS Sync

CONSTANTS
    Consumers,  \* threads that call ioq_getchar
    Producers,  \* threads that call ioq_putchar
    Keyboard,   \* TRUE: the keyboard's interrupt puts characters
    Ioq,        \* ioqueue.lock
    Chars,
    BufSize     \* bufsize, 64 in the code

ASSUME IoQueueAssumption ==
    /\ Consumers \subseteq Threads \ {Idle}
    /\ Producers \subseteq Threads \ {Idle}
    /\ Consumers \cap Producers = {}
    /\ Keyboard \in BOOLEAN
    /\ Ioq \in Locks
    /\ Chars # {}
    /\ BufSize \in Nat \ {0, 1}

VARIABLES
    buf, head, tail,
    consumer, producer, \* the thread asleep on the queue, or NULL
    byte,               \* the character ioq_getchar returned to each thread
    at

ioqVars == <<buf, head, tail, consumer, producer, byte, at>>
allVars == <<vars, ioqVars>>

Positions == 0..BufSize - 1

-----------------------------------------------------------------------------
IoqInit ==
    /\ Init
    /\ buf = [i \in Positions |-> CHOOSE c \in Chars : TRUE]
    /\ head = 0
    /\ tail = 0
    /\ consumer = NULL
    /\ producer = NULL
    /\ byte = [t \in Consumers |-> CHOOSE c \in Chars : TRUE]
    /\ at = [t \in Threads |-> IF t = Main THEN "leave" ELSE "idle"]

NextPos(pos) == (pos + 1) % BufSize
Full == NextPos(head) = tail
Empty == head = tail

Go(t, place) == at' = [at EXCEPT ![t] = place]

\* wakeup(&ioq->consumer) or (&ioq->producer), when one is recorded.
Wakeup(p) ==
    IF p = NULL
    THEN UNCHANGED schedVars
    ELSE ThreadUnblock(p) /\ KAssert(ThreadUnblockAsserts(p))

-----------------------------------------------------------------------------
\* thread_start, called by main.
Spawn(p) ==
    /\ at[Main] = "idle"
    /\ Start(Main, p)
    /\ UNCHANGED ioqVars

\* intr_disable before a call of ioq_getchar or ioq_putchar.
Enter(t) ==
    /\ at[t] = "idle"
    /\ Cli(t)
    /\ \/ t \in Consumers /\ Go(t, "get")
       \/ t \in Producers /\ Go(t, "put")
    /\ UNCHANGED <<buf, head, tail, consumer, producer, byte>>

\* The while loop found the queue empty (full): lock_acquire.
Acquire(t) ==
    /\ \/ at[t] = "get" /\ Empty
       \/ at[t] = "put" /\ Full
    /\ LockAcquire(t, Ioq)
    /\ Go(t, "wait")
    /\ UNCHANGED <<buf, head, tail, consumer, producer, byte>>

\* ioq_wait: record the thread and block it.
IoqWait(t) ==
    /\ at[t] = "wait"
    /\ Calls(t)
    /\ ThreadBlock
    /\ IF t \in Consumers
       THEN /\ consumer' = t
            /\ KAssert(consumer = NULL /\ ThreadBlockAsserts)
            /\ UNCHANGED producer
       ELSE /\ producer' = t
            /\ KAssert(producer = NULL /\ ThreadBlockAsserts)
            /\ UNCHANGED consumer
    /\ pc' = [pc EXCEPT ![t] = "parked"]
    /\ Go(t, "woken")
    /\ UNCHANGED <<value, waiters, holder, repeat, target, intr, depth, buf, head, tail, byte>>

\* lock_release at the end of the loop's body, and back to the test.
Release(t) ==
    /\ at[t] = "woken"
    /\ LockRelease(t, Ioq)
    /\ Go(t, IF t \in Consumers THEN "get" ELSE "put")
    /\ UNCHANGED <<buf, head, tail, consumer, producer, byte>>

\* Variant: the read position moves before the character is fetched.
TakeAfterMove(t) ==
    /\ at[t] = "get"
    /\ Calls(t)
    /\ ~Empty
    /\ byte' = [byte EXCEPT ![t] = buf[NextPos(tail)]]
    /\ tail' = NextPos(tail)
    /\ Wakeup(producer)
    /\ producer' = NULL
    /\ Go(t, "leave")
    /\ UNCHANGED <<syncVars, buf, head, consumer>>

\* ioq_getchar after the loop.
Take(t) ==
    /\ at[t] = "get"
    /\ Calls(t)
    /\ ~Empty
    /\ byte' = [byte EXCEPT ![t] = buf[tail]]
    /\ tail' = NextPos(tail)
    /\ Wakeup(producer)
    /\ producer' = NULL
    /\ Go(t, "leave")
    /\ UNCHANGED <<syncVars, buf, head, consumer>>

\* Variant: wakeup without `*waiter = NULL'.
StoreKeepsWaiter(c) ==
    /\ ~Full
    /\ buf' = [buf EXCEPT ![head] = c]
    /\ head' = NextPos(head)
    /\ Wakeup(consumer)
    /\ UNCHANGED <<tail, producer, consumer, byte>>

\* Variant: only a character put into an empty buffer wakes the consumer, and
\* emptiness is tested after the character is in.
StoreWakesLate(c) ==
    /\ ~Full
    /\ buf' = [buf EXCEPT ![head] = c]
    /\ head' = NextPos(head)
    /\ IF NextPos(head) = tail
       THEN Wakeup(consumer) /\ consumer' = NULL
       ELSE UNCHANGED <<schedVars, consumer>>
    /\ UNCHANGED <<tail, producer, byte>>

\* ioq_putchar after the loop.
Store(c) ==
    /\ ~Full
    /\ buf' = [buf EXCEPT ![head] = c]
    /\ head' = NextPos(head)
    /\ Wakeup(consumer)
    /\ consumer' = NULL
    /\ UNCHANGED <<tail, producer, byte>>

Put(t) ==
    /\ at[t] = "put"
    /\ Calls(t)
    /\ \E c \in Chars : Store(c)
    /\ Go(t, "leave")
    /\ UNCHANGED syncVars

\* intr_set_status after the call.
Leave(t) ==
    /\ at[t] = "leave"
    /\ Sti(t)
    /\ Go(t, "idle")
    /\ UNCHANGED <<buf, head, tail, consumer, producer, byte>>

\* intr_keyboard_handler, for a key that yields a character: the character
\* is dropped when the buffer is full.
KeyIrq ==
    /\ Keyboard
    /\ Interrupt
    /\ \E c \in Chars : Store(c)
    /\ UNCHANGED <<value, waiters, at>>

-----------------------------------------------------------------------------
ThreadStep(t) ==
    Enter(t) \/ Acquire(t) \/ IoqWait(t) \/ Release(t) \/ Take(t) \/ Put(t) \/ Leave(t)

\* Steps of the library, the idle thread and the clock.
SystemStep ==
    /\ (\E t \in Threads : Library(t)) \/ Park(Idle) \/ Halt \/ Tick
    /\ UNCHANGED ioqVars

IoqNext ==
    \/ \E t \in Threads : ThreadStep(t) \/ Spawn(t)
    \/ KeyIrq
    \/ SystemStep

IoqSpec == IoqInit /\ [][IoqNext]_allVars

-----------------------------------------------------------------------------
\* The queue is used within the rules of the thread library: what is shown
\* of Sync for its most general client holds here too.
ImplementsSync == Spec

\* The characters from tail to head, oldest first.
Queue == [i \in 1..((head + BufSize - tail) % BufSize) |-> buf[(tail + i - 1) % BufSize]]

Fifo == INSTANCE BoundedFifo
            WITH Readers <- Consumers, Capacity <- BufSize - 1, queue <- Queue

\* Interrupt, consumers and producers together act as one bounded first-in
\* first-out queue: no character is lost, repeated or overtaken.
ImplementsFifo == Fifo!Spec

-----------------------------------------------------------------------------
(* The inductive invariant of Input_proofs.                                *)

IoqTypeOK ==
    /\ buf \in [Positions -> Chars]
    /\ head \in Positions
    /\ tail \in Positions
    /\ consumer \in Consumers \cup {NULL}
    /\ producer \in Producers \cup {NULL}
    /\ byte \in [Consumers -> Chars]
    /\ at \in [Threads -> {"idle", "get", "put", "wait", "woken", "leave"}]

\* The place in the queue's code, the place in the thread library and the
\* lock fit together.
PlaceFits(t) ==
    /\ at[t] = "idle" /\ t # Idle => pc[t] \in {"new", "body"}
    /\ at[t] = "leave" => pc[t] = "body"
    /\ at[t] \in {"get", "put"} => pc[t] \in {"body", "up"}
    /\ at[t] = "get" => t \in Consumers
    /\ at[t] = "put" => t \in Producers
    /\ at[t] \in {"wait", "woken"} => t \in Consumers \cup Producers
    /\ at[t] = "wait" =>
          \/ pc[t] = "body" /\ depth[t][Ioq] = 1
          \/ pc[t] \in {"down", "wait", "own"} /\ target[t] = Ioq
    /\ at[t] = "woken" => pc[t] \in {"body", "parked"} /\ depth[t][Ioq] = 1
    /\ at[t] \in {"idle", "get", "put", "leave"} => depth[t][Ioq] = 0

\* Whoever the queue has recorded is asleep in ioq_wait: wakeup finds it
\* blocked, and has not woken it yet.
Asleep(p) == at[p] = "woken" /\ pc[p] = "parked" /\ status[p] = "BLOCKED"

SleepersFit ==
    /\ consumer # NULL => Asleep(consumer)
    /\ producer # NULL => Asleep(producer)

IoqInv ==
    /\ Inv
    /\ IoqTypeOK
    /\ \A t \in Threads : PlaceFits(t)
    /\ at[Idle] = "idle"
    /\ SleepersFit
=============================================================================
