-------------------------------- MODULE Disk --------------------------------
(***************************************************************************)
(* The disk driver of device/ide.c for one channel: ide_read, ide_write,   *)
(* busy_wait and intr_hd_handler, called by several threads on top of the  *)
(* locks, semaphores and the scheduler of Sync, with an ATA device.        *)
(*                                                                         *)
(* A request of `want' sectors is done in chunks of at most ChunkMax (256  *)
(* in the code).  `at' is the line a thread's call has reached:            *)
(*                                                                         *)
(*   "idle"    outside the driver                                          *)
(*   "select"  before select_sector, holding the channel's lock once       *)
(*             lock_acquire returned                                       *)
(*   "cmd"     in cmd_out, before expecting_intr = true                    *)
(*   "out"     in cmd_out, before outb                                     *)
(*   "down"    before sema_down(&disk_done)                                *)
(*   "poll"    in busy_wait, before it reads the status register           *)
(*   "nap"     in mtime_sleep(10)                                          *)
(*   "xfer"    in insw or outsw                                            *)
(*   "next"    at the end of the loop's body                               *)
(*   "panic"   in panic_spin: interrupts disabled, looping for ever        *)
(*                                                                         *)
(* The device delivers the next sector of a command, or asks for it, as    *)
(* soon as the one before has gone through the data register; the driver   *)
(* relies on it, since it moves a whole chunk after one look at DRQ.  The  *)
(* device's interrupt is raised once per sector and may be arbitrarily     *)
(* late: the driver expects one of them.                                   *)
(***************************************************************************)
EXTENDS Sync

CONSTANTS
    Users,      \* threads that call ide_read and ide_write
    Callers,    \* those of them that may do it from within a system call
    Chan,       \* channel.lock
    Done,       \* channel.disk_done
    ChunkMax,   \* sectors of one command, 256 in the code
    MaxSectors, \* bound on the sectors of a request
    MaxPolls    \* looks at the status register before busy_wait gives up

ASSUME DiskAssumption ==
    /\ Users \subseteq Threads \ {Idle}
    /\ Main \in Users
    /\ Callers \subseteq Users \ {Main}
    /\ Chan \in Locks
    /\ Done \in Events
    /\ ChunkMax \in Nat \ {0}
    /\ MaxSectors \in Nat \ {0}
    /\ MaxPolls \in Nat \ {0}

VARIABLES
    expecting,  \* channel.expecting_intr
    regs,       \* sector count and address registers, with who wrote them
    dev,        \* the device: its phase and the command it works on
    intrq,      \* the device's interrupt line
    latched,    \* the interrupt controller has the request
    req         \* each thread's call: its place, arguments and locals

hardware == <<dev, intrq, latched>>
diskVars == <<expecting, regs, hardware, req>>
driverVars == <<vars, diskVars>>

Kinds == {"read", "write"}
Places == {"idle", "select", "cmd", "out", "down", "poll", "nap", "xfer", "next", "panic"}

Phases == {"idle", "busy", "drq"}

\* The address and count registers, the device, and a thread's call.
Registers == [user : Users, first : 0..MaxSectors, count : 0..ChunkMax - 1]

DeviceStates == [phase : Phases, kind : Kinds, user : Users,
                 first : 0..MaxSectors, left : 0..ChunkMax]

Requests == [at : Places, kind : Kinds, want : 0..MaxSectors, done : 0..MaxSectors,
             left : 0..ChunkMax, polls : 0..MaxPolls, ticked : BOOLEAN]

DiskTypeOK ==
    /\ expecting \in BOOLEAN
    /\ regs \in Registers
    /\ dev \in DeviceStates
    /\ intrq \in BOOLEAN
    /\ latched \in BOOLEAN
    /\ req \in [Users -> Requests]

NoRequest == [at |-> "idle", kind |-> "read", want |-> 0, done |-> 0,
              left |-> 0, polls |-> 0, ticked |-> FALSE]

DiskInit ==
    /\ Init
    /\ expecting = FALSE
    /\ regs = [user |-> Main, first |-> 0, count |-> 0]
    /\ dev = [phase |-> "idle", kind |-> "read", user |-> Main, first |-> 0, left |-> 0]
    /\ intrq = FALSE
    /\ latched = FALSE
    /\ req = [t \in Users |-> NoRequest]

\* The sector count passes through uint8_t: a full chunk is written as 0,
\* and the device, read_from_sector and write2sector take 0 for a full chunk.
CountByte(n) == n % ChunkMax

Sectors(b) == IF b = 0 THEN ChunkMax ELSE b

-----------------------------------------------------------------------------
(* The device and its line to the interrupt controller.                    *)

RaiseIrq == intrq' = TRUE /\ latched' = (latched \/ ~intrq)

\* A read of the status register or a write of the command register.
LowerIrq == intrq' = FALSE /\ latched' = FALSE

\* The device is ready to transfer the command's first sector.
DeviceReady ==
    /\ ~panic
    /\ dev.phase = "busy"
    /\ dev' = [dev EXCEPT !.phase = "drq"]
    /\ IF dev.kind = "read" THEN RaiseIrq ELSE UNCHANGED <<intrq, latched>>
    /\ UNCHANGED <<vars, expecting, regs, req>>

\* One sector through the data register; a device that is not ready to
\* transfer takes no notice.
DataTransfer ==
    IF dev.phase # "drq" THEN UNCHANGED hardware
    ELSE /\ dev' = [dev EXCEPT !.left = @ - 1, !.first = @ + 1,
                               !.phase = IF dev.left = 1 THEN "idle" ELSE "drq"]
         /\ IF dev.kind = "write" \/ dev.left > 1
            THEN RaiseIrq ELSE UNCHANGED <<intrq, latched>>

\* The command register is written; a device at work ignores it.
TakeCommand(k) ==
    /\ LowerIrq
    /\ dev' = IF dev.phase # "idle" THEN dev
              ELSE [phase |-> "busy", kind |-> k, user |-> regs.user,
                    first |-> regs.first, left |-> Sectors(regs.count)]

-----------------------------------------------------------------------------
(* The driver.                                                             *)

\* t runs at place p of its call; t's call becomes r.
In(t, p) == Calls(t) /\ req[t].at = p
Goes(t, r) == req' = [req EXCEPT ![t] = r]

\* A system call disables interrupts and its return enables them; main
\* enables them before ide_init and starts the other threads.
Outside(t) ==
    /\ t \in Users => req[t].at = "idle"
    /\ Sti(t) \/ (t \in Callers /\ Cli(t)) \/ (t = Main /\ \E p \in Threads : Start(t, p))
    /\ UNCHANGED diskVars

\* Variant: a request goes ahead without the channel's lock.
RequestUnlocked(t) ==
    /\ In(t, "idle")
    /\ intr[t] \/ t \in Callers
    /\ \E k \in Kinds, n \in 1..MaxSectors :
          Goes(t, [req[t] EXCEPT !.at = "select", !.kind = k, !.want = n])
    /\ UNCHANGED <<vars, expecting, regs, hardware>>

\* ide_read or ide_write of n sectors: lock_acquire.
Request(t) ==
    /\ req[t].at = "idle"
    /\ intr[t] \/ t \in Callers
    /\ LockAcquire(t, Chan)
    /\ \E k \in Kinds, n \in 1..MaxSectors :
          Goes(t, [req[t] EXCEPT !.at = "select", !.kind = k, !.want = n])
    /\ UNCHANGED <<expecting, regs, hardware>>

\* The size of the next chunk, and select_sector.
Select(t) ==
    LET r == req[t]
        n == IF r.done + ChunkMax <= r.want THEN ChunkMax ELSE r.want - r.done
    IN  /\ In(t, "select")
        /\ regs' = [user |-> t, first |-> r.done, count |-> CountByte(n)]
        /\ Goes(t, [r EXCEPT !.at = "cmd", !.left = Sectors(CountByte(n))])
        /\ UNCHANGED <<vars, expecting, hardware>>

AfterCommand(k) == IF k = "read" THEN "down" ELSE "poll"

\* Variant: cmd_out writes the command before it raises the flag.
CmdOutSwapped(t) ==
    LET r == req[t] IN
    \/ /\ In(t, "cmd")
       /\ TakeCommand(r.kind)
       /\ Goes(t, [r EXCEPT !.at = "out", !.polls = 0])
       /\ UNCHANGED <<vars, expecting, regs>>
    \/ /\ In(t, "out")
       /\ expecting' = TRUE
       /\ Goes(t, [r EXCEPT !.at = AfterCommand(r.kind)])
       /\ UNCHANGED <<vars, regs, hardware>>

\* cmd_out: an interrupt may come between the flag and the command.
CmdOut(t) ==
    LET r == req[t] IN
    \/ /\ In(t, "cmd")
       /\ expecting' = TRUE
       /\ Goes(t, [r EXCEPT !.at = "out"])
       /\ UNCHANGED <<vars, regs, hardware>>
    \/ /\ In(t, "out")
       /\ TakeCommand(r.kind)
       /\ Goes(t, [r EXCEPT !.at = AfterCommand(r.kind), !.polls = 0])
       /\ UNCHANGED <<vars, expecting, regs>>

\* sema_down(&disk_done): before the transfer of a read, after that of a write.
Down(t) ==
    /\ req[t].at = "down"
    /\ EventDown(t, Done)
    /\ Goes(t, [req[t] EXCEPT !.at = IF req[t].kind = "read" THEN "poll" ELSE "next"])
    /\ UNCHANGED <<expecting, regs, hardware>>

\* PANIC, when the device is still busy after MaxPolls looks or asks for no
\* data: panic_spin disables interrupts and never returns.  (The 10 ms that
\* busy_wait sleeps after its last look are left out: nothing is read after them.)
Panic(t) ==
    /\ dev.phase = "idle" \/ (dev.phase = "busy" /\ req[t].polls + 1 = MaxPolls)
    /\ Cli(t)
    /\ Goes(t, [req[t] EXCEPT !.at = "panic"])

\* Variant: the driver takes a device that is not ready for one that is.
PollUnready(t) ==
    /\ In(t, "poll")
    /\ LowerIrq
    /\ Goes(t, [req[t] EXCEPT !.at = "xfer"])
    /\ UNCHANGED <<vars, expecting, regs, dev>>

\* busy_wait: one look at the status register.  The code reads it a second time
\* for DRQ; in the device here a command's phase does not change in between, since
\* once it is not busy only the driver moves it on.
Poll(t) ==
    LET r == req[t] IN
    /\ In(t, "poll")
    /\ LowerIrq
    /\ \/ /\ dev.phase = "drq"
          /\ Goes(t, [r EXCEPT !.at = "xfer"])
          /\ UNCHANGED vars
       \/ /\ dev.phase = "busy" /\ r.polls + 1 < MaxPolls
          /\ Goes(t, [r EXCEPT !.at = "nap", !.polls = @ + 1, !.ticked = FALSE])
          /\ UNCHANGED vars
       \/ Panic(t)
    /\ UNCHANGED <<expecting, regs, dev>>

\* mtime_sleep(10): thread_yield until the clock has ticked.
Nap(t) ==
    /\ In(t, "nap")
    /\ IF req[t].ticked
       THEN Goes(t, [req[t] EXCEPT !.at = "poll"]) /\ UNCHANGED vars
       ELSE Yield(t) /\ UNCHANGED req
    /\ UNCHANGED <<expecting, regs, hardware>>

\* insw and outsw, one sector at a time.
Transfer(t) ==
    LET r == req[t] IN
    /\ In(t, "xfer")
    /\ DataTransfer
    /\ Goes(t, [r EXCEPT !.done = @ + 1, !.left = @ - 1,
                         !.at = IF r.left > 1 THEN "xfer"
                                ELSE IF r.kind = "read" THEN "next" ELSE "down"])
    /\ UNCHANGED <<vars, expecting, regs>>

\* The end of the loop's body, and lock_release when all chunks are done.
Loop(t) ==
    LET r == req[t] IN
    /\ r.at = "next"
    /\ \/ /\ r.done < r.want
          /\ In(t, "next") /\ UNCHANGED vars
          /\ Goes(t, [r EXCEPT !.at = "select"])
       \/ /\ r.done >= r.want
          /\ LockRelease(t, Chan)
          /\ Goes(t, NoRequest)
    /\ UNCHANGED <<expecting, regs, hardware>>

\* Variant: every interrupt of the disk ups disk_done.
DiskIrqAlways ==
    /\ latched
    /\ Interrupt /\ SemaUp(Done)
    /\ expecting' = FALSE
    /\ LowerIrq
    /\ UNCHANGED <<regs, dev, req>>

\* intr_hd_handler.
DiskIrq ==
    /\ latched
    /\ IF expecting
       THEN /\ Interrupt /\ SemaUp(Done)
            /\ expecting' = FALSE
            /\ LowerIrq
       ELSE /\ IrqOther
            /\ latched' = FALSE
            /\ UNCHANGED <<expecting, intrq>>
    /\ UNCHANGED <<regs, dev, req>>

-----------------------------------------------------------------------------
DriverStep(t) ==
    \/ Request(t) \/ Select(t) \/ CmdOut(t) \/ Down(t)
    \/ Poll(t) \/ Nap(t) \/ Transfer(t) \/ Loop(t)

\* intr_timer_handler; mtime_sleep sees the global tick count change.
Clock ==
    /\ Tick
    /\ req' = [t \in Users |-> [req[t] EXCEPT !.ticked = (req[t].at = "nap")]]
    /\ UNCHANGED <<expecting, regs, hardware>>

DriverSystemStep ==
    /\ (\E t \in Threads : Library(t)) \/ Park(Idle) \/ Halt
    /\ UNCHANGED diskVars

DiskNext ==
    \/ \E t \in Users : DriverStep(t)
    \/ \E t \in Threads : Outside(t)
    \/ DiskIrq
    \/ DeviceReady
    \/ Clock
    \/ DriverSystemStep

DiskSpec == DiskInit /\ [][DiskNext]_driverVars

-----------------------------------------------------------------------------
\* The driver uses locks and semaphores within the rules of Sync: disk_done
\* is never upped when it is up already, the lock is released by its holder.
DriverImplementsSync == Spec

\* The only panic is busy_wait's time-out on a slow device: no ASSERT fails,
\* and an interrupt that came late never makes a request fail.
PanicsOnlyOnTimeout ==
    /\ NoPanic
    /\ \A t \in Users :
          req[t].at = "panic" => dev.phase # "idle" /\ dev.user = t

\* While a thread moves a sector, the device is ready to move exactly that
\* sector, for that thread, in that direction: neither another thread nor an
\* early wake-up from an interrupt of a finished command gets in between.
TransfersMatch ==
    \A t \in Users :
        req[t].at = "xfer" =>
            /\ dev.phase = "drq"
            /\ dev.user = t /\ dev.kind = req[t].kind
            /\ dev.first = req[t].done /\ dev.left = req[t].left

\* When the channel is free nothing is left over from its last request: no
\* interrupt is expected, no unit is in disk_done, the device has stopped.
QuietWhenFree ==
    value[Chan] = 1 => ~expecting /\ value[Done] = 0 /\ dev.phase = "idle"

\* Whoever has the channel gives it back, unless the device is too slow.
ChannelReturned ==
    \A t \in Users :
        holder[Chan] = t ~> holder[Chan] # t \/ req[t].at = "panic"

-----------------------------------------------------------------------------
(* The inductive invariant of Disk_proofs.                                 *)

\* t is past select_sector: it is the one that uses the channel.
Working(t) == req[t].at \notin {"idle", "select"}

\* t waits for the interrupt of its command, or will: the flag is up, or the
\* interrupt has come already.
Outstanding(t) ==
    \/ req[t].at \in {"out", "down"}
    \/ req[t].at \in {"poll", "nap", "xfer"} /\ req[t].kind = "write"
    \/ req[t].at \in {"poll", "next"} /\ pc[t] # "body"

\* The device has sectors of t's command to transfer, or none left.
Transferring(t) ==
    \/ req[t].at \in {"poll", "nap", "xfer"}
    \/ req[t].at = "down" /\ req[t].kind = "read"

Transferred(t) ==
    \/ req[t].at = "next"
    \/ req[t].at = "down" /\ req[t].kind = "write"

\* The place in the driver, the place in the thread library and the lock
\* fit together, for the callers and for everyone else.
RequestFits(t) ==
    /\ req[t].at = "idle" =>
          depth[t][Chan] = 0 /\ pc[t] \in {"new", "body", "up"}
    /\ req[t].at = "select" =>
          \/ pc[t] = "body" /\ depth[t][Chan] = 1
          \/ pc[t] \in {"down", "wait", "own"} /\ target[t] = Chan
    /\ Working(t) => depth[t][Chan] = 1
    /\ Working(t) /\ pc[t] # "body" =>
          /\ pc[t] \in {"down", "wait"} /\ target[t] = Done
          /\ req[t].at = IF req[t].kind = "read" THEN "poll" ELSE "next"

OthersStayOut ==
    \A t \in Threads \ Users :
        pc[t] \notin {"down", "wait", "own", "up"} /\ depth[t][Chan] = 0

\* expecting_intr and disk_done: of a command that is still outstanding there
\* is exactly one trace, of any other none.
SignalFits(t) ==
    Working(t) /\ req[t].at # "panic" =>
        IF Outstanding(t) THEN expecting \/ value[Done] = 1
                          ELSE ~expecting /\ value[Done] = 0

\* The device works on the command of the thread that has the channel.
DeviceFits(t) ==
    /\ req[t].at \in {"cmd", "out"} =>
          /\ dev.phase = "idle"
          /\ regs.user = t /\ regs.first = req[t].done
          /\ Sectors(regs.count) = req[t].left
    /\ Transferring(t) =>
          /\ dev.phase # "idle"
          /\ dev.user = t /\ dev.kind = req[t].kind
          /\ dev.first = req[t].done /\ dev.left = req[t].left
    /\ req[t].at = "xfer" => dev.phase = "drq"
    /\ Transferred(t) => dev.phase = "idle"
    /\ req[t].at = "panic" => dev.phase # "idle" /\ dev.user = t

\* A chunk is not empty and stays within the request.
ChunkFits(t) ==
    /\ req[t].at = "idle" => req[t].done = 0
    /\ req[t].at = "select" => req[t].done < req[t].want
    /\ Transferred(t) => req[t].done <= req[t].want
    /\ req[t].at \in {"cmd", "out"} \/ Transferring(t) =>
          req[t].left > 0 /\ req[t].done + req[t].left <= req[t].want
    /\ Transferring(t) => req[t].polls < MaxPolls

CallerFits(t) == RequestFits(t) /\ SignalFits(t) /\ DeviceFits(t) /\ ChunkFits(t)

\* The channel at rest: no command is expected, signalled or worked on.
Quiet == ~expecting /\ value[Done] = 0 /\ dev.phase = "idle"

DiskInv ==
    /\ Inv
    /\ DiskTypeOK
    /\ \A t \in Users : CallerFits(t)
    /\ OthersStayOut
    /\ expecting => value[Done] = 0
    /\ (\A t \in Users : ~Working(t)) => Quiet
=============================================================================
