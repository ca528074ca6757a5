---------------------------- MODULE Drivers_proofs ----------------------------
(***************************************************************************)
(* Proofs about the drivers.                                               *)
(*                                                                         *)
(* The disk: the driver stays within the rules of Sync, so that the        *)
(* theorems of Sync_proofs are theorems about it, and the driver, the      *)
(* device and disk_done never get out of step.                             *)
(*                                                                         *)
(* The two ends of the input, the handler of the keyboard, which types     *)
(* into the queue, and the queue that readers take from.  The handler      *)
(* keeps up with the user, whatever is on the wire: from its state the     *)
(* bytes on the wire lead to the state that the user sees.  The queue      *)
(* stays within the rules of Sync, whom it wakes is asleep, and it         *)
(* implements the bounded queue of BoundedFifo for every size, every set   *)
(* of characters and any number of threads.                                *)
(***************************************************************************)
EXTENDS Disk, Keyboard, IoQueue, Sync_proofs

-----------------------------------------------------------------------------
(* The disk: constants and numbers.                                        *)

LEMMA UserFacts ==
    /\ Users \subseteq Threads
    /\ Idle \notin Users
    /\ Chan \in Locks /\ Chan \in Sems
    /\ Done \in Events /\ Done \in Sems /\ Done \notin Locks
  BY DiskAssumption, SyncAssumption DEF Sems

\* A chunk passes through the 8-bit count register unharmed: a full one as 0.
LEMMA ByteLemma ==
    ASSUME NEW n \in Nat, 0 < n, n <= ChunkMax
    PROVE  /\ CountByte(n) \in 0..ChunkMax - 1
           /\ Sectors(CountByte(n)) = n
<1>1. ChunkMax \in Nat /\ ChunkMax > 0
  BY DiskAssumption
<1>2. CASE n = ChunkMax
  <2>1. n % ChunkMax = 0
    BY <1>1, <1>2
  <2> QED
    BY <1>1, <1>2, <2>1 DEF CountByte, Sectors
<1>3. CASE n < ChunkMax
  <2>1. n % ChunkMax = n
    BY <1>1, <1>3
  <2> QED
    BY <1>1, <1>3, <2>1 DEF CountByte, Sectors
<1> QED
  BY <1>1, <1>2, <1>3

-----------------------------------------------------------------------------
(* The driver stays within the rules of Sync.                              *)

LEMMA IrqIsLegal ==
    ASSUME DiskInv, DiskIrq
    PROVE  IrqUp(Done) \/ IrqOther
  BY DEF DiskInv, DiskIrq, IrqUp

LEMMA UserStepIsLegal ==
    ASSUME NEW t \in Users, DriverStep(t)
    PROVE  Client(t) \/ UNCHANGED vars
<1>1. CASE Request(t) \/ Loop(t)
  BY <1>1, UserFacts DEF Request, Loop, Client
<1>2. CASE Select(t) \/ CmdOut(t) \/ Transfer(t)
  BY <1>2 DEF Select, CmdOut, Transfer
<1>3. CASE Down(t)
  BY <1>3, UserFacts DEF Down, Client
<1>4. CASE Poll(t)
  BY <1>4 DEF Poll, Panic, Client
<1>5. CASE Nap(t)
  BY <1>5 DEF Nap, Client
<1> QED
  BY <1>1, <1>2, <1>3, <1>4, <1>5 DEF DriverStep

LEMMA DriverStepIsLegal ==
    ASSUME DiskInv, [DiskNext]_driverVars
    PROVE  [Next]_vars
<1>1. CASE \E t \in Users : DriverStep(t)
  BY <1>1, UserStepIsLegal, UserFacts DEF Next
<1>2. CASE \E t \in Threads : Outside(t)
  BY <1>2 DEF Outside, Next, Client
<1>3. CASE DiskIrq
  BY <1>3, IrqIsLegal, UserFacts DEF Next, Irq
<1>4. CASE DeviceReady
  BY <1>4 DEF DeviceReady
<1>5. CASE Clock
  BY <1>5 DEF Clock, Next, Irq
<1>6. CASE DriverSystemStep
  BY <1>6, ThreadsAssumption DEF DriverSystemStep, Next, Client
<1>7. CASE UNCHANGED driverVars
  BY <1>7 DEF driverVars
<1> QED
  BY <1>1, <1>2, <1>3, <1>4, <1>5, <1>6, <1>7 DEF DiskNext

-----------------------------------------------------------------------------
(* Who has the channel.                                                    *)

LEMMA OneWorker ==
    ASSUME DiskInv, NEW t \in Users, UnitWith(t, Chan)
    PROVE  \A u \in Users \ {t} : ~Working(u) /\ ~UnitWith(u, Chan)
<1>1. \A u \in Users \ {t} : ~UnitWith(u, Chan)
  BY UserFacts DEF DiskInv, Inv, UnitsAgree
<1>2. \A u \in Users : Working(u) => UnitWith(u, Chan)
  BY DEF DiskInv, CallerFits, RequestFits, UnitWith
<1> QED
  BY <1>1, <1>2

-----------------------------------------------------------------------------
(* Every step of the driver keeps the invariant.                           *)

\* A step of the thread that has the channel, or is about to have it.
LEMMA StepOfOwner ==
    ASSUME DiskInv, Inv', DiskTypeOK', NEW t \in Users, UnitWith(t, Chan),
           \A u \in Threads \ {t} :
               pc'[u] = pc[u] /\ target'[u] = target[u] /\ depth'[u] = depth[u],
           \A u \in Users \ {t} : req'[u] = req[u],
           expecting' => value'[Done] = 0,
           CallerFits(t)',
           ~Working(t)' => Quiet'
    PROVE  DiskInv'
<1>1. ASSUME NEW u \in Users \ {t}
      PROVE  CallerFits(u)' /\ ~Working(u)'
  <2>1. req[u].at \in {"idle", "select"}
    BY OneWorker DEF Working
  <2> QED
    BY <2>1, UserFacts
    DEF DiskInv, CallerFits, RequestFits, SignalFits, DeviceFits, ChunkFits,
        Working, Outstanding, Transferring, Transferred
<1>2. OthersStayOut'
  BY DEF DiskInv, OthersStayOut
<1> QED
  BY <1>1, <1>2 DEF DiskInv

\* A step that leaves the channel's request and its device alone.
LEMMA StepElsewhere ==
    ASSUME DiskInv, Inv', DiskTypeOK',
           UNCHANGED <<expecting, regs, dev>>, value'[Done] = value[Done],
           \A u \in Users :
               IF Working(u)
               THEN /\ UNCHANGED <<req[u].at, req[u].kind, req[u].want, req[u].done,
                                   req[u].left, req[u].polls>>
                    /\ UNCHANGED <<pc[u], target[u], depth[u][Chan]>>
               ELSE ~Working(u)' /\ RequestFits(u)' /\ ChunkFits(u)',
           OthersStayOut'
    PROVE  DiskInv'
<1>1. ASSUME NEW u \in Users
      PROVE  CallerFits(u)' /\ (Working(u)' <=> Working(u))
  <2>1. CASE Working(u)
    BY <2>1
    DEF DiskInv, CallerFits, RequestFits, SignalFits, DeviceFits, ChunkFits,
        Working, Outstanding, Transferring, Transferred
  <2>2. CASE ~Working(u)
    BY <2>2
    DEF DiskInv, CallerFits, SignalFits, DeviceFits, ChunkFits,
        Working, Outstanding, Transferring, Transferred
  <2> QED
    BY <2>1, <2>2
<1> QED
  BY <1>1 DEF DiskInv, Quiet

LEMMA DriverStepKeepsSync ==
    ASSUME DiskInv, [DiskNext]_driverVars
    PROVE  Inv'
  BY DriverStepIsLegal, NextInv DEF DiskInv

\* The fields of a call after a step that replaces its record.
LEMMA RequestFacts ==
    ASSUME DiskTypeOK, NEW t \in Users
    PROVE  /\ req[t] \in Requests
           /\ \A r : Goes(t, r) =>
                 req'[t] = r /\ \A u \in Users \ {t} : req'[u] = req[u]
           /\ \A r \in Requests : Goes(t, r) => req' \in [Users -> Requests]
  BY DEF DiskTypeOK, Goes

LEMMA RequestOK ==
    ASSUME DiskInv, NEW t \in Users, Request(t)
    PROVE  DiskInv'
<1>1. Inv'
  BY DriverStepKeepsSync DEF DiskNext, DriverStep
<1>2. PICK k \in Kinds, n \in 1..MaxSectors :
          Goes(t, [req[t] EXCEPT !.at = "select", !.kind = k, !.want = n])
  BY DEF Request
<1> DEFINE r == [req[t] EXCEPT !.at = "select", !.kind = k, !.want = n]
<1>3. /\ r \in Requests
      /\ r.at = "select" /\ r.done = req[t].done /\ r.want = n
  <2>1. "select" \in Places /\ n \in 0..MaxSectors /\ req[t] \in Requests
    BY RequestFacts, DiskAssumption DEF DiskInv, Places
  <2> QED
    BY <2>1 DEF Requests
<1>4. Goes(t, r)
  BY <1>2
<1> HIDE DEF r
<1>5. /\ req[t].at = "idle" /\ depth[t][Chan] = 0 /\ pc[t] = "body"
      /\ UNCHANGED <<expecting, regs, hardware, value, depth>>
      /\ pc' = [pc EXCEPT ![t] = "down"]
      /\ target' = [target EXCEPT ![t] = Chan]
  BY UserFacts
  DEF Request, LockAcquire, Calls, DiskInv, CallerFits, RequestFits, Inv, HolderAgrees
<1>6. /\ DiskTypeOK' /\ req'[t] = r
      /\ \A u \in Users \ {t} : req'[u] = req[u]
  BY <1>3, <1>4, <1>5, RequestFacts DEF DiskInv, DiskTypeOK, hardware
<1>7. /\ pc'[t] = "down" /\ target'[t] = Chan
      /\ \A u \in Threads \ {t} : pc'[u] = pc[u] /\ target'[u] = target[u]
  BY <1>5, UserFacts DEF DiskInv, Inv, TypeOK, SyncTypeOK
<1>8. RequestFits(t)' /\ ChunkFits(t)' /\ ~Working(t)' /\ ~Working(t)
  BY <1>3, <1>5, <1>6, <1>7
  DEF DiskInv, CallerFits, RequestFits, ChunkFits, Working, Transferring, Transferred
<1>9. ASSUME NEW u \in Users \ {t}, ~Working(u)
      PROVE  RequestFits(u)' /\ ChunkFits(u)' /\ ~Working(u)'
  BY <1>5, <1>6, <1>7, <1>9, UserFacts
  DEF DiskInv, CallerFits, RequestFits, ChunkFits, Working, Transferring, Transferred
<1>10. OthersStayOut'
  BY <1>5, <1>7 DEF DiskInv, OthersStayOut
<1> QED
  BY <1>1, <1>5, <1>6, <1>7, <1>8, <1>9, <1>10, UserFacts, StepElsewhere DEF hardware

\* A step of a call that goes on, outside the thread library.
LEMMA StepInCall ==
    ASSUME DiskInv, NEW t \in Users,
           pc[t] = "body", req[t].at # "idle", UNCHANGED vars,
           expecting' \in BOOLEAN, expecting' => value[Done] = 0,
           regs' \in Registers, dev' \in DeviceStates, intrq' \in BOOLEAN,
           latched' \in BOOLEAN, NEW r \in Requests, Goes(t, r),
           r.at # "idle", r.at = "select" => Quiet',
           SignalFits(t)', DeviceFits(t)', ChunkFits(t)'
    PROVE  DiskInv'
<1>1. UNCHANGED <<pc, target, depth, value>> /\ Inv'
  BY NextInv DEF vars, syncVars, DiskInv
<1>2. depth[t][Chan] = 1
  BY DEF DiskInv, CallerFits, RequestFits, Working
<1>3. /\ DiskTypeOK' /\ req'[t] = r
      /\ \A u \in Users \ {t} : req'[u] = req[u]
  BY RequestFacts DEF DiskInv, DiskTypeOK
<1>4. RequestFits(t)'
  BY <1>1, <1>2, <1>3 DEF RequestFits, Working
<1>5. UnitWith(t, Chan) /\ (~Working(t)' => Quiet')
  BY <1>2, <1>3 DEF UnitWith, Working
<1> QED
  BY <1>1, <1>3, <1>4, <1>5, StepOfOwner DEF CallerFits

LEMMA SelectOK ==
    ASSUME DiskInv, NEW t \in Users, Select(t)
    PROVE  DiskInv'
<1> DEFINE n == IF req[t].done + ChunkMax <= req[t].want THEN ChunkMax
                ELSE req[t].want - req[t].done
           r == [req[t] EXCEPT !.at = "cmd", !.left = Sectors(CountByte(n))]
<1>1. /\ pc[t] = "body" /\ req[t].at = "select"
      /\ regs' = [user |-> t, first |-> req[t].done, count |-> CountByte(n)]
      /\ Goes(t, r)
      /\ UNCHANGED <<vars, expecting, hardware>>
  BY DEF Select, In, Calls
<1>2. /\ req[t] \in Requests /\ req[t].done \in 0..MaxSectors
      /\ req[t].want \in 0..MaxSectors /\ req[t].done < req[t].want
  BY <1>1, RequestFacts DEF DiskInv, CallerFits, ChunkFits, Requests
<1>3. n \in Nat /\ 0 < n /\ n <= ChunkMax /\ req[t].done + n <= req[t].want
  BY <1>2, DiskAssumption
<1>4. CountByte(n) \in 0..ChunkMax - 1 /\ Sectors(CountByte(n)) = n /\ n \in 0..ChunkMax
  BY <1>3, ByteLemma, DiskAssumption
<1>5. /\ r \in Requests
      /\ r.at = "cmd" /\ r.left = n /\ r.done = req[t].done /\ r.want = req[t].want
  <2> HIDE DEF n
  <2>1. "cmd" \in Places
    BY DEF Places
  <2> QED
    BY <1>2, <1>4, <2>1 DEF Requests
<1>6. regs' \in Registers
  <2> HIDE DEF n
  <2> QED
    BY <1>1, <1>2, <1>4 DEF Registers
<1> HIDE DEF n, r
<1>7. req'[t] = r /\ UNCHANGED <<pc, value, expecting, dev, intrq, latched>>
  BY <1>1, RequestFacts DEF DiskInv, hardware, vars, syncVars
<1>8. Quiet
  <2>1. UnitWith(t, Chan) /\ ~Working(t)
    BY <1>1 DEF DiskInv, CallerFits, RequestFits, UnitWith, Working
  <2> QED
    BY <2>1, OneWorker DEF DiskInv
<1>9. SignalFits(t)' /\ DeviceFits(t)' /\ ChunkFits(t)'
  BY <1>1, <1>3, <1>4, <1>5, <1>7, <1>8
  DEF SignalFits, DeviceFits, ChunkFits, Working, Outstanding, Transferring,
      Transferred, Quiet
<1> QED
  BY <1>1, <1>5, <1>6, <1>7, <1>8, <1>9, StepInCall
  DEF DiskInv, DiskTypeOK, Quiet

LEMMA FlagOK ==
    ASSUME DiskInv, NEW t \in Users, CmdOut(t), req[t].at = "cmd"
    PROVE  DiskInv'
<1> DEFINE r == [req[t] EXCEPT !.at = "out"]
<1>1. /\ pc[t] = "body"
      /\ expecting' = TRUE
      /\ Goes(t, r)
      /\ UNCHANGED <<vars, regs, hardware>>
  BY DEF CmdOut, In, Calls
<1>2. /\ r \in Requests
      /\ r.at = "out" /\ r.left = req[t].left /\ r.done = req[t].done
      /\ r.want = req[t].want
  <2>1. "out" \in Places /\ req[t] \in Requests
    BY RequestFacts DEF DiskInv, Places
  <2> QED
    BY <2>1 DEF Requests
<1> HIDE DEF r
<1>3. req'[t] = r /\ UNCHANGED <<pc, value, dev, intrq, latched, regs>>
  BY <1>1, RequestFacts DEF DiskInv, hardware, vars, syncVars
<1>4. value[Done] = 0
  BY <1>1 DEF DiskInv, CallerFits, SignalFits, Working, Outstanding
<1>5. SignalFits(t)' /\ DeviceFits(t)' /\ ChunkFits(t)'
  BY <1>1, <1>2, <1>3
  DEF DiskInv, CallerFits, SignalFits, DeviceFits, ChunkFits, Working,
      Outstanding, Transferring, Transferred
<1> QED
  BY <1>1, <1>2, <1>3, <1>4, <1>5, StepInCall DEF DiskInv, DiskTypeOK

LEMMA CommandOK ==
    ASSUME DiskInv, NEW t \in Users, CmdOut(t), req[t].at = "out"
    PROVE  DiskInv'
<1> DEFINE k == req[t].kind
           r == [req[t] EXCEPT !.at = AfterCommand(k), !.polls = 0]
           d == [phase |-> "busy", kind |-> k, user |-> t,
                 first |-> req[t].done, left |-> req[t].left]
<1>1. /\ pc[t] = "body" /\ dev.phase = "idle"
      /\ TakeCommand(k)
      /\ Goes(t, r)
      /\ UNCHANGED <<vars, expecting, regs>>
  BY DEF CmdOut, In, Calls, DiskInv, CallerFits, DeviceFits
<1>2. /\ req[t] \in Requests /\ k \in Kinds /\ req[t].left \in 0..ChunkMax
      /\ req[t].done \in 0..MaxSectors
  BY RequestFacts DEF DiskInv, Requests
<1>3. /\ r \in Requests
      /\ r.at = AfterCommand(k) /\ r.polls = 0 /\ r.kind = k
      /\ r.left = req[t].left /\ r.done = req[t].done /\ r.want = req[t].want
  <2>1. AfterCommand(k) \in Places /\ 0 \in 0..MaxPolls
    BY DiskAssumption DEF Places, AfterCommand
  <2> QED
    BY <1>2, <2>1 DEF Requests
<1>4. dev' = d /\ intrq' = FALSE /\ latched' = FALSE
  BY <1>1 DEF TakeCommand, LowerIrq, DiskInv, CallerFits, DeviceFits
<1>5. /\ d \in DeviceStates
      /\ d.phase = "busy" /\ d.kind = k /\ d.user = t
      /\ d.first = req[t].done /\ d.left = req[t].left
  <2>1. "busy" \in Phases
    BY DEF Phases
  <2> HIDE DEF k
  <2> QED
    BY <1>2, <2>1 DEF DeviceStates
<1> HIDE DEF r, d
<1>6. req'[t] = r /\ UNCHANGED <<pc, value, expecting, regs>>
  BY <1>1, RequestFacts DEF DiskInv, vars, syncVars
<1>7. DeviceFits(t)'
  BY <1>2, <1>3, <1>4, <1>5, <1>6
  DEF DeviceFits, Transferring, Transferred, AfterCommand, Kinds
<1>8. SignalFits(t)'
  BY <1>1, <1>2, <1>3, <1>6
  DEF DiskInv, CallerFits, SignalFits, Working, Outstanding, AfterCommand, Kinds
<1>9. ChunkFits(t)'
  <2>1. req[t].left > 0 /\ req[t].done + req[t].left <= req[t].want /\ MaxPolls > 0
    BY DiskAssumption DEF DiskInv, CallerFits, ChunkFits
  <2>2. r.at \in {"down", "poll"} /\ (r.at = "down" => k = "read")
    BY <1>2, <1>3 DEF AfterCommand, Kinds
  <2> QED
    BY <1>3, <1>6, <2>1, <2>2 DEF ChunkFits, Transferring, Transferred
<1>10. /\ expecting' \in BOOLEAN /\ intrq' \in BOOLEAN /\ latched' \in BOOLEAN
       /\ expecting' => value[Done] = 0
       /\ regs' \in Registers /\ dev' \in DeviceStates
       /\ r.at # "idle" /\ r.at # "select"
  BY <1>3, <1>4, <1>5, <1>6 DEF DiskInv, DiskTypeOK, AfterCommand
<1> QED
  BY <1>1, <1>3, <1>7, <1>8, <1>9, <1>10, StepInCall

LEMMA DownOK ==
    ASSUME DiskInv, NEW t \in Users, Down(t)
    PROVE  DiskInv'
<1> DEFINE r == [req[t] EXCEPT !.at = IF req[t].kind = "read" THEN "poll" ELSE "next"]
<1>1. Inv'
  BY DriverStepKeepsSync DEF DiskNext, DriverStep
<1>2. /\ req[t].at = "down"
      /\ pc' = [pc EXCEPT ![t] = "down"]
      /\ target' = [target EXCEPT ![t] = Done]
      /\ Goes(t, r)
      /\ UNCHANGED <<expecting, regs, hardware, value, depth>>
  BY DEF Down, EventDown
<1>3. /\ r \in Requests
      /\ r.at = IF req[t].kind = "read" THEN "poll" ELSE "next"
      /\ r.kind = req[t].kind /\ r.left = req[t].left /\ r.done = req[t].done
      /\ r.want = req[t].want /\ r.polls = req[t].polls
  <2>1. "poll" \in Places /\ "next" \in Places /\ req[t] \in Requests
    BY RequestFacts DEF DiskInv, Places
  <2> QED
    BY <2>1 DEF Requests
<1> HIDE DEF r
<1>4. /\ DiskTypeOK' /\ req'[t] = r
      /\ \A u \in Users \ {t} : req'[u] = req[u]
  BY <1>2, <1>3, RequestFacts DEF DiskInv, DiskTypeOK, hardware
<1>5. /\ pc'[t] = "down" /\ target'[t] = Done /\ depth[t][Chan] = 1
      /\ \A u \in Threads \ {t} : pc'[u] = pc[u] /\ target'[u] = target[u]
  BY <1>2, UserFacts
  DEF DiskInv, CallerFits, RequestFits, Working, Inv, TypeOK, SyncTypeOK
<1>6. req[t].kind \in Kinds /\ UNCHANGED <<expecting, regs, dev, value, depth>>
  BY <1>2, RequestFacts DEF DiskInv, Requests, hardware
<1>7. CallerFits(t)'
  BY <1>2, <1>3, <1>4, <1>5, <1>6
  DEF DiskInv, CallerFits, RequestFits, SignalFits, DeviceFits, ChunkFits, Working,
      Outstanding, Transferring, Transferred, Kinds
<1>8. UnitWith(t, Chan) /\ Working(t)'
  BY <1>3, <1>4, <1>5 DEF UnitWith, Working
<1> QED
  BY <1>1, <1>4, <1>5, <1>6, <1>7, <1>8, StepOfOwner DEF DiskInv

\* A look at the status register after which the call goes on.
LEMMA LookOK ==
    ASSUME DiskInv, NEW t \in Users, pc[t] = "body", req[t].at = "poll",
           LowerIrq, UNCHANGED <<vars, expecting, regs, dev>>,
           NEW r \in Requests, Goes(t, r),
           \/ r.at = "xfer" /\ dev.phase = "drq"
           \/ r.at = "nap",
           r.polls < MaxPolls, r.kind = req[t].kind, r.want = req[t].want,
           r.done = req[t].done, r.left = req[t].left
    PROVE  DiskInv'
<1>1. req'[t] = r /\ UNCHANGED <<pc, value>>
  BY RequestFacts DEF DiskInv, vars, syncVars
<1>2. /\ expecting' \in BOOLEAN /\ intrq' \in BOOLEAN /\ latched' \in BOOLEAN
      /\ expecting' => value[Done] = 0
      /\ regs' \in Registers /\ dev' \in DeviceStates
      /\ r.at # "idle" /\ r.at # "select"
  BY DEF DiskInv, DiskTypeOK, LowerIrq
<1>3. SignalFits(t)' /\ DeviceFits(t)' /\ ChunkFits(t)'
  BY <1>1
  DEF DiskInv, CallerFits, SignalFits, DeviceFits, ChunkFits, Working,
      Outstanding, Transferring, Transferred
<1> QED
  BY <1>2, <1>3, StepInCall

LEMMA PanicOK ==
    ASSUME DiskInv, NEW t \in Users, pc[t] = "body", req[t].at = "poll",
           Panic(t), LowerIrq, UNCHANGED <<expecting, regs, dev>>, Inv'
    PROVE  DiskInv'
<1> DEFINE r == [req[t] EXCEPT !.at = "panic"]
<1>1. Goes(t, r) /\ UNCHANGED <<pc, target, value, depth>>
  BY DEF Panic, Cli
<1>2. r \in Requests /\ r.at = "panic" /\ r.done = req[t].done
  <2>1. "panic" \in Places /\ req[t] \in Requests
    BY RequestFacts DEF DiskInv, Places
  <2> QED
    BY <2>1 DEF Requests
<1> HIDE DEF r
<1>3. /\ DiskTypeOK' /\ req'[t] = r
      /\ \A u \in Users \ {t} : req'[u] = req[u]
  BY <1>1, <1>2, RequestFacts DEF DiskInv, DiskTypeOK, LowerIrq
<1>4. dev.phase # "idle" /\ dev.user = t /\ depth[t][Chan] = 1
  BY DEF DiskInv, CallerFits, DeviceFits, RequestFits, Working, Transferring
<1>5. CallerFits(t)'
  BY <1>1, <1>2, <1>3, <1>4
  DEF CallerFits, RequestFits, SignalFits, DeviceFits, ChunkFits, Working,
      Transferring, Transferred
<1>6. UnitWith(t, Chan) /\ Working(t)' /\ (expecting' => value'[Done] = 0)
  BY <1>1, <1>2, <1>3, <1>4 DEF UnitWith, Working, DiskInv
<1> QED
  BY <1>1, <1>3, <1>5, <1>6, StepOfOwner

LEMMA PollOK ==
    ASSUME DiskInv, NEW t \in Users, Poll(t)
    PROVE  DiskInv'
<1>1. /\ pc[t] = "body" /\ req[t].at = "poll" /\ LowerIrq
      /\ UNCHANGED <<expecting, regs, dev>>
  BY DEF Poll, In, Calls
<1>2. req[t] \in Requests /\ {"xfer", "nap"} \subseteq Places
  BY RequestFacts DEF DiskInv, Places
<1>3. CASE dev.phase = "drq" /\ Goes(t, [req[t] EXCEPT !.at = "xfer"]) /\ UNCHANGED vars
  <2> DEFINE r == [req[t] EXCEPT !.at = "xfer"]
  <2>1. /\ r \in Requests /\ r.at = "xfer" /\ r.kind = req[t].kind
        /\ r.want = req[t].want /\ r.done = req[t].done /\ r.left = req[t].left
        /\ r.polls < MaxPolls
    BY <1>2, <1>3, <1>1 DEF Requests, DiskInv, CallerFits, ChunkFits, Transferring
  <2> HIDE DEF r
  <2>2. Goes(t, r)
    BY <1>3 DEF r
  <2> QED
    BY <1>1, <1>3, <2>1, <2>2, LookOK
<1>4. CASE /\ req[t].polls + 1 < MaxPolls
           /\ Goes(t, [req[t] EXCEPT !.at = "nap", !.polls = @ + 1, !.ticked = FALSE])
           /\ UNCHANGED vars
  <2> DEFINE r == [req[t] EXCEPT !.at = "nap", !.polls = @ + 1, !.ticked = FALSE]
  <2>1. req[t].polls + 1 \in 0..MaxPolls
    BY <1>2, <1>4, DiskAssumption DEF Requests
  <2>2. /\ r \in Requests /\ r.at = "nap" /\ r.kind = req[t].kind
        /\ r.want = req[t].want /\ r.done = req[t].done /\ r.left = req[t].left
        /\ r.polls < MaxPolls
    BY <1>2, <1>4, <2>1 DEF Requests
  <2> HIDE DEF r
  <2>3. Goes(t, r)
    BY <1>4 DEF r
  <2> QED
    BY <1>1, <1>4, <2>2, <2>3, LookOK
<1>5. CASE Panic(t)
  <2>1. Inv'
    BY DriverStepKeepsSync DEF DiskNext, DriverStep
  <2> QED
    BY <1>1, <1>5, <2>1, PanicOK
<1> QED
  BY <1>3, <1>4, <1>5 DEF Poll

\* A step that changes nothing the invariant of the driver speaks of.
LEMMA StepOutOfSight ==
    ASSUME DiskInv, Inv', UNCHANGED <<diskVars, value, pc, target, depth>>
    PROVE  DiskInv'
<1>1. DiskTypeOK' /\ OthersStayOut' /\ UNCHANGED <<expecting, regs, dev, req>>
  BY DEF DiskInv, DiskTypeOK, OthersStayOut, diskVars, hardware
<1>2. \A u \in Users : (Working(u)' <=> Working(u)) /\ RequestFits(u)' /\ ChunkFits(u)'
  BY <1>1
  DEF DiskInv, CallerFits, RequestFits, ChunkFits, Working, Transferring, Transferred
<1> QED
  BY <1>1, <1>2, StepElsewhere

LEMMA NapOK ==
    ASSUME DiskInv, NEW t \in Users, Nap(t)
    PROVE  DiskInv'
<1>1. CASE Yield(t) /\ UNCHANGED req
  <2>1. Inv'
    BY DriverStepKeepsSync DEF DiskNext, DriverStep
  <2> QED
    BY <1>1, <2>1, StepOutOfSight DEF Nap, Yield, syncVars, diskVars
<1>2. CASE Goes(t, [req[t] EXCEPT !.at = "poll"]) /\ UNCHANGED vars
  <2> DEFINE r == [req[t] EXCEPT !.at = "poll"]
  <2>1. pc[t] = "body" /\ req[t].at = "nap" /\ UNCHANGED <<expecting, regs, hardware>>
    BY DEF Nap, In, Calls
  <2>2. /\ r \in Requests /\ r.at = "poll" /\ r.kind = req[t].kind
        /\ r.want = req[t].want /\ r.done = req[t].done /\ r.left = req[t].left
        /\ r.polls = req[t].polls
    <3>1. "poll" \in Places /\ req[t] \in Requests
      BY RequestFacts DEF DiskInv, Places
    <3> QED
      BY <3>1 DEF Requests
  <2> HIDE DEF r
  <2>3. Goes(t, r)
    BY <1>2 DEF r
  <2>4. req'[t] = r /\ UNCHANGED <<pc, value, dev, intrq, latched>>
    BY <1>2, <2>1, <2>3, RequestFacts DEF DiskInv, vars, syncVars, hardware
  <2>5. SignalFits(t)' /\ DeviceFits(t)' /\ ChunkFits(t)'
    BY <2>1, <2>2, <2>4
    DEF DiskInv, CallerFits, SignalFits, DeviceFits, ChunkFits, Working,
        Outstanding, Transferring, Transferred
  <2> QED
    BY <1>2, <2>1, <2>2, <2>3, <2>4, <2>5, StepInCall DEF DiskInv, DiskTypeOK
<1> QED
  BY <1>1, <1>2 DEF Nap

LEMMA TransferOK ==
    ASSUME DiskInv, NEW t \in Users, Transfer(t)
    PROVE  DiskInv'
<1> DEFINE p == IF req[t].left > 1 THEN "xfer"
                ELSE IF req[t].kind = "read" THEN "next" ELSE "down"
           r == [req[t] EXCEPT !.done = @ + 1, !.left = @ - 1, !.at = p]
           d == [dev EXCEPT !.left = @ - 1, !.first = @ + 1,
                            !.phase = IF dev.left = 1 THEN "idle" ELSE "drq"]
<1>1. /\ pc[t] = "body" /\ req[t].at = "xfer"
      /\ DataTransfer
      /\ Goes(t, r)
      /\ UNCHANGED <<vars, expecting, regs>>
  BY DEF Transfer, In, Calls
<1>2. /\ dev.phase = "drq" /\ dev.user = t /\ dev.kind = req[t].kind
      /\ dev.first = req[t].done /\ dev.left = req[t].left
      /\ req[t].left > 0 /\ req[t].done + req[t].left <= req[t].want
      /\ req[t].kind \in Kinds
      /\ req[t].left \in 0..ChunkMax /\ req[t].done \in 0..MaxSectors
      /\ req[t].want \in 0..MaxSectors
      /\ req[t] \in Requests
  BY <1>1, RequestFacts
  DEF DiskInv, CallerFits, DeviceFits, ChunkFits, Transferring, Requests
<1>3. req[t].done + 1 \in 0..MaxSectors /\ req[t].left - 1 \in 0..ChunkMax
  BY <1>2, DiskAssumption
<1>4. /\ r \in Requests
      /\ r.at = p /\ r.kind = req[t].kind /\ r.want = req[t].want
      /\ r.done = req[t].done + 1 /\ r.left = req[t].left - 1
      /\ r.polls = req[t].polls
  <2>1. p \in Places
    BY DEF Places
  <2> HIDE DEF p
  <2> QED
    BY <1>2, <1>3, <2>1 DEF Requests
<1>5. dev' = d /\ intrq' \in BOOLEAN /\ latched' \in BOOLEAN
  BY <1>1, <1>2 DEF DataTransfer, RaiseIrq, DiskInv, DiskTypeOK
<1>6. /\ d \in DeviceStates
      /\ d.user = t /\ d.kind = req[t].kind
      /\ d.first = req[t].done + 1 /\ d.left = req[t].left - 1
      /\ d.phase = IF req[t].left = 1 THEN "idle" ELSE "drq"
  <2>1. {"idle", "drq"} \subseteq Phases /\ dev \in DeviceStates
    BY DEF Phases, DiskInv, DiskTypeOK
  <2> QED
    BY <1>2, <1>3, <2>1 DEF DeviceStates
<1> HIDE DEF p, r, d
<1>7. req'[t] = r /\ UNCHANGED <<pc, value, expecting, regs>>
  BY <1>1, RequestFacts DEF DiskInv, vars, syncVars
<1>8. /\ req[t].left > 1 => p = "xfer"
      /\ req[t].left = 1 => p = IF req[t].kind = "read" THEN "next" ELSE "down"
  BY DEF p
<1>9. req[t].left > 1 \/ req[t].left = 1
  BY <1>2
<1>10. DeviceFits(t)'
  BY <1>2, <1>4, <1>5, <1>6, <1>7, <1>8, <1>9
  DEF DeviceFits, Transferring, Transferred, Kinds
<1>11. SignalFits(t)'
  BY <1>1, <1>2, <1>4, <1>7, <1>8, <1>9
  DEF DiskInv, CallerFits, SignalFits, Working, Outstanding, Kinds
<1>12. ChunkFits(t)'
  <2>1. req[t].polls < MaxPolls
    BY <1>1 DEF DiskInv, CallerFits, ChunkFits, Transferring
  <2> QED
    BY <1>2, <1>4, <1>7, <1>8, <1>9, <2>1 DEF ChunkFits, Transferring, Transferred, Kinds
<1>13. /\ expecting' \in BOOLEAN
       /\ expecting' => value[Done] = 0
       /\ regs' \in Registers /\ dev' \in DeviceStates
  BY <1>5, <1>6, <1>7 DEF DiskInv, DiskTypeOK
<1>14. r.at # "idle" /\ r.at # "select"
  BY <1>4 DEF p
<1> QED
  BY <1>1, <1>4, <1>5, <1>10, <1>11, <1>12, <1>13, <1>14, StepInCall

LEMMA LoopOK ==
    ASSUME DiskInv, NEW t \in Users, Loop(t)
    PROVE  DiskInv'
<1>1. /\ req[t].at = "next" /\ pc[t] = "body"
      /\ UNCHANGED <<expecting, regs, hardware>>
  BY DEF Loop, In, Calls, LockRelease
<1>2. Quiet /\ depth[t][Chan] = 1 /\ req[t] \in Requests
  BY <1>1, RequestFacts
  DEF DiskInv, CallerFits, SignalFits, DeviceFits, RequestFits, Working, Outstanding,
      Transferred, Quiet
<1>3. CASE /\ req[t].done < req[t].want
           /\ Goes(t, [req[t] EXCEPT !.at = "select"])
           /\ UNCHANGED vars
  <2> DEFINE r == [req[t] EXCEPT !.at = "select"]
  <2>1. /\ r \in Requests /\ r.at = "select"
        /\ r.want = req[t].want /\ r.done = req[t].done
    <3>1. "select" \in Places
      BY DEF Places
    <3> QED
      BY <1>2, <3>1 DEF Requests
  <2> HIDE DEF r
  <2>2. Goes(t, r)
    BY <1>3 DEF r
  <2>3. req'[t] = r /\ UNCHANGED <<pc, value, dev, intrq, latched>>
    BY <1>1, <1>3, <2>2, RequestFacts DEF DiskInv, vars, syncVars, hardware
  <2>4. SignalFits(t)' /\ DeviceFits(t)' /\ ChunkFits(t)'
    BY <1>3, <2>1, <2>3
    DEF SignalFits, DeviceFits, ChunkFits, Working, Transferring, Transferred
  <2>5. Quiet'
    BY <1>1, <1>2, <2>3 DEF Quiet
  <2> QED
    BY <1>1, <1>3, <2>1, <2>2, <2>3, <2>4, <2>5, StepInCall DEF DiskInv, DiskTypeOK
<1>4. CASE LockRelease(t, Chan) /\ Goes(t, NoRequest)
  <2>1. Inv'
    BY DriverStepKeepsSync DEF DiskNext, DriverStep
  <2>2. repeat[Chan] = 1
    BY <1>2, UserFacts DEF DiskInv, Inv, HolderAgrees
  <2>3. /\ pc' = [pc EXCEPT ![t] = "up"]
        /\ target' = [target EXCEPT ![t] = Chan]
        /\ depth' = [depth EXCEPT ![t][Chan] = @ - 1]
        /\ UNCHANGED value
    BY <1>4, <2>2 DEF LockRelease
  <2>4. /\ pc'[t] = "up" /\ depth'[t][Chan] = 0
        /\ \A u \in Threads \ {t} :
              pc'[u] = pc[u] /\ target'[u] = target[u] /\ depth'[u] = depth[u]
    BY <1>2, <2>3, UserFacts DEF DiskInv, Inv, TypeOK, SyncTypeOK
  <2>5. NoRequest \in Requests /\ NoRequest.at = "idle" /\ NoRequest.done = 0
    BY DiskAssumption DEF NoRequest, Requests, Places, Kinds
  <2>6. /\ DiskTypeOK' /\ req'[t] = NoRequest
        /\ \A u \in Users \ {t} : req'[u] = req[u]
    BY <1>1, <1>4, <2>5, RequestFacts DEF DiskInv, DiskTypeOK, hardware
  <2>7. CallerFits(t)'
    BY <2>4, <2>5, <2>6
    DEF CallerFits, RequestFits, SignalFits, DeviceFits, ChunkFits, Working,
        Transferring, Transferred
  <2>8. UnitWith(t, Chan) /\ Quiet'
    BY <1>1, <1>2, <2>3 DEF UnitWith, Quiet, hardware
  <2> QED
    BY <2>1, <2>4, <2>6, <2>7, <2>8, StepOfOwner DEF Quiet
<1> QED
  BY <1>3, <1>4 DEF Loop

-----------------------------------------------------------------------------
(* The device, its interrupt and the clock.                                *)

LEMMA DeviceReadyOK ==
    ASSUME DiskInv, DeviceReady
    PROVE  DiskInv'
<1> DEFINE d == [dev EXCEPT !.phase = "drq"]
<1>1. /\ dev.phase = "busy" /\ dev' = d
      /\ UNCHANGED <<vars, expecting, regs, req>>
      /\ intrq' \in BOOLEAN /\ latched' \in BOOLEAN
  BY DEF DeviceReady, RaiseIrq, DiskInv, DiskTypeOK
<1>2. /\ d \in DeviceStates /\ d.phase = "drq" /\ d.kind = dev.kind
      /\ d.user = dev.user /\ d.first = dev.first /\ d.left = dev.left
  <2>1. "drq" \in Phases /\ dev \in DeviceStates
    BY DEF DiskInv, DiskTypeOK, Phases
  <2> QED
    BY <2>1 DEF DeviceStates
<1> HIDE DEF d
<1>3. Inv' /\ UNCHANGED <<pc, target, depth, value>>
  BY <1>1, NextInv DEF vars, syncVars, DiskInv
<1>4. DiskTypeOK'
  BY <1>1, <1>2 DEF DiskInv, DiskTypeOK
<1>5. ASSUME NEW u \in Users
      PROVE  CallerFits(u)'
  BY <1>1, <1>2, <1>3
  DEF DiskInv, CallerFits, RequestFits, SignalFits, DeviceFits, ChunkFits,
      Working, Outstanding, Transferring, Transferred
<1>6. \E t \in Users : Working(t)
  BY <1>1 DEF DiskInv, Quiet
<1> QED
  BY <1>1, <1>3, <1>4, <1>5, <1>6 DEF DiskInv, OthersStayOut, Working

LEMMA DiskIrqOK ==
    ASSUME DiskInv, DiskIrq
    PROVE  DiskInv'
<1>1. Inv' /\ Interrupt
  BY DriverStepKeepsSync DEF DiskNext, DiskIrq, IrqOther
<1>2. /\ UNCHANGED <<target, depth, regs, dev, req>>
      /\ \A u \in Threads \ {Idle} : pc'[u] = pc[u]
      /\ pc'[Idle] \notin {"down", "wait", "own", "up"}
  BY <1>1, InterruptPlaces DEF Interrupt, DiskIrq, DiskInv
<1>3. DiskTypeOK'
  BY <1>2 DEF DiskInv, DiskTypeOK, DiskIrq, LowerIrq
<1>4. OthersStayOut'
  BY <1>2 DEF DiskInv, OthersStayOut
<1>5. CASE expecting
  <2>1. value' = [value EXCEPT ![Done] = 1] /\ expecting' = FALSE
    BY <1>5, UserFacts DEF DiskIrq, SemaUp, DiskInv, Inv, TypeOK, SyncTypeOK
  <2>2. value'[Done] = 1
    BY <2>1, UserFacts DEF DiskInv, Inv, TypeOK, SyncTypeOK
  <2>3. ASSUME NEW u \in Users
        PROVE  CallerFits(u)'
    BY <1>2, <1>5, <2>1, <2>2, UserFacts
    DEF DiskInv, CallerFits, RequestFits, SignalFits, DeviceFits, ChunkFits,
        Working, Outstanding, Transferring, Transferred
  <2>4. \E t \in Users : Working(t)
    BY <1>5 DEF DiskInv, Quiet
  <2> QED
    BY <1>1, <1>2, <1>3, <1>4, <2>1, <2>3, <2>4 DEF DiskInv, Working
<1>6. CASE ~expecting
  <2>1. UNCHANGED <<expecting, value>>
    BY <1>6 DEF DiskIrq, IrqOther
  <2>2. ASSUME NEW u \in Users
        PROVE  CallerFits(u)'
    BY <1>2, <2>1, UserFacts
    DEF DiskInv, CallerFits, RequestFits, SignalFits, DeviceFits, ChunkFits,
        Working, Outstanding, Transferring, Transferred
  <2> QED
    BY <1>1, <1>2, <1>3, <1>4, <2>1, <2>2 DEF DiskInv, Working, Quiet
<1> QED
  BY <1>5, <1>6

LEMMA ClockOK ==
    ASSUME DiskInv, Clock
    PROVE  DiskInv'
<1> DEFINE r(t) == [req[t] EXCEPT !.ticked = (req[t].at = "nap")]
<1>1. Inv' /\ Interrupt /\ UNCHANGED value
  BY DriverStepKeepsSync DEF DiskNext, Clock, Tick
<1>2. /\ UNCHANGED <<target, depth, expecting, regs, hardware>>
      /\ \A u \in Threads \ {Idle} : pc'[u] = pc[u]
      /\ pc'[Idle] \notin {"down", "wait", "own", "up"}
  BY <1>1, InterruptPlaces DEF Interrupt, Clock, DiskInv
<1>3. req' = [u \in Users |-> r(u)]
  BY DEF Clock
<1>4. ASSUME NEW u \in Users
      PROVE  /\ r(u) \in Requests
             /\ r(u).at = req[u].at /\ r(u).kind = req[u].kind
             /\ r(u).want = req[u].want /\ r(u).done = req[u].done
             /\ r(u).left = req[u].left /\ r(u).polls = req[u].polls
  <2>1. req[u] \in Requests /\ (req[u].at = "nap") \in BOOLEAN
    BY RequestFacts DEF DiskInv
  <2> QED
    BY <2>1 DEF Requests
<1> HIDE DEF r
<1>5. DiskTypeOK' /\ \A u \in Users : req'[u] = r(u)
  BY <1>2, <1>3, <1>4 DEF DiskInv, DiskTypeOK, hardware
<1>6. OthersStayOut'
  BY <1>2 DEF DiskInv, OthersStayOut
<1>7. ASSUME NEW u \in Users, ~Working(u)
      PROVE  ~Working(u)' /\ RequestFits(u)' /\ ChunkFits(u)'
  BY <1>2, <1>4, <1>5, <1>7, UserFacts
  DEF DiskInv, CallerFits, RequestFits, ChunkFits, Working, Transferring, Transferred
<1> QED
  BY <1>1, <1>2, <1>4, <1>5, <1>6, <1>7, UserFacts, StepElsewhere DEF hardware

-----------------------------------------------------------------------------
(* Steps outside the driver and inside the thread library.                 *)

LEMMA OutsideOK ==
    ASSUME DiskInv, NEW t \in Threads, Outside(t)
    PROVE  DiskInv'
<1>1. Inv' /\ UNCHANGED diskVars
  BY DriverStepKeepsSync DEF DiskNext, Outside
<1>2. CASE Sti(t) \/ Cli(t)
  BY <1>1, <1>2, StepOutOfSight DEF Sti, Cli
<1>3. CASE \E p \in Threads : Start(t, p)
  <2>1. PICK p \in Threads :
            /\ pc[p] = "new" /\ pc' = [pc EXCEPT ![p] = "body"]
            /\ UNCHANGED <<value, target, depth>>
    BY <1>3 DEF Start
  <2>2. /\ \A u \in Threads \ {p} : pc'[u] = pc[u]
        /\ pc'[p] = "body"
    BY <2>1 DEF DiskInv, Inv, TypeOK, SyncTypeOK
  <2>3. /\ DiskTypeOK' /\ OthersStayOut'
        /\ UNCHANGED <<expecting, regs, dev, req>>
    BY <1>1, <2>1, <2>2 DEF DiskInv, DiskTypeOK, OthersStayOut, diskVars, hardware
  <2>4. ASSUME NEW u \in Users
        PROVE  IF Working(u) THEN pc'[u] = pc[u]
               ELSE ~Working(u)' /\ RequestFits(u)' /\ ChunkFits(u)'
    BY <2>1, <2>2, <2>3, UserFacts
    DEF DiskInv, CallerFits, RequestFits, ChunkFits, Working, Transferring, Transferred
  <2> QED
    BY <1>1, <2>1, <2>3, <2>4, StepElsewhere
<1> QED
  BY <1>2, <1>3 DEF Outside

\* A step of the library in which only t moves, to place p.
LEMMA DriverPlaces ==
    ASSUME DiskInv, NEW t \in Threads, NEW p, pc' = [pc EXCEPT ![t] = p]
    PROVE  /\ pc'[t] = p
           /\ \A u \in Threads \ {t} : pc'[u] = pc[u]
  BY DEF DiskInv, Inv, TypeOK, SyncTypeOK

LEMMA SemaDownOK ==
    ASSUME DiskInv, Inv', NEW t \in Threads, SemaDown(t), UNCHANGED diskVars
    PROVE  DiskInv'
<1>1. /\ pc[t] \in {"down", "wait"} /\ t \in Users
      /\ UNCHANGED <<target, depth, expecting, regs, dev, req>>
  BY DEF SemaDown, At, Wait, TakeUnit, DiskInv, OthersStayOut, diskVars, hardware
<1>2. DiskTypeOK'
  BY DEF DiskInv, DiskTypeOK, diskVars, hardware
<1>3. CASE Working(t)
  <2>1. target[t] = Done /\ depth[t][Chan] = 1
    BY <1>1, <1>3 DEF DiskInv, CallerFits, RequestFits
  <2>2. \/ pc' = [pc EXCEPT ![t] = "wait"] /\ UNCHANGED value
        \/ /\ pc' = [pc EXCEPT ![t] = "body"]
           /\ value[Done] = 1 /\ value'[Done] = 0
    BY <2>1, UserFacts
    DEF SemaDown, Wait, TakeUnit, DiskInv, Inv, TypeOK, SyncTypeOK
  <2>3. CallerFits(t)'
    BY <1>1, <1>3, <2>1, <2>2, DriverPlaces
    DEF DiskInv, CallerFits, RequestFits, SignalFits, DeviceFits, ChunkFits,
        Working, Outstanding, Transferring, Transferred
  <2>4. UnitWith(t, Chan) /\ Working(t)' /\ (expecting' => value'[Done] = 0)
    BY <1>1, <1>3, <2>1, <2>2 DEF UnitWith, Working, DiskInv
  <2> QED
    BY <1>1, <1>2, <2>2, <2>3, <2>4, DriverPlaces, UserFacts, StepOfOwner
<1>4. CASE ~Working(t)
  <2>1. req[t].at = "select" /\ target[t] = Chan
    BY <1>1, <1>4 DEF DiskInv, CallerFits, RequestFits, Working
  <2>2. /\ \E p \in {"wait", "own"} : pc' = [pc EXCEPT ![t] = p]
        /\ value'[Done] = value[Done]
    BY <2>1, UserFacts DEF SemaDown, Wait, TakeUnit, DiskInv, Inv, TypeOK, SyncTypeOK
  <2>3. /\ pc'[t] \in {"wait", "own"}
        /\ \A u \in Threads \ {t} : pc'[u] = pc[u]
    BY <2>2, DriverPlaces
  <2>4. OthersStayOut'
    BY <1>1, <2>3 DEF DiskInv, OthersStayOut
  <2>5. ASSUME NEW u \in Users
        PROVE  IF Working(u) THEN pc'[u] = pc[u]
               ELSE ~Working(u)' /\ RequestFits(u)' /\ ChunkFits(u)'
    BY <1>1, <1>4, <2>1, <2>3, UserFacts
    DEF DiskInv, CallerFits, RequestFits, ChunkFits, Working, Transferring, Transferred
  <2> QED
    BY <1>1, <1>2, <2>2, <2>4, <2>5, StepElsewhere
<1> QED
  BY <1>3, <1>4

LEMMA OwnOK ==
    ASSUME DiskInv, Inv', NEW t \in Threads, Own(t), UNCHANGED diskVars
    PROVE  DiskInv'
<1>1. /\ pc[t] = "own" /\ t \in Users /\ pc' = [pc EXCEPT ![t] = "body"]
      /\ depth' = [depth EXCEPT ![t][target[t]] = 1]
      /\ UNCHANGED <<value, target, expecting, regs, dev, req>>
  BY DEF Own, At, DiskInv, OthersStayOut, diskVars, hardware
<1>2. req[t].at = "select" /\ target[t] = Chan
  BY <1>1 DEF DiskInv, CallerFits, RequestFits, Working
<1>3. /\ pc'[t] = "body" /\ depth'[t][Chan] = 1
      /\ \A u \in Threads \ {t} : pc'[u] = pc[u] /\ depth'[u] = depth[u]
  BY <1>1, <1>2, UserFacts DEF DiskInv, Inv, TypeOK, SyncTypeOK
<1>4. DiskTypeOK' /\ OthersStayOut'
  BY <1>1, <1>3 DEF DiskInv, DiskTypeOK, OthersStayOut, diskVars, hardware
<1>5. ASSUME NEW u \in Users
      PROVE  IF Working(u) THEN UNCHANGED <<pc[u], depth[u]>>
             ELSE ~Working(u)' /\ RequestFits(u)' /\ ChunkFits(u)'
  BY <1>1, <1>2, <1>3, UserFacts
  DEF DiskInv, CallerFits, RequestFits, ChunkFits, Working, Transferring, Transferred
<1> QED
  BY <1>1, <1>4, <1>5, StepElsewhere

\* lock_release's sema_up, the return of thread_block, and the idle thread:
\* none of them is in the middle of a request.
LEMMA OtherLibraryOK ==
    ASSUME DiskInv, Inv', NEW t \in Threads, UNCHANGED diskVars,
           Up(t) \/ Resume(t) \/ (t = Idle /\ (Park(t) \/ Halt))
    PROVE  DiskInv'
<1>1. /\ UNCHANGED <<target, depth, expecting, regs, dev, req>>
      /\ \E p \in {"body", "sti", "parked", "halt"} : pc' = [pc EXCEPT ![t] = p]
      /\ pc[t] \in {"up", "parked"} \/ t = Idle
  BY DEF Up, Resume, Park, Halt, At, diskVars, hardware
<1>2. /\ pc'[t] \in {"body", "sti", "parked", "halt"}
      /\ \A u \in Threads \ {t} : pc'[u] = pc[u]
  BY <1>1, DriverPlaces
<1>3. t \in Users => pc[t] = "up" /\ pc'[t] = "body" /\ req[t].at = "idle"
  <2>1. t \in Users => pc[t] \in {"up", "parked"}
    BY <1>1, UserFacts
  <2>2. t \in Users => pc[t] = "up" /\ req[t].at = "idle"
    BY <2>1
    DEF DiskInv, CallerFits, RequestFits, Working
  <2>3. pc[t] = "up" => pc'[t] = "body"
    <3>1. pc[t] = "up" => Up(t)
      BY DEF Resume, Park, Halt, At, Calls
    <3>2. Up(t) => pc'[t] = "body"
      <4>1. Up(t) => pc' = [pc EXCEPT ![t] = "body"]
        BY DEF Up
      <4> QED
        BY <4>1, DriverPlaces
    <3> QED
      BY <3>1, <3>2
  <2> QED
    BY <2>2, <2>3
<1>4. value'[Done] = value[Done]
  <2>1. CASE Up(t)
    <3>1. target[t] \in Locks
      BY <2>1 DEF Up, At, DiskInv, Inv, PlacesAgree
    <3> QED
      BY <2>1, <3>1, UserFacts DEF Up, SemaUp, DiskInv, Inv, TypeOK, SyncTypeOK
  <2> QED
    BY <2>1 DEF Resume, Park, Halt
<1>5. DiskTypeOK' /\ OthersStayOut'
  BY <1>1, <1>2 DEF DiskInv, DiskTypeOK, OthersStayOut, diskVars, hardware
<1>6. ASSUME NEW u \in Users
      PROVE  IF Working(u) THEN pc'[u] = pc[u]
             ELSE ~Working(u)' /\ RequestFits(u)' /\ ChunkFits(u)'
  BY <1>1, <1>2, <1>3, UserFacts
  DEF DiskInv, CallerFits, RequestFits, ChunkFits, Working, Transferring, Transferred
<1> QED
  BY <1>1, <1>4, <1>5, <1>6, StepElsewhere

LEMMA DriverStepOK ==
    ASSUME DiskInv, DriverSystemStep
    PROVE  DiskInv'
<1>1. Inv' /\ UNCHANGED diskVars
  BY DriverStepKeepsSync DEF DiskNext, DriverSystemStep
<1>2. CASE \E t \in Threads : Library(t)
  BY <1>1, <1>2, SemaDownOK, OwnOK, OtherLibraryOK DEF Library
<1>3. CASE Park(Idle) \/ Halt
  BY <1>1, <1>3, OtherLibraryOK, ThreadsAssumption
<1> QED
  BY <1>2, <1>3 DEF DriverSystemStep

-----------------------------------------------------------------------------
LEMMA DiskInitInv == DiskInit => DiskInv
<1> SUFFICES ASSUME DiskInit
             PROVE  DiskInv
  OBVIOUS
<1>1. Inv
  BY InitInv DEF DiskInit
<1>2. NoRequest \in Requests /\ NoRequest.at = "idle" /\ NoRequest.done = 0
  BY DiskAssumption DEF NoRequest, Requests, Places, Kinds
<1>3. /\ regs \in Registers
      /\ dev \in DeviceStates /\ dev.phase = "idle"
      /\ req \in [Users -> Requests]
      /\ \A t \in Users : req[t] = NoRequest
  BY <1>2, DiskAssumption DEF DiskInit, Registers, DeviceStates, Phases, Kinds
<1>4. /\ \A t \in Threads : pc[t] \in {"new", "body"} /\ depth[t][Chan] = 0
      /\ value[Done] = 0
  BY UserFacts DEF DiskInit, Init, SyncInit
<1>5. DiskTypeOK /\ OthersStayOut /\ Quiet
  BY <1>3, <1>4 DEF DiskInit, DiskTypeOK, OthersStayOut, Quiet
<1>6. \A t \in Users : CallerFits(t)
  BY <1>2, <1>3, <1>4, UserFacts
  DEF CallerFits, RequestFits, SignalFits, DeviceFits, ChunkFits, Working,
      Transferring, Transferred
<1> QED
  BY <1>1, <1>5, <1>6 DEF DiskInv, DiskInit

LEMMA DiskNextInv == DiskInv /\ [DiskNext]_driverVars => DiskInv'
<1> SUFFICES ASSUME DiskInv, [DiskNext]_driverVars
             PROVE  DiskInv'
  OBVIOUS
<1>1. ASSUME NEW t \in Users, DriverStep(t)
      PROVE  DiskInv'
  <2>1. CmdOut(t) => req[t].at \in {"cmd", "out"}
    BY DEF CmdOut, In
  <2> QED
    BY <1>1, <2>1, RequestOK, SelectOK, FlagOK, CommandOK, DownOK, PollOK, NapOK,
       TransferOK, LoopOK
    DEF DriverStep
<1>2. CASE UNCHANGED driverVars
  <2>1. Inv' /\ UNCHANGED <<diskVars, value, pc, target, depth>>
    BY <1>2, NextInv DEF driverVars, vars, syncVars, DiskInv
  <2> QED
    BY <2>1, StepOutOfSight
<1> QED
  BY <1>1, <1>2, OutsideOK, DiskIrqOK, DeviceReadyOK, ClockOK, DriverStepOK DEF DiskNext

\* The inductive invariant of the driver holds in every state.
THEOREM DiskSpecInv == DiskSpec => []DiskInv
<1>1. DiskInit => DiskInv
  BY DiskInitInv
<1>2. DiskInv /\ [DiskNext]_driverVars => DiskInv'
  BY DiskNextInv
<1> QED
  BY <1>1, <1>2, PTL DEF DiskSpec

\* ide_read, ide_write and intr_hd_handler use locks and semaphores within
\* the rules of Sync, whatever the order of their steps: every theorem about
\* Sync's Spec holds of the driver.
THEOREM DiskImplementsSync == DiskSpec => DriverImplementsSync
<1>1. DiskInit => Init
  BY DEF DiskInit
<1>2. DiskInv /\ [DiskNext]_driverVars => [Next]_vars
  BY DriverStepIsLegal
<1> QED
  BY <1>1, <1>2, DiskSpecInv, PTL DEF DiskSpec, DriverImplementsSync, Spec

\* While a sector goes through the data register, it is the sector the
\* thread asked for, of its own command.
THEOREM DiskTransfersMatch == DiskSpec => []TransfersMatch
<1>1. DiskInv => TransfersMatch
  BY DEF DiskInv, CallerFits, DeviceFits, Transferring, TransfersMatch
<1> QED
  BY <1>1, DiskSpecInv, PTL

\* A channel that is free has no trace of its last request.
THEOREM DiskQuietWhenFree == DiskSpec => []QuietWhenFree
<1>1. DiskInv => QuietWhenFree
  <2> SUFFICES ASSUME DiskInv, value[Chan] = 1
               PROVE  Quiet
    BY DEF QuietWhenFree, Quiet
  <2>1. \A t \in Users : ~UnitWith(t, Chan)
    BY UserFacts DEF DiskInv, Inv, UnitsAgree
  <2>2. \A t \in Users : ~Working(t)
    BY <2>1 DEF DiskInv, CallerFits, RequestFits, UnitWith
  <2> QED
    BY <2>2 DEF DiskInv
<1> QED
  BY <1>1, DiskSpecInv, PTL

\* busy_wait's time-out is the only panic, and it is about the command of
\* the thread that panics.
THEOREM DiskPanicsOnlyOnTimeout == DiskSpec => []PanicsOnlyOnTimeout
<1>1. DiskInv => PanicsOnlyOnTimeout
  BY DEF DiskInv, Inv, CallerFits, DeviceFits, PanicsOnlyOnTimeout
<1> QED
  BY <1>1, DiskSpecInv, PTL

-----------------------------------------------------------------------------
(* The keyboard.                                                           *)

\* One flag stands for the two shift (ctrl, alt) keys (keyboard.c:142), so that
\* it can be right about one key of each kind only.
OneOfAKind ==
    /\ ~({"shift_l", "shift_r"} \subseteq Keys)
    /\ ~({"ctrl_l", "ctrl_r"} \subseteq Keys)
    /\ ~({"alt_l", "alt_r"} \subseteq Keys)

State == [ctrl : BOOLEAN, shift : BOOLEAN, alt : BOOLEAN, caps : BOOLEAN,
          ext : BOOLEAN, typed : [index : {"none", "a", "1"}, shift : BOOLEAN]]

\* What the handler knows.
Driver == [ctrl |-> ctrl_status, shift |-> shift_status, alt |-> alt_status,
           caps |-> caps_lock_status, ext |-> ext_scancode, typed |-> typed]

\* What it should know when it has read everything.
Seen(keys, lock, char) ==
    [ctrl |-> keys \cap {"ctrl_l", "ctrl_r"} # {},
     shift |-> keys \cap {"shift_l", "shift_r"} # {},
     alt |-> keys \cap {"alt_l", "alt_r"} # {},
     caps |-> lock, ext |-> FALSE, typed |-> char]

\* The handler's state after byte b, when it was d.
Break(d, i) ==
    [ctrl |-> d.ctrl /\ i # "ctrl",
     shift |-> d.shift /\ ~(i \in {"shift_l", "shift_r"} /\ ~d.ext),
     alt |-> d.alt /\ i # "alt",
     caps |-> d.caps, ext |-> FALSE, typed |-> d.typed]

Typed(d, i) ==
    IF i = "a" THEN Char("a", d.shift # d.caps)
    ELSE IF i = "1" THEN Char("1", d.shift) ELSE d.typed

Make(d, i) ==
    IF IF d.ext THEN i \in {"ctrl", "alt"} ELSE i # "up"
    THEN [ctrl |-> d.ctrl \/ i = "ctrl",
          shift |-> d.shift \/ i \in {"shift_l", "shift_r"},
          alt |-> d.alt \/ i = "alt",
          caps |-> d.caps # (i = "caps"), ext |-> FALSE, typed |-> Typed(d, i)]
    ELSE [ctrl |-> d.ctrl, shift |-> d.shift, alt |-> d.alt, caps |-> d.caps,
          ext |-> FALSE, typed |-> d.typed]

React(d, b) ==
    IF b.index = "e0"
    THEN [ctrl |-> d.ctrl, shift |-> d.shift, alt |-> d.alt, caps |-> d.caps,
          ext |-> TRUE, typed |-> d.typed]
    ELSE IF b.break THEN Break(d, b.index) ELSE Make(d, b.index)

\* From state d the bytes w lead through the states st to state u.
Leads(st, d, w, u) ==
    /\ st \in Seq(State)
    /\ Len(st) = Len(w) + 1
    /\ st[1] = d
    /\ \A i \in 1..Len(w) : st[i + 1] = React(st[i], w[i])
    /\ st[Len(w) + 1] = u

KeysInv ==
    /\ wire \in Seq(Byte)
    /\ down \subseteq Keys
    /\ Driver \in State
    /\ Seen(down, caps, wanted) \in State
    /\ \E st : Leads(st, Driver, wire, Seen(down, caps, wanted))

-----------------------------------------------------------------------------
(* The handler.                                                            *)

LEMMA ReactType ==
    ASSUME NEW d \in State, NEW b \in Byte
    PROVE  React(d, b) \in State
  BY DEF State, React, Break, Make, Typed, Char, Byte

\* intr_keyboard_handler, as a function of its state and of the byte it reads.
LEMMA InterruptReacts ==
    ASSUME KeyboardInterrupt, Driver \in State, wire \in Seq(Byte)
    PROVE  Driver' = React(Driver, Head(wire)) /\ wire # <<>> /\ wire' = Tail(wire)
<1> DEFINE b == Head(wire)
<1>1. wire # <<>> /\ wire' = Tail(wire) /\ b \in Byte
  BY DEF KeyboardInterrupt
<1>2. /\ ctrl_status \in BOOLEAN /\ shift_status \in BOOLEAN /\ alt_status \in BOOLEAN
      /\ caps_lock_status \in BOOLEAN /\ ext_scancode \in BOOLEAN
  BY DEF Driver, State
<1> HIDE DEF b
<1>3. CASE b.index = "e0"
  BY <1>3 DEF KeyboardInterrupt, ReadPrefix, Driver, React, b
<1>4. CASE b.index # "e0" /\ b.break
  <2>1. ReadBreak(b.index)
    BY <1>4 DEF KeyboardInterrupt, ReadPrefix, b
  <2>2. Driver' = Break(Driver, b.index)
    BY <2>1 DEF ReadBreak, Driver, Break
  <2> QED
    BY <1>1, <1>4, <2>2 DEF React, b
<1>5. CASE b.index # "e0" /\ ~b.break
  <2>1. ReadMake(b.index)
    BY <1>5 DEF KeyboardInterrupt, ReadPrefix, b
  <2>2. CASE Known(b.index)
    <3>1. MakeKnown(b.index)
      BY <2>1, <2>2 DEF ReadMake
    <3>2. typed' = Typed(Driver, b.index)
      BY <3>1, <1>2 DEF MakeKnown, KeyMap, Typed, Driver, Char, NoChar
    <3>3. Driver' = Make(Driver, b.index)
      BY <2>2, <3>1, <3>2 DEF MakeKnown, Driver, Make, Known
    <3> QED
      BY <1>1, <1>5, <3>3 DEF React, b
  <2>3. CASE ~Known(b.index)
    <3>1. Driver' = Make(Driver, b.index)
      BY <2>1, <2>3 DEF ReadMake, Driver, Make, Known
    <3> QED
      BY <1>1, <1>5, <3>1 DEF React, b
  <2> QED
    BY <2>2, <2>3
<1> QED
  BY <1>3, <1>4, <1>5, <1>1

LEMMA InterruptInv ==
    ASSUME KeysInv, KeyboardInterrupt
    PROVE  KeysInv'
<1>1. /\ wire \in Seq(Byte) /\ Driver \in State
      /\ Driver' = React(Driver, Head(wire)) /\ wire # <<>> /\ wire' = Tail(wire)
  BY InterruptReacts DEF KeysInv
<1>2. UNCHANGED <<down, caps, wanted>>
  BY DEF KeyboardInterrupt, user
<1>3. PICK st : Leads(st, Driver, wire, Seen(down, caps, wanted))
  BY DEF KeysInv
<1> DEFINE d == Driver
           u == Seen(down, caps, wanted)
           w == wire
<1> HIDE DEF d, u, w
<1>4. Leads(Tail(st), React(d, Head(w)), Tail(w), u)
  <2>1. Leads(st, d, w, u) /\ w \in Seq(Byte) /\ w # <<>>
    BY <1>1, <1>3 DEF d, u, w
  <2>2. /\ Len(w) \in Nat \ {0} /\ Tail(w) \in Seq(Byte) /\ Len(Tail(w)) = Len(w) - 1
        /\ Head(w) = w[1] /\ \A i \in 1..Len(w) - 1 : Tail(w)[i] = w[i + 1]
    BY <2>1
  <2>3. /\ st \in Seq(State) /\ Len(st) = Len(w) + 1 /\ st # <<>>
    BY <2>1, <2>2 DEF Leads
  <2>4. /\ Tail(st) \in Seq(State) /\ Len(Tail(st)) = Len(w)
        /\ \A i \in 1..Len(w) : Tail(st)[i] = st[i + 1]
    BY <2>2, <2>3
  <2>5. ASSUME NEW i \in 1..Len(Tail(w))
        PROVE  Tail(st)[i + 1] = React(Tail(st)[i], Tail(w)[i])
    <3>1. i \in 1..Len(w) /\ i + 1 \in 1..Len(w) /\ i \in 1..Len(w) - 1
      BY <2>2
    <3> QED
      BY <2>1, <2>2, <2>4, <3>1 DEF Leads
  <2>6. Tail(st)[1] = React(d, Head(w))
    BY <2>1, <2>2, <2>4 DEF Leads
  <2>7. Tail(st)[Len(w)] = u
    BY <2>1, <2>2, <2>4 DEF Leads
  <2> QED
    BY <2>2, <2>4, <2>5, <2>6, <2>7 DEF Leads
<1>5. Leads(Tail(st), Driver', wire', u)
  BY <1>1, <1>4 DEF d, w
<1>6. Driver' \in State /\ wire' \in Seq(Byte)
  BY <1>1, ReactType
<1> QED
  BY <1>2, <1>5, <1>6 DEF KeysInv, u

-----------------------------------------------------------------------------
(* The user.                                                               *)

LEMMA LeadsOn ==
    ASSUME NEW st, NEW d, NEW w \in Seq(Byte), NEW u \in State, Leads(st, d, w, u),
           NEW b \in Byte
    PROVE  \E st2 : Leads(st2, d, Append(w, b), React(u, b))
<1> DEFINE v == React(u, b)
           st2 == Append(st, v)
<1>1. v \in State
  BY ReactType
<1> HIDE DEF v
<1>2. /\ st \in Seq(State) /\ Len(st) = Len(w) + 1 /\ Len(w) \in Nat
      /\ st[1] = d /\ st[Len(w) + 1] = u
      /\ \A i \in 1..Len(w) : st[i + 1] = React(st[i], w[i])
  BY DEF Leads
<1>3. /\ st2 \in Seq(State) /\ Len(st2) = Len(w) + 2
      /\ \A i \in 1..Len(w) + 1 : st2[i] = st[i]
      /\ st2[Len(w) + 2] = v
  BY <1>1, <1>2
<1>4. /\ Append(w, b) \in Seq(Byte) /\ Len(Append(w, b)) = Len(w) + 1
      /\ \A i \in 1..Len(w) : Append(w, b)[i] = w[i]
      /\ Append(w, b)[Len(w) + 1] = b
  BY <1>2
<1> HIDE DEF st2
<1>5. ASSUME NEW i \in 1..Len(w) + 1
      PROVE  st2[i + 1] = React(st2[i], Append(w, b)[i])
  <2>1. CASE i \in 1..Len(w)
    BY <1>2, <1>3, <1>4, <2>1
  <2>2. CASE i = Len(w) + 1
    BY <1>2, <1>3, <1>4, <2>2 DEF v
  <2> QED
    BY <1>2, <2>1, <2>2
<1>6. Leads(st2, d, Append(w, b), v)
  BY <1>2, <1>3, <1>4, <1>5 DEF Leads
<1> QED
  BY <1>6 DEF v

\* The handler's state after the bytes of key k.
After(d, k, break) ==
    LET code == [index |-> Index(k), break |-> break]
    IN  React(IF Prefixed(k) THEN React(d, Prefix) ELSE d, code)

LEMMA KeyFacts ==
    ASSUME NEW k \in AllKeys, NEW break \in BOOLEAN
    PROVE  /\ [index |-> Index(k), break |-> break] \in Byte
           /\ Prefix \in Byte
  BY DEF Byte, Prefix

\* The bytes of a key lead on to the handler's state after that key.
LEMMA SendLeads ==
    ASSUME KeysInv, NEW k \in AllKeys, NEW break \in BOOLEAN, Send(k, break)
    PROVE  /\ wire' \in Seq(Byte)
           /\ \E st : Leads(st, Driver, wire', After(Seen(down, caps, wanted), k, break))
<1> DEFINE code == [index |-> Index(k), break |-> break]
           u == Seen(down, caps, wanted)
           d == Driver
           w == wire
<1>1. /\ code \in Byte /\ Prefix \in Byte
      /\ w \in Seq(Byte) /\ u \in State
      /\ \E st : Leads(st, d, w, u)
  BY KeyFacts DEF KeysInv
<1>2. IF Prefixed(k) THEN w' = w \o (<<Prefix>> \o <<code>>) ELSE w' = w \o <<code>>
  BY DEF Send
<1>3. After(u, k, break) = React(IF Prefixed(k) THEN React(u, Prefix) ELSE u, code)
  BY DEF After
<1>4. PICK w2 : w2 = w'
  OBVIOUS
<1> HIDE DEF code, u, d, w
<1>5. CASE ~Prefixed(k)
  <2>1. w2 = Append(w, code)
    BY <1>1, <1>2, <1>4, <1>5
  <2>2. \E st : Leads(st, d, w2, React(u, code))
    BY <1>1, <2>1, LeadsOn
  <2>3. w2 \in Seq(Byte)
    BY <1>1, <2>1
  <2> QED
    BY <1>3, <1>4, <1>5, <2>2, <2>3 DEF u, d, w
<1>6. CASE Prefixed(k)
  <2>1. w2 = Append(Append(w, Prefix), code)
    BY <1>1, <1>2, <1>4, <1>6
  <2>2. Append(w, Prefix) \in Seq(Byte) /\ React(u, Prefix) \in State
    BY <1>1, ReactType
  <2>3. \E st : Leads(st, d, Append(w, Prefix), React(u, Prefix))
    BY <1>1, LeadsOn
  <2>4. \E st : Leads(st, d, w2, React(React(u, Prefix), code))
    BY <1>1, <2>1, <2>2, <2>3, LeadsOn
  <2>5. w2 \in Seq(Byte)
    BY <1>1, <2>1
  <2> QED
    BY <1>3, <1>4, <1>6, <2>4, <2>5 DEF u, d, w
<1> QED
  BY <1>5, <1>6

LEMMA IndexFacts ==
    /\ \A k \in AllKeys :
          /\ Index(k) # "e0"
          /\ Index(k) = "ctrl" <=> k \in {"ctrl_l", "ctrl_r"}
          /\ Index(k) = "alt" <=> k \in {"alt_l", "alt_r"}
          /\ \A i \in {"a", "1", "shift_l", "shift_r", "caps", "up"} : Index(k) = i <=> k = i
          /\ Prefixed(k) => Index(k) \in {"ctrl", "alt", "up"}
          /\ Index(k) = "up" => Prefixed(k)
  BY DEF AllKeys, Index, Prefixed

\* What a make code and a break code do to the handler's state, by key.
LEMMA PressEffect ==
    ASSUME NEW u \in State, ~u.ext, NEW k \in AllKeys
    PROVE  LET d == After(u, k, FALSE)
           IN  /\ d.ctrl <=> u.ctrl \/ k \in {"ctrl_l", "ctrl_r"}
               /\ d.shift <=> u.shift \/ k \in {"shift_l", "shift_r"}
               /\ d.alt <=> u.alt \/ k \in {"alt_l", "alt_r"}
               /\ d.caps <=> (u.caps <=> k # "caps")
               /\ ~d.ext
               /\ d.typed = IF k \in {"a", "1"} THEN Typed(u, k) ELSE u.typed
<1> DEFINE i == Index(k)
           v == IF Prefixed(k) THEN React(u, Prefix) ELSE u
           code == [index |-> i, break |-> FALSE]
<1>1. After(u, k, FALSE) = React(v, code)
  BY DEF After
<1>2. React(v, code) = Make(v, i)
  BY IndexFacts DEF React
<1>3. /\ v.ctrl = u.ctrl /\ v.shift = u.shift /\ v.alt = u.alt /\ v.caps = u.caps
      /\ v.typed = u.typed /\ (v.ext <=> Prefixed(k))
  <2>1. CASE Prefixed(k)
    BY <2>1 DEF React, Prefix
  <2>2. CASE ~Prefixed(k)
    BY <2>2
  <2> QED
    BY <2>1, <2>2
<1>4. /\ u.ctrl \in BOOLEAN /\ u.shift \in BOOLEAN /\ u.alt \in BOOLEAN /\ u.caps \in BOOLEAN
  BY DEF State
<1>5. /\ i = "ctrl" <=> k \in {"ctrl_l", "ctrl_r"}
      /\ i = "alt" <=> k \in {"alt_l", "alt_r"}
      /\ i \in {"shift_l", "shift_r"} <=> k \in {"shift_l", "shift_r"}
      /\ i = "caps" <=> k = "caps"
      /\ i = "a" <=> k = "a"
      /\ i = "1" <=> k = "1"
      /\ Prefixed(k) => i \in {"ctrl", "alt", "up"}
      /\ i = "up" => Prefixed(k)
  BY IndexFacts
<1> HIDE DEF i, v
<1>6. CASE IF v.ext THEN i \in {"ctrl", "alt"} ELSE i # "up"
  <2>1. Make(v, i) = [ctrl |-> v.ctrl \/ i = "ctrl",
                      shift |-> v.shift \/ i \in {"shift_l", "shift_r"},
                      alt |-> v.alt \/ i = "alt",
                      caps |-> v.caps # (i = "caps"), ext |-> FALSE, typed |-> Typed(v, i)]
    BY <1>6 DEF Make
  <2>2. Typed(v, i) = IF k \in {"a", "1"} THEN Typed(u, k) ELSE u.typed
    <3>1. CASE k \in {"a", "1"}
      BY <1>3, <1>5, <3>1 DEF Typed
    <3>2. CASE k \notin {"a", "1"}
      BY <1>3, <1>5, <3>2 DEF Typed
    <3> QED
      BY <3>1, <3>2
  <2>3. Make(v, i).caps = (u.caps # (i = "caps"))
    BY <1>3, <2>1
  <2>4. (u.caps # (i = "caps")) <=> (u.caps <=> k # "caps")
    BY <1>4, <1>5
  <2>5. /\ Make(v, i).ctrl <=> u.ctrl \/ i = "ctrl"
        /\ Make(v, i).shift <=> u.shift \/ i \in {"shift_l", "shift_r"}
        /\ Make(v, i).alt <=> u.alt \/ i = "alt"
        /\ ~Make(v, i).ext /\ Make(v, i).typed = Typed(v, i)
    <3>1. /\ Make(v, i).ctrl = (v.ctrl \/ i = "ctrl")
          /\ Make(v, i).shift = (v.shift \/ i \in {"shift_l", "shift_r"})
          /\ Make(v, i).alt = (v.alt \/ i = "alt")
          /\ Make(v, i).ext = FALSE /\ Make(v, i).typed = Typed(v, i)
      BY <2>1
    <3> QED
      BY <1>3, <3>1
  <2> QED
    BY <1>1, <1>2, <1>5, <2>2, <2>3, <2>4, <2>5
<1>7. CASE ~IF v.ext THEN i \in {"ctrl", "alt"} ELSE i # "up"
  <2>1. Make(v, i) = [ctrl |-> v.ctrl, shift |-> v.shift, alt |-> v.alt, caps |-> v.caps,
                      ext |-> FALSE, typed |-> v.typed]
    BY <1>7 DEF Make
  <2>2. i = "up"
    BY <1>3, <1>5, <1>7
  <2>3. k \notin {"ctrl_l", "ctrl_r", "shift_l", "shift_r", "alt_l", "alt_r", "caps", "a", "1"}
    BY <1>5, <2>2
  <2>4. /\ Make(v, i).ctrl = u.ctrl /\ Make(v, i).shift = u.shift /\ Make(v, i).alt = u.alt
        /\ Make(v, i).caps = u.caps /\ Make(v, i).typed = u.typed /\ ~Make(v, i).ext
    BY <1>3, <2>1
  <2> QED
    BY <1>1, <1>2, <1>4, <2>3, <2>4
<1> QED
  BY <1>6, <1>7

LEMMA LiftEffect ==
    ASSUME NEW u \in State, ~u.ext, NEW k \in AllKeys
    PROVE  LET d == After(u, k, TRUE)
           IN  /\ d.ctrl <=> u.ctrl /\ k \notin {"ctrl_l", "ctrl_r"}
               /\ d.shift <=> u.shift /\ k \notin {"shift_l", "shift_r"}
               /\ d.alt <=> u.alt /\ k \notin {"alt_l", "alt_r"}
               /\ d.caps = u.caps
               /\ ~d.ext
               /\ d.typed = u.typed
<1> DEFINE i == Index(k)
           v == IF Prefixed(k) THEN React(u, Prefix) ELSE u
           code == [index |-> i, break |-> TRUE]
<1>1. After(u, k, TRUE) = React(v, code)
  BY DEF After
<1>2. React(v, code) = Break(v, i)
  BY IndexFacts DEF React
<1>3. /\ v.ctrl = u.ctrl /\ v.shift = u.shift /\ v.alt = u.alt /\ v.caps = u.caps
      /\ v.typed = u.typed /\ (v.ext <=> Prefixed(k))
  <2>1. CASE Prefixed(k)
    BY <2>1 DEF React, Prefix
  <2>2. CASE ~Prefixed(k)
    BY <2>2
  <2> QED
    BY <2>1, <2>2
<1>4. /\ u.ctrl \in BOOLEAN /\ u.shift \in BOOLEAN /\ u.alt \in BOOLEAN /\ u.caps \in BOOLEAN
  BY DEF State
<1>5. /\ i = "ctrl" <=> k \in {"ctrl_l", "ctrl_r"}
      /\ i = "alt" <=> k \in {"alt_l", "alt_r"}
      /\ i \in {"shift_l", "shift_r"} <=> k \in {"shift_l", "shift_r"}
      /\ Prefixed(k) => i \in {"ctrl", "alt", "up"}
  BY IndexFacts
<1> HIDE DEF i, v
<1>6. Break(v, i) =
          [ctrl |-> v.ctrl /\ i # "ctrl",
           shift |-> v.shift /\ ~(i \in {"shift_l", "shift_r"} /\ ~v.ext),
           alt |-> v.alt /\ i # "alt",
           caps |-> v.caps, ext |-> FALSE, typed |-> v.typed]
  BY DEF Break
<1>7. /\ Break(v, i).ctrl <=> u.ctrl /\ i # "ctrl"
      /\ Break(v, i).shift <=> u.shift /\ ~(i \in {"shift_l", "shift_r"} /\ ~v.ext)
      /\ Break(v, i).alt <=> u.alt /\ i # "alt"
      /\ Break(v, i).caps = u.caps /\ ~Break(v, i).ext /\ Break(v, i).typed = u.typed
  <2>1. /\ Break(v, i).ctrl = (v.ctrl /\ i # "ctrl")
        /\ Break(v, i).shift = (v.shift /\ ~(i \in {"shift_l", "shift_r"} /\ ~v.ext))
        /\ Break(v, i).alt = (v.alt /\ i # "alt")
        /\ Break(v, i).caps = v.caps /\ Break(v, i).ext = FALSE /\ Break(v, i).typed = v.typed
    BY <1>6
  <2> QED
    BY <1>3, <2>1
<1> QED
  BY <1>1, <1>2, <1>3, <1>5, <1>7

LEMMA SameState ==
    ASSUME NEW d \in State, NEW u \in State,
           d.ctrl <=> u.ctrl, d.shift <=> u.shift, d.alt <=> u.alt, d.caps <=> u.caps,
           d.ext <=> u.ext, d.typed = u.typed
    PROVE  d = u
  BY DEF State

LEMMA AfterType ==
    ASSUME NEW u \in State, NEW k \in AllKeys, NEW break \in BOOLEAN
    PROVE  After(u, k, break) \in State
<1>1. [index |-> Index(k), break |-> break] \in Byte /\ Prefix \in Byte
  BY KeyFacts
<1> QED
  BY <1>1, ReactType DEF After

LEMMA PressSeen ==
    ASSUME KeysInv, OneOfAKind, NEW k \in Keys, Press(k)
    PROVE  /\ After(Seen(down, caps, wanted), k, FALSE) = Seen(down, caps, wanted)'
           /\ Seen(down, caps, wanted)' \in State
<1> DEFINE u == Seen(down, caps, wanted)
           s == Seen(down', caps', wanted')
           d == After(u, k, FALSE)
<1>1. k \in AllKeys /\ u \in State
  BY KeyboardAssumption DEF KeysInv
<1>2. /\ down' = down \cup {k}
      /\ caps' = IF k = "caps" THEN ~caps ELSE caps
      /\ wanted' = CASE k = "a" -> Char("a", ShiftDown # caps)
                     [] k = "1" -> Char("1", ShiftDown)
                     [] OTHER   -> wanted
  BY DEF Press
<1>3. caps \in BOOLEAN /\ wanted \in [index : {"none", "a", "1"}, shift : BOOLEAN]
  BY <1>1 DEF Seen, State
<1>4. /\ u.ctrl = (down \cap {"ctrl_l", "ctrl_r"} # {})
      /\ u.shift = ShiftDown
      /\ u.alt = (down \cap {"alt_l", "alt_r"} # {})
      /\ u.caps = caps /\ u.ext = FALSE /\ u.typed = wanted
  BY DEF Seen, ShiftDown
<1>5. wanted' = IF k \in {"a", "1"} THEN Typed(u, k) ELSE u.typed
  <2>1. CASE k = "a"
    BY <1>2, <1>4, <2>1 DEF Typed
  <2>2. CASE k = "1"
    BY <1>2, <1>4, <2>2 DEF Typed
  <2>3. CASE k \notin {"a", "1"}
    BY <1>2, <1>4, <2>3
  <2> QED
    BY <2>1, <2>2, <2>3
<1>6. caps' <=> (caps <=> k # "caps")
  BY <1>2, <1>3
<1>7. /\ s.ctrl = (down' \cap {"ctrl_l", "ctrl_r"} # {})
      /\ s.shift = (down' \cap {"shift_l", "shift_r"} # {})
      /\ s.alt = (down' \cap {"alt_l", "alt_r"} # {})
      /\ s.caps = caps' /\ s.ext = FALSE /\ s.typed = wanted'
  BY DEF Seen
<1>8. wanted' \in [index : {"none", "a", "1"}, shift : BOOLEAN]
  <2>1. /\ \A x \in BOOLEAN : Char("a", x) \in [index : {"none", "a", "1"}, shift : BOOLEAN]
        /\ \A x \in BOOLEAN : Char("1", x) \in [index : {"none", "a", "1"}, shift : BOOLEAN]
    BY DEF Char
  <2>2. (ShiftDown # caps) \in BOOLEAN /\ ShiftDown \in BOOLEAN
    BY DEF ShiftDown
  <2> QED
    BY <1>2, <1>3, <2>1, <2>2
<1>9. s \in State
  BY <1>2, <1>3, <1>8 DEF Seen, State
<1>10. d \in State
  BY <1>1, AfterType
<1>11. /\ d.ctrl <=> u.ctrl \/ k \in {"ctrl_l", "ctrl_r"}
       /\ d.shift <=> u.shift \/ k \in {"shift_l", "shift_r"}
       /\ d.alt <=> u.alt \/ k \in {"alt_l", "alt_r"}
       /\ d.caps <=> (u.caps <=> k # "caps")
       /\ ~d.ext
       /\ d.typed = IF k \in {"a", "1"} THEN Typed(u, k) ELSE u.typed
  BY <1>1, <1>4, PressEffect
<1> HIDE DEF s, d, u
<1>12. /\ d.ctrl <=> s.ctrl
       /\ d.shift <=> s.shift
       /\ d.alt <=> s.alt
  BY <1>2, <1>4, <1>7, <1>11 DEF ShiftDown
<1>13. (d.caps <=> s.caps) /\ (d.ext <=> s.ext) /\ d.typed = s.typed
  BY <1>4, <1>5, <1>6, <1>7, <1>11
<1>14. d = s
  BY <1>9, <1>10, <1>12, <1>13, SameState
<1> QED
  BY <1>9, <1>14 DEF d, s, u

\* A flag is cleared when the one key of its kind is lifted.
LEMMA LiftSeen ==
    ASSUME KeysInv, OneOfAKind, NEW k \in Keys, Lift(k)
    PROVE  /\ After(Seen(down, caps, wanted), k, TRUE) = Seen(down, caps, wanted)'
           /\ Seen(down, caps, wanted)' \in State
<1> DEFINE u == Seen(down, caps, wanted)
           s == Seen(down', caps', wanted')
           d == After(u, k, TRUE)
<1>1. k \in AllKeys /\ u \in State /\ down \subseteq Keys /\ k \in down
  BY KeyboardAssumption DEF KeysInv, Lift
<1>2. down' = down \ {k} /\ caps' = caps /\ wanted' = wanted
  BY DEF Lift
<1>3. /\ u.ctrl = (down \cap {"ctrl_l", "ctrl_r"} # {})
      /\ u.shift = (down \cap {"shift_l", "shift_r"} # {})
      /\ u.alt = (down \cap {"alt_l", "alt_r"} # {})
      /\ u.caps = caps /\ u.ext = FALSE /\ u.typed = wanted
  BY DEF Seen
<1>4. /\ s.ctrl = (down' \cap {"ctrl_l", "ctrl_r"} # {})
      /\ s.shift = (down' \cap {"shift_l", "shift_r"} # {})
      /\ s.alt = (down' \cap {"alt_l", "alt_r"} # {})
      /\ s.caps = caps /\ s.ext = FALSE /\ s.typed = wanted
  BY <1>2 DEF Seen
<1>5. s \in State
  BY <1>1, <1>2 DEF Seen, State
<1>6. d \in State
  BY <1>1, AfterType
<1>7. /\ d.ctrl <=> u.ctrl /\ k \notin {"ctrl_l", "ctrl_r"}
      /\ d.shift <=> u.shift /\ k \notin {"shift_l", "shift_r"}
      /\ d.alt <=> u.alt /\ k \notin {"alt_l", "alt_r"}
      /\ d.caps = u.caps
      /\ ~d.ext
      /\ d.typed = u.typed
  BY <1>1, <1>3, LiftEffect
<1>8. /\ ~({"shift_l", "shift_r"} \subseteq down)
      /\ ~({"ctrl_l", "ctrl_r"} \subseteq down)
      /\ ~({"alt_l", "alt_r"} \subseteq down)
  BY <1>1 DEF OneOfAKind
<1> HIDE DEF s, d, u
<1>9. ASSUME NEW x, NEW y, ~({x, y} \subseteq down)
      PROVE  down' \cap {x, y} # {} <=> down \cap {x, y} # {} /\ k \notin {x, y}
  BY <1>1, <1>2, <1>9
<1>10. d.ctrl <=> s.ctrl
  BY <1>3, <1>4, <1>7, <1>8, <1>9
<1>11. d.shift <=> s.shift
  BY <1>3, <1>4, <1>7, <1>8, <1>9
<1>12. d.alt <=> s.alt
  BY <1>3, <1>4, <1>7, <1>8, <1>9
<1>13. (d.caps <=> s.caps) /\ (d.ext <=> s.ext) /\ d.typed = s.typed
  BY <1>3, <1>4, <1>7
<1>14. d = s
  BY <1>5, <1>6, <1>10, <1>11, <1>12, <1>13, SameState
<1> QED
  BY <1>5, <1>14 DEF d, s, u

LEMMA UserInv ==
    ASSUME KeysInv, OneOfAKind, NEW k \in Keys, Press(k) \/ Lift(k)
    PROVE  KeysInv'
<1>1. k \in AllKeys
  BY KeyboardAssumption
<1>2. Driver' = Driver /\ down' \subseteq Keys
  BY DEF Press, Lift, driver, Driver, KeysInv
<1>3. PICK break \in BOOLEAN :
          /\ Send(k, break)
          /\ After(Seen(down, caps, wanted), k, break) = Seen(down, caps, wanted)'
          /\ Seen(down, caps, wanted)' \in State
  BY PressSeen, LiftSeen DEF Press, Lift
<1>4. /\ wire' \in Seq(Byte)
      /\ \E st : Leads(st, Driver, wire', After(Seen(down, caps, wanted), k, break))
  BY <1>1, <1>3, SendLeads
<1> QED
  BY <1>2, <1>3, <1>4 DEF KeysInv

-----------------------------------------------------------------------------
(* The theorems.                                                           *)

LEMMA KeysInitInv == KeyboardInit => KeysInv
<1> SUFFICES ASSUME KeyboardInit
             PROVE  KeysInv
  OBVIOUS
<1> DEFINE d == Driver
           u == Seen(down, caps, wanted)
<1>1. wire = <<>> /\ down = {} /\ u \in State
  BY DEF KeyboardInit, Seen, State, NoChar, Char
<1>2. d = u
  BY DEF KeyboardInit, Driver, Seen
<1> HIDE DEF d, u
<1>3. Leads(<<u>>, u, <<>>, u)
  BY <1>1 DEF Leads
<1> QED
  BY <1>1, <1>2, <1>3 DEF KeysInv, d, u

\* The inductive invariant of the keyboard's driver.
THEOREM KeysSpecInv ==
    ASSUME OneOfAKind
    PROVE  KeyboardSpec => []KeysInv
<1>1. KeysInv /\ [KeyboardNext]_keyboardVars => KeysInv'
  <2> SUFFICES ASSUME KeysInv, [KeyboardNext]_keyboardVars
               PROVE  KeysInv'
    OBVIOUS
  <2>1. CASE UNCHANGED keyboardVars
    BY <2>1 DEF keyboardVars, driver, user, KeysInv, Driver
  <2> QED
    BY <2>1, UserInv, InterruptInv DEF KeyboardNext
<1> QED
  BY <1>1, KeysInitInv, PTL DEF KeyboardSpec

\* Once every byte has been read, the flags of keyboard.c:40-41 say which
\* modifiers are down and the last character typed is the one asked for, however
\* late the interrupts come, for every number of bytes on the way.
THEOREM KeysAgreeHolds ==
    ASSUME OneOfAKind
    PROVE  KeyboardSpec => []KeysAgree
<1>1. ASSUME KeysInv
      PROVE  KeysAgree
  <2> SUFFICES ASSUME wire = <<>>
               PROVE  Driver = Seen(down, caps, wanted)
    BY DEF KeysAgree, Driver, Seen, ShiftDown
  <2>1. PICK st : Leads(st, Driver, wire, Seen(down, caps, wanted))
    BY <1>1 DEF KeysInv
  <2> QED
    BY <2>1 DEF Leads
<1> QED
  BY <1>1, KeysSpecInv, PTL

-----------------------------------------------------------------------------
(* The queue.                                                              *)

LEMMA QueueFacts ==
    /\ Consumers \subseteq Threads \ {Idle}
    /\ Producers \subseteq Threads \ {Idle}
    /\ Consumers \cap Producers = {}
    /\ Ioq \in Locks /\ Ioq \in Sems
    /\ NULL \notin Threads
    /\ BufSize \in Nat /\ BufSize > 1
  BY IoQueueAssumption, SyncAssumption DEF Sems

-----------------------------------------------------------------------------
(* The queue stays within the rules of Sync.                               *)

\* A thread with the lock finds nobody asleep in the queue.
LEMMA OwnerAlone ==
    ASSUME IoqInv, NEW t \in Threads, UnitWith(t, Ioq), ~Asleep(t)
    PROVE  consumer = NULL /\ producer = NULL
<1>1. \A u \in Threads : UnitWith(u, Ioq) => u = t
  BY QueueFacts DEF IoqInv, Inv, UnitsAgree
<1>2. \A u \in Threads : Asleep(u) => UnitWith(u, Ioq)
  BY DEF IoqInv, Asleep, PlaceFits, UnitWith
<1> QED
  BY <1>1, <1>2, QueueFacts DEF IoqInv, SleepersFit, IoqTypeOK

LEMMA WaitIsPark ==
    ASSUME IoqInv, NEW t \in Threads, IoqWait(t)
    PROVE  Park(t) /\ consumer = NULL /\ producer = NULL
<1>1. at[t] = "wait" /\ pc[t] = "body"
  BY DEF IoqWait, Calls
<1>2. UnitWith(t, Ioq) /\ ~Asleep(t)
  BY <1>1 DEF IoqInv, PlaceFits, UnitWith, Asleep
<1>3. consumer = NULL /\ producer = NULL
  BY <1>2, OwnerAlone
<1> QED
  BY <1>3 DEF IoqWait, Park, KAssert

\* wakeup is called with nobody, or with a thread that sleeps in the queue.
LEMMA WakeupIsWake ==
    ASSUME IoqInv, NEW p \in {consumer, producer}, Wakeup(p)
    PROVE  \/ p = NULL /\ UNCHANGED schedVars
           \/ p \in Threads \ {Idle} /\ Wakes(p)
  BY QueueFacts DEF IoqInv, IoqTypeOK, SleepersFit, Asleep, Wakeup, Wakes

LEMMA CallIsLegal ==
    ASSUME IoqInv, NEW t \in Threads, ThreadStep(t)
    PROVE  Client(t) \/ UNCHANGED vars
<1>1. CASE Enter(t) \/ Acquire(t) \/ Release(t) \/ Leave(t)
  BY <1>1, QueueFacts DEF Enter, Acquire, Release, Leave, Client
<1>2. CASE IoqWait(t)
  BY <1>2, WaitIsPark DEF Client
<1>3. ASSUME NEW p \in {consumer, producer}, Wakeup(p), Calls(t), UNCHANGED syncVars,
             t # Idle
      PROVE  Client(t) \/ UNCHANGED vars
  BY <1>3, WakeupIsWake DEF Client, Wake, vars
<1>4. CASE Take(t) \/ Put(t)
  <2>1. t # Idle
    BY <1>4 DEF Take, Put, IoqInv
  <2> QED
    BY <1>3, <1>4, <2>1 DEF Take, Put, Store
<1> QED
  BY <1>1, <1>2, <1>4 DEF ThreadStep

LEMMA KeyIsLegal ==
    ASSUME IoqInv, KeyIrq
    PROVE  Irq
<1>1. Wakeup(consumer) /\ Interrupt /\ UNCHANGED <<value, waiters>>
  BY DEF KeyIrq, Store
<1> QED
  BY <1>1, WakeupIsWake DEF Irq, IrqOther, IrqWake

LEMMA StepIsLegal ==
    ASSUME IoqInv, [IoqNext]_allVars
    PROVE  [Next]_vars
<1>1. CASE \E t \in Threads : ThreadStep(t)
  BY <1>1, CallIsLegal DEF Next
<1>2. CASE \E t \in Threads : Spawn(t)
  BY <1>2, ThreadsAssumption DEF Spawn, Next, Client
<1>3. CASE KeyIrq
  BY <1>3, KeyIsLegal DEF Next
<1>4. CASE SystemStep
  BY <1>4, ThreadsAssumption DEF SystemStep, Next, Client, Irq
<1>5. CASE UNCHANGED allVars
  BY <1>5 DEF allVars
<1> QED
  BY <1>1, <1>2, <1>3, <1>4, <1>5 DEF IoqNext

LEMMA StepKeepsSync ==
    ASSUME IoqInv, [IoqNext]_allVars
    PROVE  Inv'
  BY StepIsLegal, NextInv DEF IoqInv

-----------------------------------------------------------------------------
(* Who sleeps goes on sleeping until wakeup.                               *)

LEMMA ScheduleAsleep ==
    ASSUME Inv, NEW st, NEW list, Schedulable(st, list), Schedule(st, list),
           \A u \in Threads \ {current} : st[u] = status[u]
    PROVE  \A u \in Threads \ {Idle} :
               status[u] = "BLOCKED" => status'[u] = "BLOCKED"
  BY ScheduleLemma, RunningInNoList DEF Inv, TypeOK

LEMMA BlockAsleep ==
    ASSUME Inv, ThreadBlock
    PROVE  \A u \in Threads \ {Idle} :
               status[u] = "BLOCKED" => status'[u] = "BLOCKED"
<1>1. \A u \in Threads \ {current} : [status EXCEPT ![current] = "BLOCKED"][u] = status[u]
  BY DEF Inv, TypeOK, SchedTypeOK
<1> QED
  BY <1>1, BlockSchedulable, ScheduleAsleep DEF ThreadBlock

\* What the other threads do in the thread library and with the lock.
LEMMA StaysAsleep ==
    ASSUME Inv, NEW p \in Threads \ {Idle}, pc[p] = "parked", status[p] = "BLOCKED",
           \/ \E t \in Threads :
                 \/ Library(t) \/ Park(t) \/ Cli(t) \/ Sti(t)
                 \/ \E l \in Locks : LockAcquire(t, l) \/ LockRelease(t, l)
                 \/ \E q \in Threads : Start(t, q)
           \/ Halt \/ Tick
    PROVE  status'[p] = "BLOCKED" /\ pc'[p] = "parked"
<1>1. p # current
  BY RunningInNoList
<1>2. ASSUME NEW t \in Threads,
             \/ Cli(t) \/ Sti(t) \/ Own(t) \/ Resume(t)
             \/ \E l \in Locks : LockAcquire(t, l) \/ LockRelease(t, l)
      PROVE  status'[p] = "BLOCKED" /\ pc'[p] = "parked"
  BY <1>1, <1>2
  DEF Cli, Sti, Own, Resume, LockAcquire, LockRelease, Calls, At, schedVars,
      Inv, TypeOK, SyncTypeOK
<1>3. CASE Halt
  BY <1>3 DEF Halt, schedVars, Inv, TypeOK, SyncTypeOK
<1>4. ASSUME NEW t \in Threads, Park(t)
      PROVE  status'[p] = "BLOCKED" /\ pc'[p] = "parked"
  BY <1>1, <1>4, BlockAsleep DEF Park, Calls, Inv, TypeOK, SyncTypeOK
<1>5. ASSUME NEW t \in Threads, SemaDown(t)
      PROVE  status'[p] = "BLOCKED" /\ pc'[p] = "parked"
  <2>1. pc'[p] = "parked"
    BY <1>1, <1>5 DEF SemaDown, At, Wait, TakeUnit, Inv, TypeOK, SyncTypeOK
  <2>2. status'[p] = "BLOCKED"
    BY <1>5, BlockAsleep DEF SemaDown, Wait, TakeUnit
  <2> QED
    BY <2>1, <2>2
<1>6. ASSUME NEW t \in Threads, Up(t)
      PROVE  status'[p] = "BLOCKED" /\ pc'[p] = "parked"
  <2> DEFINE s == target[t]
  <2>1. s \in Sems /\ SemaUp(s)
    BY <1>6 DEF Up, At, Inv, PlacesAgree, Sems
  <2>2. pc'[p] = "parked"
    BY <1>1, <1>6 DEF Up, At, Inv, TypeOK, SyncTypeOK
  <2>3. CASE waiters[s] # <<>>
    <3>1. Head(waiters[s]) \in Threads /\ InList(waiters[s], Head(waiters[s]))
      BY <2>1, <2>3, PopList DEF Inv, TypeOK, SyncTypeOK
    <3>2. Head(waiters[s]) # p
      BY <2>1, <3>1 DEF Inv, ListsAgree, WaitersAgree
    <3> QED
      BY <2>1, <2>2, <2>3, <3>1, <3>2
      DEF SemaUp, ThreadUnblock, Inv, TypeOK, SchedTypeOK
  <2>4. CASE waiters[s] = <<>>
    BY <2>1, <2>2, <2>4 DEF SemaUp
  <2> QED
    BY <2>3, <2>4
<1>7. ASSUME NEW t \in Threads, NEW q \in Threads, Start(t, q)
      PROVE  status'[p] = "BLOCKED" /\ pc'[p] = "parked"
  BY <1>7 DEF Start, ThreadStart, Inv, TypeOK, SchedTypeOK, SyncTypeOK
<1>8. CASE Tick
  <2>1. pc'[p] = "parked"
    BY <1>8, InterruptPlaces DEF Tick
  <2>2. CASE ticks[current] = 0
    BY <1>8, <2>1, <2>2, TickSchedulable, ScheduleAsleep DEF Tick, TimerHandler
  <2>3. CASE ticks[current] # 0
    BY <1>8, <2>1, <2>3 DEF Tick, TimerHandler
  <2> QED
    BY <2>2, <2>3
<1> QED
  BY <1>2, <1>3, <1>4, <1>5, <1>6, <1>7, <1>8 DEF Library

\* The steps of StaysAsleep leave the recorded threads asleep.
LEMMA SleepersStay ==
    ASSUME IoqInv, UNCHANGED <<consumer, producer>>,
           \A u \in Threads : at[u] = "woken" /\ pc[u] = "parked" => at'[u] = at[u],
           \/ \E t \in Threads :
                 \/ Library(t) \/ Park(t) \/ Cli(t) \/ Sti(t)
                 \/ \E l \in Locks : LockAcquire(t, l) \/ LockRelease(t, l)
                 \/ \E q \in Threads : Start(t, q)
           \/ Halt \/ Tick
    PROVE  SleepersFit'
<1>1. ASSUME NEW p \in Threads \ {Idle}, Asleep(p)
      PROVE  Asleep(p)'
  BY <1>1, StaysAsleep DEF IoqInv, Asleep
<1> QED
  BY <1>1, QueueFacts DEF IoqInv, IoqTypeOK, SleepersFit

-----------------------------------------------------------------------------
(* Every step keeps the invariant.                                         *)

\* A step in which only t moves.
LEMMA StepOfOne ==
    ASSUME IoqInv, Inv', IoqTypeOK', SleepersFit', NEW t \in Threads,
           \A u \in Threads \ {t} :
               UNCHANGED <<at[u], pc[u], target[u], depth[u]>>,
           PlaceFits(t)', t = Idle => at'[t] = "idle"
    PROVE  IoqInv'
<1>1. ASSUME NEW u \in Threads \ {t}
      PROVE  PlaceFits(u)'
  BY DEF IoqInv, PlaceFits
<1> QED
  BY <1>1, ThreadsAssumption DEF IoqInv

LEMMA GoFacts ==
    ASSUME IoqInv, NEW t \in Threads, NEW p, Go(t, p)
    PROVE  /\ at'[t] = p
           /\ \A u \in Threads \ {t} : at'[u] = at[u]
           /\ p \in {"idle", "get", "put", "wait", "woken", "leave"} =>
                 at' \in [Threads -> {"idle", "get", "put", "wait", "woken", "leave"}]
  BY DEF IoqInv, IoqTypeOK, Go

LEMMA EnterLeaveOK ==
    ASSUME IoqInv, NEW t \in Threads, Enter(t) \/ Leave(t)
    PROVE  IoqInv'
<1>1. Inv'
  BY StepKeepsSync DEF IoqNext, ThreadStep
<1>2. /\ UNCHANGED <<pc, target, depth, status, buf, head, tail, consumer, producer, byte>>
      /\ pc[t] = "body" /\ t # Idle /\ at[t] \in {"idle", "leave"}
  BY DEF Enter, Leave, Cli, Sti, Calls, schedVars, IoqInv
<1>3. PICK p \in {"idle", "get", "put"} :
          /\ Go(t, p)
          /\ p = "get" => t \in Consumers
          /\ p = "put" => t \in Producers
  BY DEF Enter, Leave
<1>4. IoqTypeOK'
  BY <1>2, <1>3, GoFacts DEF IoqInv, IoqTypeOK
<1>5. SleepersFit'
  BY <1>2, <1>3, GoFacts, SleepersStay DEF Enter, Leave
<1>6. PlaceFits(t)'
  BY <1>2, <1>3, GoFacts DEF IoqInv, PlaceFits
<1> QED
  BY <1>1, <1>2, <1>3, <1>4, <1>5, <1>6, GoFacts, StepOfOne

LEMMA AcquireOK ==
    ASSUME IoqInv, NEW t \in Threads, Acquire(t)
    PROVE  IoqInv'
<1>1. Inv'
  BY StepKeepsSync DEF IoqNext, ThreadStep
<1>2. /\ UNCHANGED <<buf, head, tail, consumer, producer, byte>>
      /\ Go(t, "wait") /\ at[t] \in {"get", "put"} /\ t # Idle
  BY DEF Acquire, LockAcquire
<1>3. depth[t][Ioq] = 0 /\ holder[Ioq] # t
  BY <1>2, QueueFacts DEF IoqInv, PlaceFits, Inv, HolderAgrees
<1>4. /\ pc' = [pc EXCEPT ![t] = "down"]
      /\ target' = [target EXCEPT ![t] = Ioq]
      /\ UNCHANGED depth
  BY <1>3 DEF Acquire, LockAcquire
<1>5. /\ pc'[t] = "down" /\ target'[t] = Ioq
      /\ \A u \in Threads \ {t} : pc'[u] = pc[u] /\ target'[u] = target[u]
  BY <1>4 DEF IoqInv, Inv, TypeOK, SyncTypeOK
<1>6. IoqTypeOK'
  BY <1>2, GoFacts DEF IoqInv, IoqTypeOK
<1>7. SleepersFit'
  BY <1>2, GoFacts, SleepersStay, QueueFacts DEF Acquire
<1>8. PlaceFits(t)'
  BY <1>2, <1>5, GoFacts DEF IoqInv, PlaceFits
<1> QED
  BY <1>1, <1>2, <1>4, <1>5, <1>6, <1>7, <1>8, GoFacts, StepOfOne

LEMMA IoqWaitOK ==
    ASSUME IoqInv, NEW t \in Threads, IoqWait(t)
    PROVE  IoqInv'
<1>1. Inv' /\ Park(t) /\ consumer = NULL /\ producer = NULL
  BY StepKeepsSync, WaitIsPark DEF IoqNext, ThreadStep
<1>2. /\ at[t] = "wait" /\ pc[t] = "body" /\ t = current
      /\ pc' = [pc EXCEPT ![t] = "parked"]
      /\ Go(t, "woken")
      /\ UNCHANGED <<target, depth, buf, head, tail, byte>>
  BY DEF IoqWait, Calls
<1>3. /\ t \in Consumers \cup Producers /\ t # Idle /\ depth[t][Ioq] = 1
  BY <1>2, QueueFacts DEF IoqInv, PlaceFits
<1>4. /\ t \in Consumers => consumer' = t /\ producer' = NULL
      /\ t \notin Consumers => consumer' = NULL /\ producer' = t
  BY <1>1 DEF IoqWait
<1>5. /\ pc'[t] = "parked"
      /\ \A u \in Threads \ {t} : pc'[u] = pc[u]
  BY <1>2 DEF IoqInv, Inv, TypeOK, SyncTypeOK
<1>6. IoqTypeOK'
  BY <1>2, <1>3, <1>4, GoFacts, QueueFacts DEF IoqInv, IoqTypeOK
<1>7. status'[t] = "BLOCKED"
  <2> DEFINE st == [status EXCEPT ![current] = "BLOCKED"]
  <2>1. Schedulable(st, ready) /\ Schedule(st, ready) /\ SchedTypeOK
    BY BlockSchedulable DEF IoqWait, ThreadBlock, IoqInv, Inv, TypeOK
  <2>2. st[t] = "BLOCKED"
    BY <1>2, <2>1 DEF SchedTypeOK
  <2> HIDE DEF st
  <2> QED
    BY <1>3, <2>1, <2>2, ScheduleLemma
<1>8. SleepersFit' /\ PlaceFits(t)'
  BY <1>2, <1>3, <1>4, <1>5, <1>7, GoFacts DEF SleepersFit, Asleep, PlaceFits
<1> QED
  BY <1>1, <1>2, <1>3, <1>5, <1>6, <1>8, GoFacts, StepOfOne

LEMMA ReleaseOK ==
    ASSUME IoqInv, NEW t \in Threads, Release(t)
    PROVE  IoqInv'
<1>1. Inv'
  BY StepKeepsSync DEF IoqNext, ThreadStep
<1>2. /\ UNCHANGED <<buf, head, tail, consumer, producer, byte>>
      /\ at[t] = "woken" /\ pc[t] = "body" /\ t # Idle
      /\ depth[t][Ioq] = 1 /\ t \in Consumers \cup Producers
  BY DEF Release, LockRelease, Calls, IoqInv, PlaceFits
<1>3. PICK p \in {"get", "put"} :
          /\ Go(t, p)
          /\ p = "get" => t \in Consumers
          /\ p = "put" => t \in Producers
  BY <1>2 DEF Release
<1>4. repeat[Ioq] = 1
  BY <1>2, QueueFacts DEF IoqInv, Inv, HolderAgrees
<1>5. /\ pc' = [pc EXCEPT ![t] = "up"]
      /\ target' = [target EXCEPT ![t] = Ioq]
      /\ depth' = [depth EXCEPT ![t][Ioq] = @ - 1]
  BY <1>4 DEF Release, LockRelease
<1>6. /\ pc'[t] = "up" /\ depth'[t][Ioq] = 0
      /\ \A u \in Threads \ {t} : UNCHANGED <<pc[u], target[u], depth[u]>>
  BY <1>2, <1>5, QueueFacts DEF IoqInv, Inv, TypeOK, SyncTypeOK
<1>7. IoqTypeOK'
  BY <1>2, <1>3, GoFacts DEF IoqInv, IoqTypeOK
<1>8. SleepersFit'
  BY <1>2, <1>3, GoFacts, SleepersStay, QueueFacts DEF Release
<1>9. PlaceFits(t)'
  BY <1>3, <1>6, GoFacts DEF PlaceFits
<1> QED
  BY <1>1, <1>2, <1>3, <1>6, <1>7, <1>8, <1>9, GoFacts, StepOfOne

\* Positions in the ring.
LEMMA ModLemma ==
    ASSUME NEW n \in Nat, n < 2 * BufSize
    PROVE  n % BufSize = IF n < BufSize THEN n ELSE n - BufSize
<1>1. BufSize \in Nat /\ BufSize > 1
  BY QueueFacts
<1>2. CASE n < BufSize
  BY <1>1, <1>2
<1>3. CASE n >= BufSize
  BY <1>1, <1>3
<1> QED
  BY <1>1, <1>2, <1>3

LEMMA NextPosLemma ==
    ASSUME NEW pos \in Positions
    PROVE  /\ NextPos(pos) = IF pos = BufSize - 1 THEN 0 ELSE pos + 1
           /\ NextPos(pos) \in Positions
  BY ModLemma, QueueFacts DEF NextPos, Positions

\* wakeup leaves the other sleeper asleep.
LEMMA WakeupOne ==
    ASSUME IoqInv, NEW p \in {consumer, producer}, Wakeup(p),
           NEW q \in {consumer, producer}, q # p, q # NULL
    PROVE  status'[q] = "BLOCKED" /\ q \in Threads \ {Idle} /\ Asleep(q)
<1>1. Asleep(q) /\ q \in Threads \ {Idle}
  BY QueueFacts DEF IoqInv, SleepersFit, IoqTypeOK
<1>2. CASE p = NULL
  BY <1>1, <1>2 DEF Wakeup, schedVars, Asleep
<1>3. CASE p # NULL
  BY <1>1, <1>3 DEF Wakeup, ThreadUnblock, Asleep, IoqInv, Inv, TypeOK, SchedTypeOK
<1> QED
  BY <1>1, <1>2, <1>3

\* The two sleepers are two threads.
LEMMA SleepersDiffer ==
    ASSUME IoqInv
    PROVE  consumer # NULL => consumer # producer
  BY QueueFacts DEF IoqInv, IoqTypeOK

LEMMA TakeOK ==
    ASSUME IoqInv, NEW t \in Threads, Take(t)
    PROVE  IoqInv'
<1>1. Inv'
  BY StepKeepsSync DEF IoqNext, ThreadStep
<1>2. /\ at[t] = "get" /\ pc[t] = "body" /\ t # Idle /\ t \in Consumers
      /\ byte' = [byte EXCEPT ![t] = buf[tail]]
      /\ tail' = NextPos(tail)
      /\ Wakeup(producer) /\ producer' = NULL
      /\ Go(t, "leave")
      /\ UNCHANGED <<buf, head, consumer, pc, target, depth>>
  BY DEF Take, Calls, syncVars, IoqInv, PlaceFits
<1>3. IoqTypeOK'
  <2>1. tail' \in Positions /\ buf[tail] \in Chars
    BY <1>2, NextPosLemma DEF IoqInv, IoqTypeOK
  <2> QED
    BY <1>2, <2>1, GoFacts DEF IoqInv, IoqTypeOK
<1>4. SleepersFit'
  <2>1. consumer # NULL => Asleep(consumer) /\ status'[consumer] = "BLOCKED"
                           /\ consumer \in Threads
    BY <1>2, WakeupOne, SleepersDiffer
  <2> QED
    BY <1>2, <2>1, GoFacts DEF SleepersFit, Asleep
<1>5. PlaceFits(t)'
  BY <1>2, GoFacts DEF IoqInv, PlaceFits
<1> QED
  BY <1>1, <1>2, <1>3, <1>4, <1>5, GoFacts, StepOfOne

\* ioq_putchar after the loop, by a thread or by the interrupt.
LEMMA StoreFacts ==
    ASSUME IoqInv, NEW c \in Chars, Store(c)
    PROVE  /\ buf' \in [Positions -> Chars] /\ head' \in Positions
           /\ consumer' = NULL
           /\ producer # NULL => /\ Asleep(producer) /\ producer \in Threads \ {Idle}
                                 /\ status'[producer] = "BLOCKED"
           /\ UNCHANGED <<tail, producer, byte>>
<1>1. /\ buf' = [buf EXCEPT ![head] = c]
      /\ head' = NextPos(head)
      /\ Wakeup(consumer)
      /\ consumer' = NULL
      /\ UNCHANGED <<tail, producer, byte>>
  BY DEF Store
<1>2. head' \in Positions /\ buf' \in [Positions -> Chars]
  BY <1>1, NextPosLemma DEF IoqInv, IoqTypeOK
<1>3. producer # NULL => producer # consumer
  BY SleepersDiffer
<1> QED
  BY <1>1, <1>2, <1>3, WakeupOne

LEMMA PutOK ==
    ASSUME IoqInv, NEW t \in Threads, Put(t)
    PROVE  IoqInv'
<1>1. Inv'
  BY StepKeepsSync DEF IoqNext, ThreadStep
<1>2. /\ at[t] = "put" /\ pc[t] = "body" /\ t # Idle
      /\ Go(t, "leave")
      /\ UNCHANGED <<pc, target, depth>>
  BY DEF Put, Calls, syncVars, IoqInv
<1>3. PICK c \in Chars : Store(c)
  BY DEF Put
<1>4. IoqTypeOK'
  BY <1>2, <1>3, GoFacts, StoreFacts DEF IoqInv, IoqTypeOK
<1>5. SleepersFit'
  BY <1>2, <1>3, GoFacts, StoreFacts DEF SleepersFit, Asleep
<1>6. PlaceFits(t)'
  BY <1>2, GoFacts DEF IoqInv, PlaceFits
<1> QED
  BY <1>1, <1>2, <1>4, <1>5, <1>6, GoFacts, StepOfOne

LEMMA KeyIrqOK ==
    ASSUME IoqInv, KeyIrq
    PROVE  IoqInv'
<1>1. Inv' /\ Interrupt
  BY StepKeepsSync DEF IoqNext, KeyIrq
<1>2. /\ UNCHANGED <<target, depth, at>>
      /\ \A u \in Threads \ {Idle} : pc'[u] = pc[u]
  BY <1>1, InterruptPlaces DEF KeyIrq, Interrupt, IoqInv
<1>3. PICK c \in Chars : Store(c)
  BY DEF KeyIrq
<1>4. IoqTypeOK' /\ SleepersFit'
  BY <1>2, <1>3, StoreFacts DEF IoqInv, IoqTypeOK, SleepersFit, Asleep
<1>5. ASSUME NEW u \in Threads
      PROVE  PlaceFits(u)'
  BY <1>2 DEF IoqInv, PlaceFits
<1> QED
  BY <1>1, <1>2, <1>4, <1>5 DEF IoqInv

LEMMA SpawnOK ==
    ASSUME IoqInv, NEW p \in Threads, Spawn(p)
    PROVE  IoqInv'
<1>1. Inv' /\ UNCHANGED ioqVars /\ Start(Main, p)
  BY StepKeepsSync DEF IoqNext, Spawn
<1>2. /\ pc[p] = "new" /\ pc' = [pc EXCEPT ![p] = "body"]
      /\ UNCHANGED <<target, depth>>
  BY <1>1 DEF Start
<1>3. /\ pc'[p] = "body"
      /\ \A u \in Threads \ {p} : pc'[u] = pc[u]
  BY <1>2 DEF IoqInv, Inv, TypeOK, SyncTypeOK
<1>4. IoqTypeOK' /\ UNCHANGED <<at, consumer, producer>>
  BY <1>1 DEF IoqInv, IoqTypeOK, ioqVars
<1>5. SleepersFit'
  BY <1>1, <1>4, SleepersStay, ThreadsAssumption
<1>6. PlaceFits(p)' /\ (p = Idle => at'[p] = "idle")
  BY <1>2, <1>3, <1>4 DEF IoqInv, PlaceFits
<1> QED
  BY <1>1, <1>2, <1>3, <1>4, <1>5, <1>6, StepOfOne

\* A step of the library in which only t moves, to place p.
LEMMA LibraryPlaces ==
    ASSUME IoqInv, NEW t \in Threads, NEW p, pc' = [pc EXCEPT ![t] = p]
    PROVE  /\ pc'[t] = p
           /\ \A u \in Threads \ {t} : pc'[u] = pc[u]
  BY DEF IoqInv, Inv, TypeOK, SyncTypeOK

LEMMA LibraryFits ==
    ASSUME IoqInv, NEW t \in Threads, Library(t) \/ (t = Idle /\ (Park(t) \/ Halt)),
           UNCHANGED ioqVars
    PROVE  /\ PlaceFits(t)'
           /\ \A u \in Threads \ {t} : UNCHANGED <<pc[u], target[u], depth[u]>>
<1>1. UNCHANGED <<at, target>>
  BY DEF Library, SemaDown, Wait, TakeUnit, Own, Up, Resume, Park, Halt, ioqVars
<1>2. CASE t # Idle /\ SemaDown(t)
  <2>1. /\ pc[t] \in {"down", "wait"} /\ UNCHANGED depth
        /\ \E p \in {"wait", "own", "body"} :
              /\ pc' = [pc EXCEPT ![t] = p]
              /\ target[t] \in Locks => p # "body"
    BY <1>2 DEF SemaDown, At, Wait, TakeUnit
  <2>2. at[t] = "wait" /\ target[t] = Ioq
    BY <1>2, <2>1 DEF IoqInv, PlaceFits, IoqTypeOK
  <2>3. pc'[t] \in {"wait", "own"}
    BY <2>1, <2>2, LibraryPlaces, QueueFacts
  <2> QED
    BY <1>1, <2>1, <2>2, <2>3, LibraryPlaces DEF IoqInv, PlaceFits
<1>3. CASE t # Idle /\ Own(t)
  <2>1. /\ pc[t] = "own" /\ pc' = [pc EXCEPT ![t] = "body"]
        /\ depth' = [depth EXCEPT ![t][target[t]] = 1]
    BY <1>3 DEF Own, At
  <2>2. at[t] = "wait" /\ target[t] = Ioq
    BY <1>3, <2>1 DEF IoqInv, PlaceFits, IoqTypeOK
  <2>3. /\ depth'[t][Ioq] = 1
        /\ \A u \in Threads \ {t} : depth'[u] = depth[u]
    BY <2>1, <2>2, QueueFacts DEF IoqInv, Inv, TypeOK, SyncTypeOK
  <2> QED
    BY <1>1, <2>1, <2>2, <2>3, LibraryPlaces DEF IoqInv, PlaceFits
<1>4. CASE t # Idle /\ (Up(t) \/ Resume(t))
  <2>1. /\ pc[t] \in {"up", "parked"} /\ UNCHANGED depth
        /\ pc' = [pc EXCEPT ![t] = "body"]
    BY <1>4 DEF Up, Resume, At
  <2> QED
    BY <1>1, <1>4, <2>1, LibraryPlaces DEF IoqInv, PlaceFits
<1>5. CASE t = Idle
  <2>1. pc[t] \in {"body", "parked", "sti", "halt"}
    BY <1>5 DEF IoqInv, Inv, PlacesAgree
  <2>2. at[t] = "idle"
    BY <1>5 DEF IoqInv
  <2>3. CASE Resume(t) \/ Park(t) \/ Halt
    <3>1. /\ UNCHANGED depth
          /\ \E p \in {"parked", "sti", "halt"} : pc' = [pc EXCEPT ![t] = p]
      BY <1>5, <2>3 DEF Resume, Park, Halt
    <3> QED
      BY <1>1, <1>5, <2>2, <3>1, LibraryPlaces DEF IoqInv, PlaceFits
  <2>4. ~SemaDown(t) /\ ~Own(t) /\ ~Up(t)
    BY <2>1 DEF SemaDown, Own, Up, At
  <2> QED
    BY <2>3, <2>4 DEF Library
<1> QED
  BY <1>2, <1>3, <1>4, <1>5 DEF Library

LEMMA SystemStepOK ==
    ASSUME IoqInv, SystemStep
    PROVE  IoqInv'
<1>1. Inv' /\ UNCHANGED ioqVars
  BY StepKeepsSync DEF IoqNext, SystemStep
<1>2. IoqTypeOK' /\ UNCHANGED <<at, consumer, producer>>
  BY <1>1 DEF IoqInv, IoqTypeOK, ioqVars
<1>3. SleepersFit'
  BY <1>2, SleepersStay, ThreadsAssumption DEF SystemStep
<1>4. ASSUME NEW t \in Threads, Library(t) \/ (t = Idle /\ (Park(t) \/ Halt))
      PROVE  IoqInv'
  BY <1>1, <1>2, <1>3, <1>4, LibraryFits, StepOfOne DEF IoqInv
<1>5. CASE Tick
  <2>1. /\ UNCHANGED <<target, depth>>
        /\ \A u \in Threads \ {Idle} : pc'[u] = pc[u]
    BY <1>5, InterruptPlaces DEF Tick, Interrupt, IoqInv
  <2>2. ASSUME NEW u \in Threads
        PROVE  PlaceFits(u)'
    BY <1>2, <2>1 DEF IoqInv, PlaceFits
  <2> QED
    BY <1>1, <1>2, <1>3, <2>2 DEF IoqInv
<1> QED
  BY <1>4, <1>5, ThreadsAssumption DEF SystemStep

LEMMA IoqInitInv == IoqInit => IoqInv
<1> SUFFICES ASSUME IoqInit
             PROVE  IoqInv
  OBVIOUS
<1>1. Inv
  BY InitInv DEF IoqInit
<1>2. IoqTypeOK
  BY IoQueueAssumption, QueueFacts DEF IoqInit, IoqTypeOK, Positions
<1>3. \A t \in Threads : PlaceFits(t)
  BY ThreadsAssumption, QueueFacts DEF IoqInit, Init, SyncInit, PlaceFits
<1> QED
  BY <1>1, <1>2, <1>3, ThreadsAssumption DEF IoqInv, IoqInit, SleepersFit

LEMMA IoqNextInv == IoqInv /\ [IoqNext]_allVars => IoqInv'
<1> SUFFICES ASSUME IoqInv, [IoqNext]_allVars
             PROVE  IoqInv'
  OBVIOUS
<1>1. ASSUME NEW t \in Threads, ThreadStep(t) \/ Spawn(t)
      PROVE  IoqInv'
  BY <1>1, EnterLeaveOK, AcquireOK, IoqWaitOK, ReleaseOK, TakeOK, PutOK, SpawnOK
  DEF ThreadStep
<1>2. CASE UNCHANGED allVars
  <2>1. Inv'
    BY StepKeepsSync
  <2> QED
    BY <1>2, <2>1
    DEF allVars, vars, schedVars, syncVars, ioqVars, IoqInv, IoqTypeOK, PlaceFits,
        SleepersFit, Asleep
<1> QED
  BY <1>1, <1>2, KeyIrqOK, SystemStepOK DEF IoqNext

\* The inductive invariant of the queue holds in every state.
THEOREM IoqSpecInv == IoqSpec => []IoqInv
<1>1. IoqInit => IoqInv
  BY IoqInitInv
<1>2. IoqInv /\ [IoqNext]_allVars => IoqInv'
  BY IoqNextInv
<1> QED
  BY <1>1, <1>2, PTL DEF IoqSpec

\* ioq_getchar, ioq_putchar and the keyboard's interrupt keep to the rules of
\* the thread library: above all, wakeup unblocks only a thread that is
\* blocked in ioq_wait, and only once.
THEOREM IoqImplementsSync == IoqSpec => ImplementsSync
<1>1. IoqInit => Init
  BY DEF IoqInit
<1>2. IoqInv /\ [IoqNext]_allVars => [Next]_vars
  BY StepIsLegal
<1> QED
  BY <1>1, <1>2, IoqSpecInv, PTL DEF IoqSpec, ImplementsSync, Spec

-----------------------------------------------------------------------------
(* The queue implements BoundedFifo.                                       *)

\* The number of characters in the ring, and where the i-th of them is.
Count == (head + BufSize - tail) % BufSize
Place(i) == (tail + i - 1) % BufSize

LEMMA CountMod ==
    ASSUME NEW h \in Positions, NEW t \in Positions
    PROVE  /\ (h + BufSize - t) % BufSize =
                  IF h >= t THEN h - t ELSE h + BufSize - t
           /\ (h + BufSize - t) % BufSize \in 0..BufSize - 1
<1> DEFINE n == h + BufSize - t
<1>1. h \in 0..BufSize - 1 /\ t \in 0..BufSize - 1 /\ BufSize \in Nat
  BY QueueFacts DEF Positions
<1>2. n \in Nat /\ n < 2 * BufSize
  BY <1>1
<1>3. n % BufSize = IF n < BufSize THEN n ELSE n - BufSize
  <2> HIDE DEF n
  <2> QED
    BY <1>2, ModLemma
<1> QED
  BY <1>1, <1>3

LEMMA PlaceMod ==
    ASSUME NEW t \in Positions, NEW i \in 1..BufSize
    PROVE  /\ (t + i - 1) % BufSize =
                  IF t + i - 1 < BufSize THEN t + i - 1 ELSE t + i - 1 - BufSize
           /\ (t + i - 1) % BufSize \in Positions
<1> DEFINE n == t + i - 1
<1>1. t \in 0..BufSize - 1 /\ BufSize \in Nat
  BY QueueFacts DEF Positions
<1>2. n \in Nat /\ n < 2 * BufSize
  BY <1>1
<1>3. n % BufSize = IF n < BufSize THEN n ELSE n - BufSize
  <2> HIDE DEF n
  <2> QED
    BY <1>2, ModLemma
<1> QED
  BY <1>1, <1>2, <1>3 DEF Positions

LEMMA CountLemma ==
    ASSUME IoqTypeOK
    PROVE  /\ Count = IF head >= tail THEN head - tail ELSE head + BufSize - tail
           /\ Count \in 0..BufSize - 1
  BY CountMod DEF IoqTypeOK, Count

LEMMA PlaceLemma ==
    ASSUME IoqTypeOK, NEW i \in 1..BufSize
    PROVE  /\ Place(i) = IF tail + i - 1 < BufSize THEN tail + i - 1
                         ELSE tail + i - 1 - BufSize
           /\ Place(i) \in Positions
  BY PlaceMod DEF IoqTypeOK, Place

LEMMA QueueLemma ==
    ASSUME IoqTypeOK
    PROVE  /\ Queue \in Seq(Chars)
           /\ Len(Queue) = Count
           /\ \A i \in 1..Count : Queue[i] = buf[Place(i)]
<1>1. Queue = [i \in 1..Count |-> buf[Place(i)]]
  BY DEF Queue, Count, Place
<1>2. Count \in Nat /\ \A i \in 1..Count : buf[Place(i)] \in Chars
  BY CountLemma, PlaceLemma, QueueFacts DEF IoqTypeOK
<1> HIDE DEF Count, Place
<1>3. Queue \in [1..Count -> Chars]
  BY <1>1, <1>2
<1> QED
  BY <1>1, <1>2, <1>3

\* A character that is put becomes the last one of the queue.
LEMMA StoreAppends ==
    ASSUME IoqTypeOK, IoqTypeOK', NEW c \in Chars, Store(c)
    PROVE  Queue' = Append(Queue, c) /\ Len(Queue) < BufSize - 1
<1>1. /\ NextPos(head) # tail
      /\ buf' = [buf EXCEPT ![head] = c]
      /\ head' = NextPos(head)
      /\ tail' = tail
  BY DEF Store, Full
<1>2. head \in Positions /\ tail \in Positions /\ BufSize \in Nat /\ BufSize > 1
  BY QueueFacts DEF IoqTypeOK
<1>3. Count' = Count + 1 /\ Count < BufSize - 1 /\ Count \in Nat
  <2>1. Count' = IF head' >= tail' THEN head' - tail' ELSE head' + BufSize - tail'
    BY CountMod DEF IoqTypeOK, Count
  <2> QED
    BY <1>1, <1>2, <2>1, CountLemma, NextPosLemma DEF Positions
<1>4. Place(Count + 1) = head
  BY <1>2, <1>3, CountLemma, PlaceLemma DEF Positions
<1>5. \A i \in 1..Count : Place(i) # head
  <2> SUFFICES ASSUME NEW i \in 1..Count
               PROVE  Place(i) # head
    OBVIOUS
  <2>1. i \in 1..BufSize
    BY <1>2, <1>3
  <2> QED
    BY <1>2, <1>3, <2>1, CountLemma, PlaceLemma DEF Positions
<1>6. \A i : Place(i)' = Place(i)
  BY <1>1 DEF Place
<1>7. /\ Queue \in Seq(Chars) /\ Len(Queue) = Count
      /\ \A i \in 1..Count : Queue[i] = buf[Place(i)]
      /\ Queue' \in Seq(Chars) /\ Len(Queue') = Count + 1
      /\ \A i \in 1..Count + 1 : Queue'[i] = buf'[Place(i)]
  <2>1. /\ Queue' \in Seq(Chars)
        /\ Len(Queue') = Count'
        /\ \A i \in 1..Count' : Queue'[i] = buf'[Place(i)']
    <3>1. Queue' = [i \in 1..Count' |-> buf'[Place(i)']]
      BY DEF Queue, Count, Place
    <3>2. Count' \in 1..BufSize
      BY <1>2, <1>3
    <3>3. \A i \in 1..Count' : buf'[Place(i)'] \in Chars
      <4> SUFFICES ASSUME NEW i \in 1..Count'
                   PROVE  buf'[Place(i)'] \in Chars
        OBVIOUS
      <4>1. i \in 1..BufSize
        BY <1>2, <3>2
      <4> QED
        BY <1>6, <4>1, PlaceLemma DEF IoqTypeOK
    <3> HIDE DEF Count, Place
    <3>4. Queue' \in [1..Count' -> Chars]
      BY <3>1, <3>3
    <3> QED
      BY <3>1, <3>2, <3>4
  <2> HIDE DEF Count, Place
  <2> QED
    BY <1>3, <1>6, <2>1, QueueLemma
<1>8. \A i \in 1..Count : Place(i) \in Positions
  BY <1>2, <1>3, PlaceLemma
<1>9. \A i \in 1..Count + 1 : Queue'[i] = Append(Queue, c)[i]
  <2> HIDE DEF Count, Place
  <2> SUFFICES ASSUME NEW i \in 1..Count + 1
               PROVE  Queue'[i] = Append(Queue, c)[i]
    OBVIOUS
  <2>1. CASE i = Count + 1
    BY <1>1, <1>2, <1>3, <1>4, <1>7, <2>1 DEF IoqTypeOK
  <2>2. CASE i # Count + 1
    <3>1. i \in 1..Count
      BY <1>3, <2>2
    <3> QED
      BY <1>1, <1>2, <1>5, <1>7, <1>8, <3>1 DEF IoqTypeOK
  <2> QED
    BY <2>1, <2>2
<1> HIDE DEF Count, Place
<1>10. Append(Queue, c) \in Seq(Chars) /\ Len(Append(Queue, c)) = Count + 1
  BY <1>7
<1> QED
  BY <1>3, <1>7, <1>9, <1>10

\* The character that is taken is the first one of the queue.
LEMMA TakePops ==
    ASSUME IoqTypeOK, IoqTypeOK', NEW t \in Consumers, Take(t)
    PROVE  /\ Queue # <<>>
           /\ byte' = [byte EXCEPT ![t] = Head(Queue)]
           /\ Queue' = Tail(Queue)
<1>1. /\ head # tail
      /\ byte' = [byte EXCEPT ![t] = buf[tail]]
      /\ tail' = NextPos(tail)
      /\ head' = head /\ buf' = buf
  BY DEF Take, Empty
<1>2. head \in Positions /\ tail \in Positions /\ BufSize \in Nat /\ BufSize > 1
  BY QueueFacts DEF IoqTypeOK
<1>3. Count > 0 /\ Count < BufSize /\ Count \in Nat
  BY <1>1, <1>2, CountLemma DEF Positions
<1>4. Count' = Count - 1
  <2>1. Count' = IF head' >= tail' THEN head' - tail' ELSE head' + BufSize - tail'
    BY CountMod DEF IoqTypeOK, Count
  <2>2. tail' = IF tail = BufSize - 1 THEN 0 ELSE tail + 1
    BY <1>1, <1>2, NextPosLemma
  <2>3. head \in 0..BufSize - 1 /\ tail \in 0..BufSize - 1
    BY <1>2 DEF Positions
  <2> QED
    BY <1>1, <1>2, <2>1, <2>2, <2>3, CountLemma
<1>5. Place(1) = tail
  BY <1>2, PlaceLemma DEF Positions
<1>6. ASSUME NEW i \in 1..Count - 1
      PROVE  Place(i)' = Place(i + 1)
  <2>1. i \in 1..BufSize /\ i + 1 \in 1..BufSize /\ i \in Nat
    BY <1>2, <1>3
  <2>2. tail' = IF tail = BufSize - 1 THEN 0 ELSE tail + 1
    BY <1>1, <1>2, NextPosLemma
  <2>4. Place(i)' = IF tail' + i - 1 < BufSize THEN tail' + i - 1
                    ELSE tail' + i - 1 - BufSize
    BY <2>1, PlaceMod DEF IoqTypeOK, Place
  <2>5. Place(i + 1) = IF tail + i < BufSize THEN tail + i ELSE tail + i - BufSize
    BY <1>2, <2>1, PlaceLemma DEF Positions
  <2>6. tail \in 0..BufSize - 1
    BY <1>2 DEF Positions
  <2> HIDE DEF Place
  <2> QED
    BY <1>2, <2>1, <2>2, <2>4, <2>5, <2>6
<1>7. /\ Queue \in Seq(Chars) /\ Len(Queue) = Count
      /\ \A i \in 1..Count : Queue[i] = buf[Place(i)]
  BY QueueLemma
<1>8. \A i \in 1..Count : Place(i) \in Positions
  BY <1>2, <1>3, PlaceLemma
<1>9. Queue' = [i \in 1..Count - 1 |-> buf[Place(i + 1)]]
  <2>1. Queue' = [i \in 1..Count' |-> buf'[Place(i)']]
    BY DEF Queue, Count, Place
  <2> HIDE DEF Count, Place
  <2> QED
    BY <1>1, <1>4, <1>6, <2>1
<1> HIDE DEF Count, Place
<1>10. Queue # <<>> /\ Head(Queue) = buf[tail]
  BY <1>3, <1>5, <1>7
<1>11. Tail(Queue) \in Seq(Chars) /\ Len(Tail(Queue)) = Count - 1
  BY <1>7, <1>10
<1>12. \A i \in 1..Count - 1 : Tail(Queue)[i] = buf[Place(i + 1)]
  <2> SUFFICES ASSUME NEW i \in 1..Count - 1
               PROVE  Tail(Queue)[i] = buf[Place(i + 1)]
    OBVIOUS
  <2>1. i + 1 \in 1..Count
    BY <1>3
  <2> QED
    BY <1>7, <1>10, <1>11, <2>1
<1>13. Queue' \in Seq(Chars) /\ Len(Queue') = Count - 1
  <2>1. \A i \in 1..Count - 1 : buf[Place(i + 1)] \in Chars
    <3> SUFFICES ASSUME NEW i \in 1..Count - 1
                 PROVE  buf[Place(i + 1)] \in Chars
      OBVIOUS
    <3>1. i + 1 \in 1..Count
      BY <1>3
    <3> QED
      BY <1>8, <3>1 DEF IoqTypeOK
  <2>2. Queue' \in [1..Count - 1 -> Chars] /\ Count - 1 \in Nat
    BY <1>3, <1>9, <2>1
  <2> QED
    BY <1>9, <2>2
<1>14. \A i \in 1..Count - 1 : Queue'[i] = Tail(Queue)[i]
  BY <1>9, <1>12
<1>15. \A i \in 1..Len(Queue') : Queue'[i] = Tail(Queue)[i]
  BY <1>13, <1>14
<1>16. Queue' = Tail(Queue)
  <2> DEFINE q == Queue' r == Tail(Queue)
  <2>1. q \in Seq(Chars) /\ r \in Seq(Chars) /\ Len(q) = Len(r)
    BY <1>11, <1>13
  <2>2. \A i \in 1..Len(q) : q[i] = r[i]
    BY <1>15
  <2> HIDE DEF q, r
  <2>3. q = r
    BY <2>1, <2>2
  <2> QED
    BY <2>3 DEF q, r
<1> QED
  BY <1>1, <1>10, <1>16

\* A step of the queue is a step of the bounded queue or leaves it alone.
LEMMA StepIsFifo ==
    ASSUME IoqInv, IoqInv', [IoqNext]_allVars
    PROVE  [Fifo!Next]_<<Queue, byte>>
<1> USE DEF IoqInv
<1>1. ASSUME NEW c \in Chars, Store(c)
      PROVE  Fifo!Next
  <2>1. Fifo!Put(c)
    BY <1>1, StoreAppends DEF Fifo!Put, Store
  <2> QED
    BY <2>1 DEF Fifo!Next
<1>2. ASSUME NEW t \in Threads, Take(t)
      PROVE  Fifo!Next
  <2>1. t \in Consumers
    BY <1>2 DEF Take, PlaceFits
  <2>2. Fifo!Get(t)
    BY <1>2, <2>1, TakePops DEF Fifo!Get
  <2> QED
    BY <2>1, <2>2 DEF Fifo!Next
<1>3. ASSUME UNCHANGED <<buf, head, tail, byte>>
      PROVE  UNCHANGED <<Queue, byte>>
  BY <1>3 DEF Queue
<1>4. ASSUME NEW t \in Threads, ThreadStep(t) \/ Spawn(t)
      PROVE  Fifo!Next \/ UNCHANGED <<buf, head, tail, byte>>
  BY <1>1, <1>2, <1>4
  DEF ThreadStep, Enter, Acquire, IoqWait, Release, Put, Leave, Spawn, ioqVars
<1>5. CASE KeyIrq
  BY <1>1, <1>5 DEF KeyIrq
<1>6. CASE SystemStep \/ UNCHANGED allVars
  BY <1>3, <1>6 DEF SystemStep, allVars, ioqVars
<1> QED
  BY <1>3, <1>4, <1>5, <1>6 DEF IoqNext

\* The ring buffer, with its lock, its sleepers and the keyboard's interrupt,
\* is one first-in first-out queue: no character is lost, repeated or
\* overtaken, for any size of the buffer.
THEOREM IoqImplementsFifo == IoqSpec => ImplementsFifo
<1>1. IoqInit => Fifo!Init
  <2> SUFFICES ASSUME IoqInit
               PROVE  Fifo!Init
    OBVIOUS
  <2>1. IoqTypeOK /\ head = 0 /\ tail = 0
    BY IoqInitInv DEF IoqInv, IoqInit
  <2>2. Count = 0
    BY <2>1, CountLemma, QueueFacts
  <2> HIDE DEF Count
  <2>3. Queue = <<>>
    BY <2>1, <2>2, QueueLemma
  <2> QED
    BY <2>1, <2>3 DEF Fifo!Init, IoqTypeOK
<1>2. IoqInv /\ IoqInv' /\ [IoqNext]_allVars => [Fifo!Next]_<<Queue, byte>>
  BY StepIsFifo
<1> QED
  BY <1>1, <1>2, IoqSpecInv, PTL DEF IoqSpec, ImplementsFifo, Fifo!Spec
================================================================================
