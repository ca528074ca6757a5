----------------------------- MODULE Processes -----------------------------
(***************************************************************************)
(* User processes on top of Sync: userprog/process.c, the page directories *)
(* that kernel/memory.c fills, the activation of a directory and of the    *)
(* TSS at every switch, the system calls malloc, free and write, and the   *)
(* console they print on.                                                  *)
(*                                                                         *)
(* Main stands for the kernel's threads.  A page is a virtual page number: *)
(* user pages first, the last of them the stack, then the kernel's.  A     *)
(* page frame is a number too: first those of the kernel's pool, then those *)
(* of the users', then the tables of the boot and the boot's directory.    *)
(* `at' is what a thread is doing:                                         *)
(*                                                                         *)
(*   "idle"    (main) in its own code                                      *)
(*   "pcb", "bitmap", "pgdir", "copy", "list"   (main) in process_execute  *)
(*   "begin"   (process) in start_process                                  *)
(*   "user"    (process) in user mode                                      *)
(*   "malloc", "free", "print"   in sys_malloc, sys_free, console_put_char *)
(*   "iret"    (process) before the end of a system call                   *)
(*                                                                         *)
(* and `step' how far it is in a call that works under a lock:             *)
(*                                                                         *)
(*   "out", "in", "done"   outside, after lock_acquire, before lock_release *)
(*   "scan", "set"    in palloc, before bitmap_scan and before bitmap_set  *)
(*   "map"     in page_table_add                                           *)
(*   "tset", "pde", "zero", "pte"   in page_table_add, which makes a page  *)
(*             table: before bitmap_set, before the directory's entry,     *)
(*             before the table is cleared, before the page's entry        *)
(*   "clear"   before the memset of the page                               *)
(*   "unmap"   in mfree_page, after pfree                                  *)
(*   "read"    in put_char, which has read the cursor                      *)
(*                                                                         *)
(* PallocAlone is a bound of the specification: the clock does not switch  *)
(* tasks between palloc's scan and set.  The comment at memory.c:116 asks   *)
(* for it; memory.c:148, which takes a page table from the kernel's pool   *)
(* under the other pool's lock, does not ensure it (see Frames).           *)
(***************************************************************************)
EXTENDS Sync, Screen, FiniteSetsExt

CONSTANTS
    Processes,
    KLock, ULock, Console,          \* kernel_pool.lock, user_pool.lock, console_lock
    PerTable,                       \* pages in a page table, 1024
    UserTables, KernelTables,       \* page directory entries of each half, 768 and 255
    KernelFrames, UserFrames,       \* page frames in each pool
    HeapPages,                      \* bound on the heap pages of a thread
    Dirt,                           \* what the owner of a heap page leaves in its words
    Workloads                       \* bound: the calls of each kind that the threads may make

Kinds == {"malloc", "free", "print"}

ASSUME ProcessesAssumption ==
    /\ Processes \subseteq Threads \ {Main, Idle}
    /\ {KLock, ULock, Console} \subseteq Locks
    /\ PerTable \in Nat \ {0} /\ UserTables \in Nat \ {0}
    /\ {KernelTables, KernelFrames, UserFrames, HeapPages} \subseteq Nat
    /\ HeapPages < UserTables * PerTable
    /\ Workloads \subseteq [Threads -> [Kinds -> Nat]]

\* No allocation fails in this model: the pools and the kernel's half of the
\* address space have room for the task_struct, the bitmap and the directory of
\* every process, for their page tables and stacks, and for every heap.
ASSUME RoomAssumption ==
    LET n == Cardinality(Processes) IN
    /\ IsFiniteSet(Processes)
    /\ n * 3 + HeapPages <= KernelTables * PerTable
    /\ n * 3 + HeapPages + n * UserTables <= KernelFrames
    /\ n * (HeapPages + 1) <= UserFrames

Entries == 0..UserTables + KernelTables - 1
FirstKernelPage == UserTables * PerTable
KernelPages == FirstKernelPage..(UserTables + KernelTables) * PerTable - 1
StackPage == FirstKernelPage - 1

\* NULL is no address of the kernel's half.
ASSUME NullAssumption == NULL \notin KernelPages

PoolEnd == KernelFrames + UserFrames
BootTable(i) == PoolEnd + i
BootDir == PoolEnd + UserTables + KernelTables
PageFrames == 0..BootDir
None == BootDir + 1                 \* an entry that is not present
NoPage == (UserTables + KernelTables) * PerTable

ASSUME DirtAssumption == Dirt \in PageFrames \cup {None}

VARIABLES
    at, step,
    left,       \* the calls a thread may still make
    making,     \* the process that main is creating
    got,        \* the page that get_kernel_pages returned to main
    vaddr,          \* the page that a thread is about to map, or has freed
    page_phyaddr,   \* the frame that palloc has found for it
    pde_phyaddr,    \* the frame that palloc has found for a page table
    heap,       \* the pages that sys_malloc gave to each thread
    pgdir,      \* task_struct.pgdir, a page of the kernel
    home,       \* the frame of each task's page directory
    cr3, esp0,  \* the directory in use; the task on whose stack a trap starts
    dir,        \* page directories by frame: the frame of each entry's table
    table,      \* page tables by frame: the frame of each page
    taken,      \* the frames taken in the two pools
    vbits,      \* kernel_vaddr (of Main) and userprog_vaddr: the pages taken
    cells, cursor,  \* the video memory and the cursor
    bx,         \* the cursor as put_char has read it
    text        \* what has been printed

handVars == <<vaddr, page_phyaddr, pde_phyaddr>>
spaceVars == <<making, got, heap, pgdir, home, dir, table, taken, vbits, handVars>>
cpuVars == <<cr3, esp0>>
screenVars == <<cells, cursor, bx, text>>
processVars == <<at, step, left, spaceVars, cpuVars, screenVars>>
allVars == <<vars, processVars>>

-----------------------------------------------------------------------------
\* setup_page: every entry of the kernel's half has its table from the start,
\* and user pages have none.  (Left out: the last entry, which maps the directory
\* itself, and entry 0, through which the loader ran.  Memory that nobody has
\* written is zero: setup_page does not clear the tables of the kernel's heap.)
BootEntries == [i \in Entries |-> IF i >= UserTables THEN BootTable(i) ELSE None]

ProcessesInit ==
    /\ Init
    /\ at = [t \in Threads |-> IF t \in Processes THEN "begin" ELSE "idle"]
    /\ step = [t \in Threads |-> "out"]
    /\ left \in Workloads
    /\ making = NULL
    /\ got = None
    /\ vaddr = [t \in Threads |-> NoPage]
    /\ page_phyaddr = [t \in Threads |-> None]
    /\ pde_phyaddr = [t \in Threads |-> None]
    /\ heap = [t \in Threads |-> {}]
    /\ pgdir = [t \in Threads |-> NULL]
    /\ home = [t \in Threads |-> BootDir]
    /\ cr3 = BootDir
    /\ esp0 = NULL
    /\ dir = [f \in PageFrames |-> IF f = BootDir THEN BootEntries ELSE [i \in Entries |-> None]]
    /\ table = [f \in PageFrames |-> [p \in 0..PerTable - 1 |-> None]]
    /\ taken = {}
    /\ vbits = [t \in Processes \cup {Main} |-> {}]
    /\ cells = [i \in Cells |-> Blank]
    /\ cursor = 0
    /\ bx = [t \in Threads |-> 0]
    /\ text = <<<<>>>>

Go(t, place) == at' = [at EXCEPT ![t] = place]
Step(t, s) == step' = [step EXCEPT ![t] = s]
Within(t, places) == Calls(t) /\ at[t] \in places /\ step[t] = "in"
Doing(t, s) == Calls(t) /\ step[t] = s

-----------------------------------------------------------------------------
(* Page tables.                                                            *)

\* addr_v2p, through the directory in use.
V2P(d, p) ==
    LET t == dir[d][p \div PerTable]
    IN  IF t = None THEN None ELSE table[t][p % PerTable]

\* page_dir_activate: a kernel thread runs in the boot's directory.
PageDirActivate(next) ==
    cr3' = IF pgdir[next] = NULL THEN BootDir ELSE V2P(cr3, pgdir[next])

\* update_tss_esp.
UpdateTssEsp(next) == esp0' = next

\* Variant: kernel threads stay in the directory they find.
ActivateProcess(next) ==
    IF pgdir[next] = NULL THEN UNCHANGED cpuVars
    ELSE PageDirActivate(next) /\ UpdateTssEsp(next)

\* process_activate: a kernel thread does not need esp0.
ProcessActivate(next) ==
    /\ PageDirActivate(next)
    /\ IF pgdir[next] = NULL THEN UNCHANGED esp0 ELSE UpdateTssEsp(next)

\* schedule activates the task it has picked.
Activate == IF current' = current THEN UNCHANGED cpuVars ELSE ProcessActivate(current')

KernelPool == 0..KernelFrames - 1
UserPool == KernelFrames..PoolEnd - 1

PoolOf(t) == IF t = Main THEN KernelPool ELSE UserPool

\* bitmap_scan of a pool: the first free frame.
FirstFree(pool) == Min(pool \ taken)

\* vaddr_get.
VaddrGet(t) == Min((IF t = Main THEN KernelPages ELSE 0..StackPage) \ vbits[t])

\* A frame filled with one word.  (Its content is kept as a directory and as a
\* page table apart.)
Fill(f, word) ==
    /\ dir' = [dir EXCEPT ![f] = [i \in Entries |-> word]]
    /\ table' = [table EXCEPT ![f] = [p \in 0..PerTable - 1 |-> word]]

-----------------------------------------------------------------------------
(* Calls that work under a lock.                                           *)

\* Variant: system calls print under a lock of their own.
LockOfTwoConsoles(t) ==
    CASE at[t] = "print" -> IF pgdir[t] = NULL THEN Console ELSE ULock
      [] at[t] \in {"pcb", "bitmap", "pgdir"} -> KLock
      [] at[t] = "begin" -> ULock
      [] at[t] \in {"malloc", "free"} -> IF pgdir[t] = NULL THEN KLock ELSE ULock

\* The lock of the call t is in.
LockOf(t) ==
    CASE at[t] = "print" -> Console
      [] at[t] \in {"pcb", "bitmap", "pgdir"} -> KLock
      [] at[t] = "begin" -> ULock
      [] at[t] \in {"malloc", "free"} -> IF pgdir[t] = NULL THEN KLock ELSE ULock

Locked == {"print", "pcb", "bitmap", "pgdir", "begin", "malloc", "free"}

Acquire(t) ==
    /\ at[t] \in Locked /\ step[t] = "out"
    /\ LockAcquire(t, LockOf(t))
    /\ Step(t, "in")
    /\ UNCHANGED <<at, left, spaceVars, cpuVars, screenVars>>

\* Where a call goes on.
After(t) ==
    CASE at[t] = "pcb" -> "bitmap"
      [] at[t] = "bitmap" -> "pgdir"
      [] at[t] = "pgdir" -> "copy"
      [] at[t] = "begin" -> "user"
      [] OTHER -> IF t = Main THEN "idle" ELSE "iret"

Release(t) ==
    /\ at[t] \in Locked /\ step[t] = "done"
    /\ LockRelease(t, LockOf(t))
    /\ Go(t, After(t)) /\ Step(t, "out")
    /\ UNCHANGED <<left, spaceVars, cpuVars, screenVars>>

-----------------------------------------------------------------------------
(* malloc_page of one page, and mfree_page.                                *)

Allocating == {"pcb", "bitmap", "pgdir", "begin", "malloc"}

\* vaddr_get; get_a_page sets the bit of the stack itself.
TakeAddress(t) ==
    /\ Within(t, Allocating)
    /\ vaddr' = [vaddr EXCEPT ![t] = IF at[t] = "begin" THEN StackPage ELSE VaddrGet(t)]
    /\ vbits' = [vbits EXCEPT ![t] = @ \cup {vaddr'[t]}]
    /\ Step(t, "scan")
    /\ UNCHANGED <<vars, at, left, making, got, heap, pgdir, home, dir, table, taken,
                   page_phyaddr, pde_phyaddr, cpuVars, screenVars>>

\* palloc: bitmap_scan, then bitmap_set.
ScanFrame(t) ==
    /\ Doing(t, "scan")
    /\ page_phyaddr' = [page_phyaddr EXCEPT ![t] = FirstFree(PoolOf(t))]
    /\ Step(t, "set")
    /\ UNCHANGED <<vars, at, left, making, got, heap, pgdir, home, dir, table, taken, vbits,
                   vaddr, pde_phyaddr, cpuVars, screenVars>>

SetFrame(t) ==
    /\ Doing(t, "set")
    /\ taken' = taken \cup {page_phyaddr[t]}
    /\ Step(t, "map")
    /\ UNCHANGED <<vars, at, left, making, got, heap, pgdir, home, dir, table, vbits,
                   handVars, cpuVars, screenVars>>

\* The page directory's entry for t's page, in the directory in use.
Entry(t) == dir[cr3][vaddr[t] \div PerTable]

\* page_table_add finds no table: it takes a frame of the kernel's pool,
ScanTable(t) ==
    /\ Doing(t, "map") /\ Entry(t) = None
    /\ pde_phyaddr' = [pde_phyaddr EXCEPT ![t] = FirstFree(KernelPool)]
    /\ Step(t, "tset")
    /\ UNCHANGED <<vars, at, left, making, got, heap, pgdir, home, dir, table, taken, vbits,
                   vaddr, page_phyaddr, cpuVars, screenVars>>

SetTable(t) ==
    /\ Doing(t, "tset")
    /\ taken' = taken \cup {pde_phyaddr[t]}
    /\ Step(t, "pde")
    /\ UNCHANGED <<vars, at, left, making, got, heap, pgdir, home, dir, table, vbits,
                   handVars, cpuVars, screenVars>>

\* enters it in the directory,
AddTable(t) ==
    /\ Doing(t, "pde")
    /\ dir' = [dir EXCEPT ![cr3][vaddr[t] \div PerTable] = pde_phyaddr[t]]
    /\ pde_phyaddr' = [pde_phyaddr EXCEPT ![t] = None]
    /\ Step(t, "zero")
    /\ UNCHANGED <<vars, at, left, making, got, heap, pgdir, home, table, taken, vbits,
                   vaddr, page_phyaddr, cpuVars, screenVars>>

\* and clears it.
ClearTable(t) ==
    /\ Doing(t, "zero")
    /\ Fill(Entry(t), None)
    /\ Step(t, "pte")
    /\ UNCHANGED <<vars, at, left, making, got, heap, pgdir, home, taken, vbits,
                   handVars, cpuVars, screenVars>>

\* The library's variables that KAssert does not change.
quietVars == <<current, status, ready, ticks, syncVars>>

\* page_table_add enters the page in its table.  get_a_page is done then.
MapPage(t) ==
    LET slot == vaddr[t] % PerTable IN
    /\ Doing(t, "map") \/ Doing(t, "pte")
    /\ Entry(t) # None
    /\ KAssert(table[Entry(t)][slot] = None)
    /\ table' = [table EXCEPT ![Entry(t)][slot] = page_phyaddr[t]]
    /\ page_phyaddr' = [page_phyaddr EXCEPT ![t] = None]
    /\ IF at[t] = "begin"
       THEN Step(t, "done") /\ vaddr' = [vaddr EXCEPT ![t] = NoPage]
       ELSE Step(t, "clear") /\ UNCHANGED vaddr
    /\ UNCHANGED <<quietVars, at, left, making, got, heap, pgdir, home, dir, taken, vbits,
                   pde_phyaddr, cpuVars, screenVars>>

\* The memset of get_kernel_pages and of sys_malloc, which return the page.
ClearPage(t) ==
    /\ Doing(t, "clear")
    /\ Fill(V2P(cr3, vaddr[t]), None)
    /\ IF at[t] = "malloc"
       THEN heap' = [heap EXCEPT ![t] = @ \cup {vaddr[t]}] /\ UNCHANGED got
       ELSE got' = vaddr[t] /\ UNCHANGED heap
    /\ vaddr' = [vaddr EXCEPT ![t] = NoPage]
    /\ Step(t, "done")
    /\ UNCHANGED <<vars, at, left, making, pgdir, home, taken, vbits, page_phyaddr, pde_phyaddr,
                   cpuVars, screenVars>>

\* mfree_page in sys_free: pfree of the frame, in which the owner's data are,
Pfree(t) ==
    /\ Within(t, {"free"})
    /\ \E p \in heap[t] :
          /\ vaddr' = [vaddr EXCEPT ![t] = p]
          /\ taken' = taken \ {V2P(cr3, p)}
          /\ Fill(V2P(cr3, p), Dirt)
    /\ Step(t, "unmap")
    /\ UNCHANGED <<vars, at, left, making, got, heap, pgdir, home, vbits, page_phyaddr, pde_phyaddr,
                   cpuVars, screenVars>>

\* Variant: the loop over pages of the user pool does without page_table_pte_remove.
UnmapForgotten(t) ==
    /\ Doing(t, "unmap")
    /\ table' = IF t = Main THEN [table EXCEPT ![Entry(t)][vaddr[t] % PerTable] = None]
                ELSE table
    /\ vbits' = [vbits EXCEPT ![t] = @ \ {vaddr[t]}]
    /\ heap' = [heap EXCEPT ![t] = @ \ {vaddr[t]}]
    /\ vaddr' = [vaddr EXCEPT ![t] = NoPage]
    /\ Step(t, "done")
    /\ UNCHANGED <<vars, at, left, making, got, pgdir, home, dir, taken, page_phyaddr, pde_phyaddr,
                   cpuVars, screenVars>>

\* then page_table_pte_remove and vaddr_remove.
Unmap(t) ==
    /\ Doing(t, "unmap")
    /\ table' = [table EXCEPT ![Entry(t)][vaddr[t] % PerTable] = None]
    /\ vbits' = [vbits EXCEPT ![t] = @ \ {vaddr[t]}]
    /\ heap' = [heap EXCEPT ![t] = @ \ {vaddr[t]}]
    /\ vaddr' = [vaddr EXCEPT ![t] = NoPage]
    /\ Step(t, "done")
    /\ UNCHANGED <<vars, at, left, making, got, pgdir, home, dir, taken, page_phyaddr, pde_phyaddr,
                   cpuVars, screenVars>>

-----------------------------------------------------------------------------
(* The console, and what a thread asks for.                                *)

\* console_put_char between lock and unlock: put_char reads the cursor, then
\* writes the character and the cursor.
ReadCursor(t) ==
    /\ Within(t, {"print"})
    /\ bx' = [bx EXCEPT ![t] = cursor]
    /\ Step(t, "read")
    /\ UNCHANGED <<vars, at, left, spaceVars, cpuVars, cells, cursor, text>>

Printed(t) == IF t = Main THEN LF ELSE t

WriteChar(t) ==
    /\ Calls(t) /\ at[t] = "print" /\ step[t] = "read"
    /\ LET shown == PutChar(cells, bx[t], Printed(t)) IN
          cells' = shown.cells /\ cursor' = shown.cursor
    /\ text' = TextPut(text, Printed(t))
    /\ bx' = [bx EXCEPT ![t] = 0]
    /\ Step(t, "done")
    /\ UNCHANGED <<vars, at, left, spaceVars, cpuVars>>

\* What a thread may ask for next.
WorkCall(t) ==
    \E kind \in Kinds :
        /\ left[t][kind] > 0
        /\ left' = [left EXCEPT ![t][kind] = @ - 1]
        /\ kind = "malloc" => Cardinality(heap[t]) < HeapPages
        /\ kind = "free" => heap[t] # {}
        /\ Go(t, kind)

-----------------------------------------------------------------------------
(* Main.                                                                   *)

\* init_all enables interrupts before main creates processes.
Boot ==
    /\ ~intr[Main]
    /\ Sti(Main)
    /\ UNCHANGED processVars

\* Main calls process_execute, sys_malloc, sys_free or the console.
MainCalls ==
    /\ Calls(Main) /\ at[Main] = "idle" /\ intr[Main]
    /\ \/ WorkCall(Main) /\ UNCHANGED making
       \/ /\ \E p \in Processes : pc[p] = "new" /\ making' = p
          /\ Go(Main, "pcb")
          /\ UNCHANGED left
    /\ UNCHANGED <<vars, step, got, heap, pgdir, home, dir, table, taken, vbits,
                   handVars, cpuVars, screenVars>>

\* Variant: the new directory gets the table of the first entry only.
CreatePageDirFirst ==
    LET new == V2P(cr3, got) IN
    /\ Calls(Main) /\ at[Main] = "copy"
    /\ dir' = [dir EXCEPT ![new] =
                  [i \in Entries |-> IF i = UserTables THEN dir[cr3][i] ELSE @[i]]]
    /\ pgdir' = [pgdir EXCEPT ![making] = got]
    /\ home' = [home EXCEPT ![making] = new]
    /\ got' = None
    /\ Go(Main, "list")
    /\ UNCHANGED <<vars, step, left, making, heap, table, taken, vbits, handVars,
                   cpuVars, screenVars>>

\* create_page_dir: the kernel's half of the directory in use is copied into
\* the new page, which get_kernel_pages has cleared (its last entry, then set to
\* the new page, is left out here too).
CreatePageDir ==
    LET new == V2P(cr3, got) IN
    /\ Calls(Main) /\ at[Main] = "copy"
    /\ dir' = [dir EXCEPT ![new] =
                  [i \in Entries |-> IF i >= UserTables THEN dir[cr3][i] ELSE @[i]]]
    /\ pgdir' = [pgdir EXCEPT ![making] = got]
    /\ home' = [home EXCEPT ![making] = new]
    /\ got' = None
    /\ Go(Main, "list")
    /\ UNCHANGED <<vars, step, left, making, heap, table, taken, vbits, handVars,
                   cpuVars, screenVars>>

\* The end of process_execute: the process is on the ready list.
ListProcess ==
    /\ at[Main] = "list"
    /\ Start(Main, making)
    /\ making' = NULL
    /\ Go(Main, "idle")
    /\ UNCHANGED <<step, left, got, heap, pgdir, home, dir, table, taken, vbits,
                   handVars, cpuVars, screenVars>>

-----------------------------------------------------------------------------
(* Processes.                                                              *)

\* int 0x80: malloc, free or write, with interrupts disabled.
Syscall(t) ==
    /\ at[t] = "user"
    /\ Cli(t)
    /\ WorkCall(t)
    /\ UNCHANGED <<step, spaceVars, cpuVars, screenVars>>

\* intr_exit.
Iret(t) ==
    /\ at[t] = "iret"
    /\ Sti(t)
    /\ Go(t, "user")
    /\ UNCHANGED <<step, left, spaceVars, cpuVars, screenVars>>

-----------------------------------------------------------------------------
ThreadStep(t) ==
    \/ Acquire(t) \/ Release(t)
    \/ TakeAddress(t) \/ ScanFrame(t) \/ SetFrame(t)
    \/ ScanTable(t) \/ SetTable(t) \/ AddTable(t) \/ ClearTable(t)
    \/ MapPage(t) \/ ClearPage(t)
    \/ Pfree(t) \/ Unmap(t)
    \/ ReadCursor(t) \/ WriteChar(t)

\* Bound: the clock does not come between palloc's scan and its set.
PallocAlone == step[current] \notin {"set", "tset"}

\* The library, idle and the clock: only here a task gives up the processor.
SystemStep ==
    /\ (\E t \in Threads : Library(t)) \/ Park(Idle) \/ Halt \/ (Tick /\ PallocAlone)
    /\ Activate
    /\ UNCHANGED <<at, step, left, spaceVars, screenVars>>

ProcessesNext ==
    \/ \E t \in Processes \cup {Main} : ThreadStep(t)
    \/ Boot \/ MainCalls \/ CreatePageDir \/ ListProcess
    \/ \E t \in Processes : Syscall(t) \/ Iret(t)
    \/ SystemStep

ProcessesSpec == ProcessesInit /\ [][ProcessesNext]_allVars

-----------------------------------------------------------------------------
\* The comment at process.c:34-38: whoever is switched in, after whatever ran
\* before it, runs in its own page directory (a kernel thread in the kernel's),
\* and a process that runs in user mode traps onto its own kernel stack.
RunsInOwnSpace ==
    /\ cr3 = home[current]
    /\ at[current] = "user" => esp0 = current

\* Whichever directory is in use, every page of the kernel is mapped in it, to
\* the frame the kernel's own directory has for it: those of the tasks that the
\* scheduler touches, and those allocated after the directory was created.
KernelEverywhere ==
    \A p \in vbits[Main] :
        V2P(BootDir, p) # None => cr3 \in PageFrames /\ V2P(cr3, p) = V2P(BootDir, p)

\* A process in user mode has its stack and its heap in its own directory, in
\* frames of the user pool, and no frame is mapped in two places: but for the
\* page that a thread is working on and the page table that it has not cleared
\* yet, whatever a process's page tables hold is its own.
Mapped(t, p) == step[t] # "zero" /\ p # vaddr[t]

UserPagesOwn ==
    /\ \A t \in Processes :
          at[t] = "user" =>
              \A p \in {StackPage} \cup heap[t] : V2P(home[t], p) \in UserPool \cap taken
    /\ \A t, u \in Processes : \A p, q \in 0..StackPage :
          Mapped(t, p) /\ Mapped(u, q)
            /\ V2P(home[t], p) = V2P(home[u], q) /\ V2P(home[t], p) # None
                => home[t] = home[u] /\ p = q

\* Every character printed is on the screen, in the order of the calls, through
\* line feeds and scrolling, although put_char reads and writes the cursor in
\* separate steps.
ScreenShowsText == cells = ShownCells(text) /\ cursor = ShownCursor(text)

-----------------------------------------------------------------------------
(* The inductive invariant of Processes_proofs.                            *)

MainPlaces == {"idle", "pcb", "bitmap", "pgdir", "copy", "list", "malloc", "free", "print"}
ProcessPlaces == {"begin", "user", "malloc", "free", "print", "iret"}
Slots == 0..PerTable - 1
UserPages == 0..StackPage
UserEntries == 0..UserTables - 1
HeapRange == 0..HeapPages - 1

\* malloc_page at work; the part of it after palloc, until the page is mapped.
Holding == {"map", "tset", "pde", "zero", "pte"}
Taking == {"scan", "set", "clear"} \cup Holding
Steps == {"out", "in", "unmap", "read", "done"} \cup Taking

ProcessesTypeOK ==
    /\ at \in [Threads -> MainPlaces \cup ProcessPlaces]
    /\ step \in [Threads -> Steps]
    /\ left \in [Threads -> [Kinds -> Nat]]
    /\ heap \in [Threads -> SUBSET (UserPages \cup KernelPages)]
    /\ pgdir \in [Threads -> KernelPages \cup {NULL}]
    /\ home \in [Threads -> PageFrames]
    /\ dir \in [PageFrames -> [Entries -> PageFrames \cup {None}]]
    /\ table \in [PageFrames -> [Slots -> PageFrames \cup {None}]]
    /\ taken \subseteq KernelPool \cup UserPool
    /\ vbits \in [Processes \cup {Main} -> SUBSET (UserPages \cup KernelPages)]
    /\ vaddr \in [Threads -> UserPages \cup KernelPages \cup {NoPage}]
    /\ page_phyaddr \in [Threads -> PageFrames \cup {None}]
    /\ pde_phyaddr \in [Threads -> PageFrames \cup {None}]
    /\ cursor \in Cells
    /\ bx \in [Threads -> Cells]

\* The processes that have a page directory.
Built == {t \in Processes : pgdir[t] # NULL}

\* The frame of a page of the kernel, in the tables that all directories share,
\* and of a user page.
KernelFrame(p) == table[BootTable(p \div PerTable)][p % PerTable]
UserFrame(t, p) == V2P(home[t], p)

\* The same with what malloc_page has in hand: a page that it is about to map
\* has its frame already, an entry that it is about to fill its table.
KFrame(p) ==
    IF p = vaddr[Main] /\ step[Main] \in Holding THEN page_phyaddr[Main] ELSE KernelFrame(p)
UFrame(t, p) ==
    IF p = vaddr[t] /\ step[t] \in Holding THEN page_phyaddr[t] ELSE UserFrame(t, p)
TableOf(t, i) ==
    IF step[t] = "pde" /\ i = vaddr[t] \div PerTable THEN pde_phyaddr[t] ELSE dir[home[t]][i]

\* The pages that own a frame: a bit is set before palloc, and pfree comes before
\* the bit is cleared.
Owned(t) == vbits[t] \ (IF step[t] \in {"scan", "set", "unmap"} THEN {vaddr[t]} ELSE {})

\* The pages whose entry is free.
Unmapped(t, p) ==
    p \notin vbits[t] \/ (p = vaddr[t] /\ step[t] \in {"scan", "set"} \cup Holding)

\* The page is behind the page table that is about to be cleared.
Uncleared(t, p) == step[t] = "zero" /\ p \div PerTable = vaddr[t] \div PerTable

\* Every directory has the kernel's tables, the boot's has no others.
KernelHalf ==
    /\ \A t \in Threads : \A i \in Entries :
          i >= UserTables => dir[home[t]][i] = BootTable(i)
    /\ \A i \in UserEntries : dir[BootDir][i] = None

\* A page of the kernel has a frame of its own exactly when its bit is set.
KernelMaps ==
    /\ vbits[Main] \subseteq KernelPages
    /\ \A p \in Owned(Main) : KFrame(p) \in KernelPool \cap taken
    /\ \A p, q \in Owned(Main) : KFrame(p) = KFrame(q) => p = q
    /\ \A p \in KernelPages : Unmapped(Main, p) => KernelFrame(p) = None

\* A page table of a process is no other's and no page of the kernel.
TablesFit ==
    \A t \in Built : \A i \in UserEntries :
        TableOf(t, i) # None =>
            /\ TableOf(t, i) \in KernelPool \cap taken
            /\ \A p \in Owned(Main) : KFrame(p) # TableOf(t, i)
            /\ \A u \in Built : \A j \in UserEntries :
                  TableOf(u, j) = TableOf(t, i) => u = t /\ j = i

\* A user page has a frame of its own exactly when its bit is set.
UserMaps ==
    \A t \in Built :
        /\ vbits[t] \subseteq UserPages
        /\ \A p \in Owned(t) :
              /\ UFrame(t, p) \in UserPool \cap taken
              /\ \A u \in Built : \A q \in Owned(u) :
                    UFrame(u, q) = UFrame(t, p) => u = t /\ q = p
        /\ \A p \in UserPages :
              Unmapped(t, p) /\ ~Uncleared(t, p) => UserFrame(t, p) = None

\* A frame that is taken is used.
AllUsed ==
    \A f \in taken :
        \/ \E p \in Owned(Main) : f = KFrame(p)
        \/ \E t \in Built : \E i \in UserEntries : f = TableOf(t, i)
        \/ \E t \in Built : \E p \in Owned(t) : f = UFrame(t, p)

MapsFit == KernelHalf /\ KernelMaps /\ TablesFit /\ UserMaps /\ AllUsed

\* The page that sys_malloc is taking, and the pages of the kernel that sys_free
\* does not give back.
Adding(t) == IF at[t] = "malloc" /\ step[t] \in Taking THEN {vaddr[t]} ELSE {}
Fixed == vbits[Main] \ (heap[Main] \cup Adding(Main))

\* What malloc_page and mfree_page have in hand.
HandFits(t) ==
    LET i == vaddr[t] \div PerTable IN
    /\ step[t] \in Taking =>
          /\ at[t] \in Allocating
          /\ vaddr[t] \in vbits[t] \ heap[t]
          /\ at[t] = "begin" => vaddr[t] = StackPage
    /\ step[t] = "unmap" => at[t] = "free" /\ vaddr[t] \in heap[t]
    /\ step[t] = "clear" => at[t] # "begin"
    /\ step[t] \in {"set", "tset"} => current = t /\ pc[t] = "body"
    /\ step[t] = "set" => page_phyaddr[t] \in PoolOf(t) \ taken
    /\ step[t] = "tset" => pde_phyaddr[t] \in KernelPool \ taken
    /\ step[t] = "pde" => pde_phyaddr[t] # None
    /\ step[t] \in {"tset", "pde", "zero", "pte"} => t # Main
    /\ step[t] \in {"tset", "pde"} => dir[home[t]][i] = None
    /\ step[t] \in {"zero", "pte"} => dir[home[t]][i] # None
    /\ step[t] = "zero" => \A p \in Owned(t) : p \div PerTable = i => p = vaddr[t]

HandsFit == \A t \in Processes \cup {Main} : HandFits(t)

\* A directory is a page of its own; the page that will be the next one is too,
\* and empty.
HomesFit ==
    /\ \A t \in Threads \ Built : pgdir[t] = NULL /\ home[t] = BootDir
    /\ \A t \in Built : pgdir[t] \in Fixed /\ home[t] = KernelFrame(pgdir[t])
    /\ \A t, u \in Built : pgdir[t] = pgdir[u] => t = u
    /\ step[Main] \in Taking => \A t \in Built : pgdir[t] # vaddr[Main]
    /\ at[Main] = "copy" \/ (at[Main] = "pgdir" /\ step[Main] = "done") =>
          /\ got \in Fixed
          /\ \A t \in Built : pgdir[t] # got
          /\ \A i \in UserEntries : dir[KernelFrame(got)][i] = None

\* The bits of a process are those of its heap and, once it has begun, its stack.
HeapsFit ==
    /\ \A t \in Processes :
          /\ heap[t] \cup Adding(t) \subseteq HeapRange
          /\ t \notin Built => heap[t] = {} /\ vbits[t] = {}
          /\ t \in Built =>
                IF at[t] = "begin" /\ step[t] \in {"out", "in"}
                THEN heap[t] = {} /\ vbits[t] = {}
                ELSE vbits[t] = heap[t] \cup Adding(t) \cup {StackPage}
    /\ heap[Main] \subseteq vbits[Main]
    /\ \A t \in Processes \cup {Main} :
          /\ heap[t] \cap Adding(t) = {}
          /\ Cardinality(heap[t]) <= HeapPages
          /\ at[t] = "malloc" /\ step[t] # "done" => Cardinality(heap[t]) < HeapPages

\* The pages that process_execute has taken for the process it is creating.
InHand ==
    LET n == IF step[Main] \in {"out", "in"} THEN 0 ELSE 1 IN
    CASE at[Main] = "pcb"    -> n
      [] at[Main] = "bitmap" -> 1 + n
      [] at[Main] = "pgdir"  -> 2 + n
      [] at[Main] \in {"copy", "list"} -> 3
      [] OTHER -> 0

Created == {p \in Processes : pc[p] # "new"}
Creating == at[Main] \in {"pcb", "bitmap", "pgdir", "copy", "list"}

CountFits == Cardinality(Fixed) <= Cardinality(Created) * 3 + InHand

\* Who is where, and which processes have a directory.
PlacesFit ==
    /\ at[Main] \in MainPlaces
    /\ \A t \in Processes : at[t] \in ProcessPlaces
    /\ \A t \in Threads \ (Processes \cup {Main}) : at[t] = "idle"
    /\ \A t \in Processes : pc[t] = "new" => at[t] = "begin" /\ step[t] = "out"
    /\ Creating => making \in Processes /\ pc[making] = "new"
    /\ Built = Created \cup IF at[Main] = "list" THEN {making} ELSE {}

CpuFits == cr3 = home[current] /\ (current \in Built => esp0 = current)

SpaceInv == MapsFit /\ HandsFit /\ HomesFit /\ HeapsFit /\ CountFits /\ PlacesFit /\ CpuFits

\* Between lock and unlock a thread holds the lock, or is about to; what
\* put_char has read of the cursor is still so when it writes.
LocksFit ==
    /\ \A t \in Threads : step[t] # "out" =>
          /\ at[t] \in Locked
          /\ \/ depth[t][LockOf(t)] > 0
             \/ pc[t] \in {"down", "wait", "own"} /\ target[t] = LockOf(t)
    /\ \A t \in Threads : step[t] = "read" =>
          at[t] = "print" /\ depth[t][Console] > 0 /\ bx[t] = cursor

\* The text fits the screen, and its last line has room.
TextFits ==
    /\ text \in Seq(Seq(Threads \cup {LF}))
    /\ Len(text) \in 1..Rows
    /\ \A n \in 1..Len(text) : Len(text[n]) <= Columns
    /\ Len(text[Len(text)]) < Columns

ProcessesInv ==
    /\ Inv
    /\ ProcessesTypeOK
    /\ SpaceInv
    /\ LocksFit
    /\ TextFits
    /\ ScreenShowsText
=============================================================================
