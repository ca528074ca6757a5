------------------------------- MODULE Frames -------------------------------
(***************************************************************************)
(* The physical memory pools of kernel/memory.c: palloc and pfree on the   *)
(* bitmap of a pool, called by several threads on top of Sync.             *)
(*                                                                         *)
(* A kernel thread takes and gives back pages of the kernel pool under     *)
(* kernel_pool.lock.  A process does so with the user pool and its lock:   *)
(* its first page with interrupts enabled (start_process), the others in   *)
(* system calls.  If the page table for a process's page is missing,       *)
(* page_table_add takes a page of the kernel pool.  `at' is the line a     *)
(* thread has reached:                                                     *)
(*                                                                         *)
(*   "idle"    outside the memory system                                   *)
(*   "scan", "set"     in palloc, before bitmap_scan and before bitmap_set *)
(*   "map"     in page_table_add                                           *)
(*   "free", "unmap"   in mfree_page, before pfree and before the page     *)
(*             table entry is removed                                      *)
(*   "unlock"  before lock_release                                         *)
(*   "panic"   in panic_spin: interrupts disabled, looping for ever        *)
(***************************************************************************)
EXTENDS Sync, FiniteSetsExt

CONSTANTS
    KernelThreads, Processes,   \* the threads that call: disjoint, without Idle
    KLock, ULock,               \* kernel_pool.lock, user_pool.lock: different locks
    PoolSize                    \* pages in each pool

Pools == {"kernel", "user"}
Pages == 0..PoolSize - 1

VARIABLES
    bits,   \* pool_bitmap of each pool: the pages marked as taken
    at,
    pool,   \* the pool palloc was called for
    found,  \* bit_idx, the page a thread is about to take or give back
    mapped  \* the pages each thread has in a page table

framesVars == <<bits, at, pool, found, mapped>>
allVars == <<vars, framesVars>>

FramesTypeOK ==
    /\ bits \in [Pools -> SUBSET Pages]
    /\ at \in [Threads -> {"idle", "scan", "set", "map", "free", "unmap", "unlock", "panic"}]
    /\ pool \in [Threads -> Pools]
    /\ found \in [Threads -> Pages]
    /\ mapped \in [Threads -> SUBSET (Pools \X Pages)]

FramesInit ==
    /\ Init
    /\ bits = [p \in Pools |-> {}]
    /\ at = [t \in Threads |-> "idle"]
    /\ pool = [t \in Threads |-> "kernel"]
    /\ found = [t \in Threads |-> 0]
    /\ mapped = [t \in Threads |-> {}]

Go(t, place) == at' = [at EXCEPT ![t] = place]
In(t, place) == Calls(t) /\ at[t] = place

\* The pool a thread's call is about, and its lock.
Pool(t) == IF t \in KernelThreads THEN "kernel" ELSE "user"
PoolLock(t) == IF t \in KernelThreads THEN KLock ELSE ULock

-----------------------------------------------------------------------------
\* get_kernel_pages, get_a_page, or sys_malloc of a page.
GetPage(t) ==
    /\ at[t] = "idle"
    /\ t \in Processes /\ intr[t] => mapped[t] = {}
    /\ LockAcquire(t, PoolLock(t))
    /\ pool' = [pool EXCEPT ![t] = Pool(t)]
    /\ Go(t, "scan")
    /\ UNCHANGED <<bits, found, mapped>>

\* palloc: bitmap_scan for the first free page.  In a full pool its ASSERT
\* fails, and panic_spin loops with interrupts disabled.
Scan(t) ==
    LET free == Pages \ bits[pool[t]] IN
    /\ at[t] = "scan"
    /\ IF free = {}
       THEN Cli(t) /\ Go(t, "panic") /\ UNCHANGED found
       ELSE /\ Calls(t) /\ UNCHANGED vars
            /\ found' = [found EXCEPT ![t] = Min(free)]
            /\ Go(t, "set")
    /\ UNCHANGED <<bits, pool, mapped>>

\* palloc: bitmap_set.
SetBit(t) ==
    /\ In(t, "set")
    /\ bits' = [bits EXCEPT ![pool[t]] = @ \cup {found[t]}]
    /\ mapped' = [mapped EXCEPT ![t] = @ \cup {<<pool[t], found[t]>>}]
    /\ Go(t, "map")
    /\ UNCHANGED <<vars, pool, found>>

\* page_table_add: the page table exists, or a page of the kernel pool
\* becomes the page table first.  The kernel's own page tables exist.
PageTableAdd(t) ==
    /\ In(t, "map")
    /\ \/ Go(t, "unlock") /\ UNCHANGED pool
       \/ /\ pool[t] = "user"
          /\ pool' = [pool EXCEPT ![t] = "kernel"]
          /\ Go(t, "scan")
    /\ UNCHANGED <<vars, bits, found, mapped>>

\* sys_free of a page: lock_acquire, then mfree_page.
FreePage(t) ==
    /\ at[t] = "idle"
    /\ t \in Processes => ~intr[t]
    /\ \E p \in Pages :
          /\ <<Pool(t), p>> \in mapped[t]
          /\ found' = [found EXCEPT ![t] = p]
    /\ LockAcquire(t, PoolLock(t))
    /\ Go(t, "free")
    /\ UNCHANGED <<bits, pool, mapped>>

\* pfree: the page is free in the bitmap while its entry still maps it.
ClearBit(t) ==
    /\ In(t, "free")
    /\ bits' = [bits EXCEPT ![Pool(t)] = @ \ {found[t]}]
    /\ Go(t, "unmap")
    /\ UNCHANGED <<vars, pool, found, mapped>>

\* page_table_pte_remove and vaddr_remove.
Unmap(t) ==
    /\ In(t, "unmap")
    /\ mapped' = [mapped EXCEPT ![t] = @ \ {<<Pool(t), found[t]>>}]
    /\ Go(t, "unlock")
    /\ UNCHANGED <<vars, bits, pool, found>>

Unlock(t) ==
    /\ at[t] = "unlock"
    /\ LockRelease(t, PoolLock(t))
    /\ Go(t, "idle")
    /\ UNCHANGED <<bits, pool, found, mapped>>

\* main enables interrupts at the end of the boot and starts the others; a
\* process enters and leaves a system call.
Outside(t) ==
    /\ at[t] = "idle"
    /\ Sti(t) \/ (t \in Processes /\ Cli(t)) \/ (t = Main /\ \E p \in Threads : Start(t, p))
    /\ UNCHANGED framesVars

SystemStep ==
    /\ (\E t \in Threads : Library(t)) \/ Park(Idle) \/ Halt \/ Tick
    /\ UNCHANGED framesVars

FramesNext ==
    \/ \E t \in KernelThreads \cup Processes :
          \/ GetPage(t) \/ Scan(t) \/ SetBit(t) \/ PageTableAdd(t)
          \/ FreePage(t) \/ ClearBit(t) \/ Unmap(t) \/ Unlock(t)
    \/ \E t \in Threads : Outside(t)
    \/ SystemStep

FramesSpec == FramesInit /\ [][FramesNext]_allVars

-----------------------------------------------------------------------------
\* The comment at memory.c:116 asks for an atomic scan and set of the bitmap:
\* a physical page is never in two page tables, or twice in one.
PagesOnce ==
    \A t, u \in Threads : t # u => mapped[t] \cap mapped[u] = {}
=============================================================================
