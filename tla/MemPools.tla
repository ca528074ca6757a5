------------------------------ MODULE MemPools ------------------------------
(***************************************************************************)
(* How the kernel learns the size of the memory (boot/loader.S) and lays   *)
(* out its pools and their bitmaps (mem_pool_init, kernel/memory.c).  The  *)
(* registers are as wide as in the code, up to the constants.              *)
(***************************************************************************)
EXTENDS SequencesExt, Integers

CONSTANTS
    Machines,       \* what the BIOS may answer, and the usable addresses
    Word,           \* 2^32: a register
    PagesWord,      \* 2^16: all_free_pages is a uint16_t
    PageBytes,      \* PG_SIZE
    ByteBits,       \* bits in a byte: 8
    UsedPages,      \* the low megabyte, the page directory and 255 tables: 512
    BitmapRoom,     \* bytes from MEM_BITMAP_BASE to main's task_struct: 0x4000
    Kilo, Chunk, Low    \* 1024, 64 KB and 1 MB

VARIABLES
    machine,            \* the machine the kernel is started on
    total_mem_bytes,
    pools,              \* kernel_pool, user_pool and kernel_vaddr
    boot                \* the next step of the boot, "done", or "hlt"

bootVars == <<machine, total_mem_bytes, pools, boot>>

\* Answers are sequences; that of the areas has several members.
Fails == <<>>           \* the carry flag is set after int 0x15

BootInit ==
    /\ machine \in Machines
    /\ total_mem_bytes = 0
    /\ pools = <<>>
    /\ boot = "e820"

-----------------------------------------------------------------------------
Signed(n) == IF n >= Word \div 2 THEN n - Word ELSE n

\* The loop's jge compares signed numbers.
Higher(end, max) == Signed(end) > Signed(max)

\* The largest end of an area: .find_max_mem_area.
LargestEnd(areas) ==
    FoldLeft(LAMBDA max, area :
                LET end == (area.base + area.length) % Word
                IN  IF Higher(end, max) THEN end ELSE max,
             0, areas)

TryE820 ==
    /\ boot = "e820"
    /\ IF machine.e820 = Fails
       THEN boot' = "e801" /\ UNCHANGED total_mem_bytes
       ELSE boot' = "mem_init" /\ total_mem_bytes' = LargestEnd(machine.e820)
    /\ UNCHANGED <<machine, pools>>

TryE801 ==
    /\ boot = "e801"
    /\ IF machine.e801 = Fails
       THEN boot' = "88h" /\ UNCHANGED total_mem_bytes
       ELSE /\ boot' = "mem_init"
            /\ total_mem_bytes' =
                  (machine.e801[1].ax * Kilo + Low + machine.e801[1].bx * Chunk) % Word
    /\ UNCHANGED <<machine, pools>>

Try88 ==
    /\ boot = "88h"
    /\ IF machine.h88 = Fails
       THEN boot' = "hlt" /\ UNCHANGED total_mem_bytes
       ELSE boot' = "mem_init" /\ total_mem_bytes' = machine.h88[1] * Kilo + Low
    /\ UNCHANGED <<machine, pools>>

-----------------------------------------------------------------------------
\* Variant: all_free_pages is as wide as free_mem.
FreePagesWide(mem) == ((mem - UsedPages * PageBytes) % Word) \div PageBytes

\* all_free_pages; memory below what is used wraps around.
FreePages(mem) == (((mem - UsedPages * PageBytes) % Word) \div PageBytes) % PagesWord
KernelPages(mem) == FreePages(mem) \div 2
UserPages(mem) == FreePages(mem) - KernelPages(mem)

\* A pool has as many pages as its bitmap has bits; a remainder is lost.
Pool(start, pages, map) ==
    [start |-> start, map |-> map, bytes |-> pages \div ByteBits]

\* mem_pool_init: addresses of bitmaps count from MEM_BITMAP_BASE, those of
\* kernel_vaddr from K_HEAP_START.
MemInit ==
    LET used == UsedPages * PageBytes
        kernel == KernelPages(total_mem_bytes)
        kbm_length == kernel \div ByteBits
        ubm_length == UserPages(total_mem_bytes) \div ByteBits
    IN  /\ boot = "mem_init"
        /\ pools' = [kernel |-> Pool(used, kernel, 0),
                     user |-> Pool(used + kernel * PageBytes, UserPages(total_mem_bytes),
                                   kbm_length),
                     vaddr |-> Pool(0, kernel, kbm_length + ubm_length)]
        /\ boot' = "done"
        /\ UNCHANGED <<machine, total_mem_bytes>>

BootNext == TryE820 \/ TryE801 \/ Try88 \/ MemInit

-----------------------------------------------------------------------------
Bits(pool) == pool.bytes * ByteBits
Addresses(pool) == pool.start..pool.start + Bits(pool) * PageBytes - 1
Map(pool) == pool.map..pool.map + pool.bytes - 1
Overlap(S, T) == S \cap T # {}

\* Whatever the BIOS reports, the pages of the two pools are memory that nobody
\* uses, no page is in both, a virtual page of the kernel can have a page, and
\* the three bitmaps share no byte and end below main's task_struct: the comment
\* at memory.c:303 fears for that, and a machine with more memory than 2^16
\* pages would break it if the number of pages did not wrap.
PoolsFit ==
    boot = "done" =>
        /\ \A p \in {"kernel", "user"} :
              Addresses(pools[p]) \subseteq
                 machine.usable \ (0..UsedPages * PageBytes - 1)
        /\ ~Overlap(Addresses(pools.kernel), Addresses(pools.user))
        /\ pools.vaddr.bytes = pools.kernel.bytes
        /\ \A p, q \in DOMAIN pools :
              /\ p # q => ~Overlap(Map(pools[p]), Map(pools[q]))
              /\ pools[p].map + pools[p].bytes <= BitmapRoom
=============================================================================
