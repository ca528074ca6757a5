------------------------------- MODULE Memory -------------------------------
(***************************************************************************)
(* The kernel's memory from the BIOS's answer to the heap: Arena works on  *)
(* the virtual addresses and pages that MemPools has laid out.             *)
(***************************************************************************)
EXTENDS Arena

CONSTANTS Machines, Word, PagesWord, PageBytes, UsedPages, BitmapRoom, Kilo, Chunk, Low

ASSUME MemoryAssumption ==
    /\ \A n \in {Word, PagesWord, PageBytes, MapByteBits} : n \in Nat \ {0}
    /\ Word % 2 = 0
    /\ \A n \in {UsedPages, BitmapRoom, Kilo, Chunk, Low} : n \in Nat

VARIABLES machine, total_mem_bytes, pools, boot

P == INSTANCE MemPools WITH ByteBits <- MapByteBits

\* The size that the loader takes from the first answer it gets.
Answers(m) == m.e820 # P!Fails \/ m.e801 # P!Fails \/ m.h88 # P!Fails
Reported(m) ==
    IF m.e820 # P!Fails THEN P!LargestEnd(m.e820)
    ELSE IF m.e801 # P!Fails
         THEN (m.e801[1].ax * Kilo + Low + m.e801[1].bx * Chunk) % Word
    ELSE m.h88[1] * Kilo + Low

\* Firmware reports no memory that is not there, from the end of what the kernel
\* uses on, or the machine has more than PagesWord pages anyway.
ASSUME MachinesAssumption ==
    \A m \in Machines : Answers(m) =>
        LET used == UsedPages * PageBytes
        IN  /\ Reported(m) \in 0..Word - 1
            /\ \/ Reported(m) >= used /\ used..Reported(m) - 1 \subseteq m.usable
               \/ used..used + PagesWord * PageBytes - 1 \subseteq m.usable

\* The bitmaps of the most pages that can be counted end in their room.
ASSUME RoomForMaps == 3 * PagesWord <= 2 * MapByteBits * BitmapRoom

bootVars == <<machine, total_mem_bytes, pools, boot>>

\* bound: the heap is used on machines whose kernel pool has PageCount pages.
Ready == boot = "done" /\ P!Bits(pools.vaddr) = PageCount

MemoryInit == Init /\ P!BootInit

MemoryNext ==
    \/ P!BootNext /\ UNCHANGED vars
    \/ Ready /\ Next /\ UNCHANGED bootVars

MemorySpec == MemoryInit /\ [][MemoryNext]_<<vars, bootVars>>

PoolsFit == P!PoolsFit
=============================================================================
