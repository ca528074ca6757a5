------------------------------ MODULE MCMemory ------------------------------
(***************************************************************************)
(* A small instance of Memory for TLC.  The heap has pages of 6 units, a   *)
(* header of 1 unit and blocks of 2 and 3 units (2 and 1 in an arena), so  *)
(* that a request of 5 units takes a page of its own and one of 6 units    *)
(* two pages.  Machines have pages of 2 bytes, a megabyte of 3 bytes, and  *)
(* registers of 8 bits, one for the number of pages of 4 bits.             *)
(***************************************************************************)
EXTENDS Memory

MCBlockSizes == <<2, 3>>
MCRequests == {1, 3, 5, 6}

\* Firmware of a machine with memory up to top (and with the hole for the BIOS
\* before the fourth byte): flash at 2^32 - 16, devices above 2 GB.
Areas(top) ==
    <<[base |-> 0, length |-> 2], [base |-> 3, length |-> top - 3],
      [base |-> 200, length |-> 20], [base |-> 240, length |-> 16]>>
Machine(top, e820, e801) ==
    [usable |-> 0..top - 1,
     e820 |-> IF e820 THEN Areas(top) ELSE <<>>,
     e801 |-> IF e801 THEN <<[ax |-> IF top > 18 THEN 15 ELSE top - 3,
                              bx |-> IF top > 18 THEN (top - 18) \div 4 ELSE 0]>>
              ELSE <<>>,
     h88 |-> IF top > 64 THEN <<61>> ELSE <<top - 3>>]

\* One machine with room for the heap of the run; less and more memory than it
\* has; more pages than 4 bits count; an area that ends above 2 GB; no answer.
MCMachines ==
    {Machine(24, TRUE, TRUE)}
    \cup {Machine(top, e820, e801) :
            top \in {7, 10, 16, 17, 18, 19, 34, 36, 37, 38, 40, 68, 70},
            e820 \in BOOLEAN, e801 \in BOOLEAN}
    \cup {Machine(200, TRUE, FALSE), [Machine(24, FALSE, FALSE) EXCEPT !.h88 = <<>>]}
=============================================================================
