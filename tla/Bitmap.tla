------------------------------- MODULE Bitmap -------------------------------
(***************************************************************************)
(* bitmap_scan of lib/kernel/bitmap.c, step by step, and what it returns:  *)
(* the first run of clear bits (Runs), where the bit that follows the      *)
(* bitmap in memory counts as one of its bits.  The bits are those of the  *)
(* module that instantiates this one.                                      *)
(***************************************************************************)
EXTENDS FiniteSetsExt, Integers

CONSTANTS
    ByteBits,   \* bits of a byte: 8 in the code
    BitCount,   \* btmp_bytes_len * 8
    bits        \* the bits that are set, BitCount standing for the one after

BitsInMap == 0..BitCount - 1

-----------------------------------------------------------------------------
\* The bytes that are not full; the ASSERT demands one.
OpenBytes ==
    {b \in 0..(BitCount \div ByteBits) - 1 :
        \E i \in b * ByteBits..(b + 1) * ByteBits - 1 : i \notin bits}

\* The first clear bit of the first such byte.
FirstClear ==
    LET b == Min(OpenBytes)
    IN  Min({i \in b * ByteBits..(b + 1) * ByteBits - 1 : i \notin bits})

\* count, after k rounds of the loop.
Count[k \in 0..BitCount] ==
    IF k = 0 THEN 1
    ELSE IF FirstClear + k \in bits THEN 0
    ELSE Count[k - 1] + 1

\* The rounds, bit_left of them, that find cnt clear bits in a row.
Found(cnt) == {k \in 1..BitCount - FirstClear : Count[k] = cnt}

\* Variant: `next_bit - cnt' for `next_bit - cnt + 1'.
ScanEarly(cnt) ==
    IF cnt = 1 THEN FirstClear
    ELSE IF Found(cnt) = {} THEN -1
    ELSE FirstClear + Min(Found(cnt)) - cnt

\* What bitmap_scan returns.
Scan(cnt) ==
    IF cnt = 1 THEN FirstClear
    ELSE IF Found(cnt) = {} THEN -1
    ELSE FirstClear + Min(Found(cnt)) - cnt + 1

-----------------------------------------------------------------------------
\* Where a run of n clear bits starts.  With n > 1 the bit after the bitmap
\* may be the last of the run.
Runs(n) ==
    {p \in BitsInMap :
        /\ p + n <= IF n = 1 THEN BitCount ELSE BitCount + 1
        /\ (p..p + n - 1) \cap bits = {}}

\* A full bitmap: the ASSERT of bitmap_scan fails.
Full == BitsInMap \subseteq bits

-----------------------------------------------------------------------------
\* bitmap_scan returns the start of the first run of cnt clear bits, -1
\* exactly when there is none, and its ASSERT fails exactly when every bit is
\* set, whatever the earlier allocations have left behind.
ScanFindsFirstRun ==
    /\ OpenBytes = {} <=> Full
    /\ ~Full => \A cnt \in 1..BitCount :
          Scan(cnt) = IF Runs(cnt) = {} THEN -1 ELSE Min(Runs(cnt))
=============================================================================
