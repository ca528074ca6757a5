---------------------------- MODULE Volume_proofs ----------------------------
(***************************************************************************)
(* Proofs about Volume: what file_write puts into the blocks of a file is  *)
(* what file_read finds, whatever blocks were free, and the scan and the   *)
(* formatting of a disk of any number of partitions.                       *)
(***************************************************************************)
EXTENDS Volume, Numbers, FiniteSetTheorems, SequenceTheorems

\* file_write loses blocks of a file that outgrows its direct blocks (see the run
\* file_indirect), so the theorems are about files that do not.
DirectOnly == MaxSize < Direct * BlockSize

\* fd_pos + count does not wrap around 2^32: file_read would take the
\* sum for an offset inside the file.
CountsFit == \A count \in Counts : MaxSize + count < Word

-----------------------------------------------------------------------------
(* block_bitmap_alloc.                                                     *)

FreeBlocks(T) == DataBlocks \ T
Below(T, m) == {c \in FreeBlocks(T) : c <= m}

LEMMA BelowFacts ==
    ASSUME NEW T, NEW m \in Nat
    PROVE  /\ IsFiniteSet(FreeBlocks(T)) /\ IsFiniteSet(Below(T, m))
           /\ Cardinality(Below(T, m)) \in Nat
           /\ Cardinality(FreeBlocks(T)) \in Nat
<1>1. IsFiniteSet(DataBlocks)
  BY FileBlocksAssumption, FS_Interval DEF DataBlocks
<1>2. FreeBlocks(T) \subseteq DataBlocks /\ Below(T, m) \subseteq DataBlocks
  BY DEF FreeBlocks, Below
<1> QED
  BY <1>1, <1>2, FS_Subset, FS_CardinalityType

\* From one block to the next there is one more free block or none.
LEMMA BelowNext ==
    ASSUME NEW T, NEW m \in Nat \ {0}
    PROVE  Cardinality(Below(T, m)) =
              Cardinality(Below(T, m - 1)) + (IF m \in FreeBlocks(T) THEN 1 ELSE 0)
<1>1. m - 1 \in Nat /\ IsFiniteSet(Below(T, m - 1))
  BY BelowFacts
<1>2. FreeBlocks(T) \subseteq Nat
  BY FileBlocksAssumption DEF FreeBlocks, DataBlocks
<1>3. CASE m \in FreeBlocks(T)
  <2>1. Below(T, m) = Below(T, m - 1) \cup {m} /\ m \notin Below(T, m - 1)
    BY <1>2, <1>3 DEF Below
  <2> QED
    BY <1>1, <1>3, <2>1, FS_AddElement
<1>4. CASE m \notin FreeBlocks(T)
  <2>1. Below(T, m) = Below(T, m - 1)
    BY <1>2, <1>4 DEF Below
  <2> QED
    BY <1>1, <1>4, <2>1, BelowFacts
<1> QED
  BY <1>3, <1>4

\* As long as there are enough free blocks the kth call finds one.
LEMMA NthFreeLemma ==
    ASSUME NEW T, NEW k \in Nat \ {0}, k <= Cardinality(FreeBlocks(T))
    PROVE  /\ NthFree(T, k) \in FreeBlocks(T)
           /\ Cardinality(Below(T, NthFree(T, k))) = k
<1> DEFINE Enough == {m \in Nat : Cardinality(Below(T, m)) >= k}
<1>1. LastBlock \in Enough
  <2>1. Below(T, LastBlock) = FreeBlocks(T) /\ LastBlock \in Nat
    BY FileBlocksAssumption DEF Below, FreeBlocks, DataBlocks
  <2> QED
    BY <2>1, BelowFacts
<1>2. PICK m \in Enough : \A n \in Enough : m <= n
  <2>1. Enough \subseteq Nat /\ Enough # {}
    BY <1>1
  <2> HIDE DEF Enough
  <2> QED
    BY <2>1, LeastNat
<1>3. m \in Nat \ {0}
  <2>1. Below(T, 0) = {}
    BY FileBlocksAssumption DEF Below, FreeBlocks, DataBlocks
  <2>2. Cardinality(Below(T, 0)) = 0
    BY <2>1, FS_EmptySet
  <2> QED
    BY <1>2, <2>2
<1>4. Cardinality(Below(T, m - 1)) < k
  <2>1. m - 1 \notin Enough
    BY <1>2, <1>3
  <2> QED
    BY <1>3, <2>1, BelowFacts
<1>5. m \in FreeBlocks(T) /\ Cardinality(Below(T, m)) = k
  <2>1. Cardinality(Below(T, m)) >= k /\ m - 1 \in Nat
    BY <1>2, <1>3
  <2>2. Cardinality(Below(T, m)) \in Nat /\ Cardinality(Below(T, m - 1)) \in Nat
    BY <1>3, BelowFacts
  <2> QED
    BY <1>3, <1>4, <2>1, <2>2, BelowNext
<1>6. \E b \in FreeBlocks(T) : Cardinality({c \in FreeBlocks(T) : c <= b}) = k
  BY <1>5 DEF Below
<1> QED
  BY <1>6 DEF NthFree, FreeBlocks, Below

LEMMA NthFreeOnce ==
    ASSUME NEW T, NEW k \in Nat \ {0}, NEW l \in Nat \ {0},
           k <= Cardinality(FreeBlocks(T)), l <= Cardinality(FreeBlocks(T)),
           NthFree(T, k) = NthFree(T, l)
    PROVE  k = l
  BY NthFreeLemma

-----------------------------------------------------------------------------
(* The blocks of a file.                                                   *)

\* The blocks that a file of size z with i_sectors s has in use: the first ones.
UsedIn(z, s) == IF s[0] = Nil THEN 0 ELSE UsedBlocks(z)

\* What holds of a file of size z with i_sectors s when the bitmap marks T and
\* the sectors hold D: its blocks are marked and different, each byte is where
\* file_read looks for it, and no other sector was written.
BlocksFit(z, s, T) ==
    /\ z \in 0..MaxSize /\ s \in Sectors
    /\ T \subseteq DataBlocks /\ 1 \in T
    /\ s[0] = Nil => z = 0
    /\ \A i \in 0..Direct :
          IF i < UsedIn(z, s) THEN s[i] \in T \ {1} ELSE s[i] = Nil
    /\ \A i, j \in 0..Direct :
          i < UsedIn(z, s) /\ j < UsedIn(z, s) /\ s[i] = s[j] => i = j

BytesIn(z, s, D) == \A o \in 0..z - 1 : D[s[o \div BlockSize]][o % BlockSize] = o

Untouched(z, s, D) ==
    \A b \in {Nil} \cup DataBlocks :
        (\A i \in 0..Direct : i < UsedIn(z, s) => s[i] # b)
            => D[b] = [o \in Offsets |-> OldByte]

Sound(z, s, T, D) ==
    /\ BlocksFit(z, s, T)
    /\ DOMAIN D = {Nil} \cup DataBlocks
    /\ BytesIn(z, s, D)
    /\ Untouched(z, s, D)

LEMMA UsedFacts ==
    ASSUME DirectOnly, NEW z \in 0..MaxSize
    PROVE  /\ UsedBlocks(z) \in 1..Direct
           /\ z \div BlockSize \in 0..Direct - 1
           /\ UsedBlocks(z) = z \div BlockSize + 1
<1>1. z \in Nat /\ BlockSize \in Nat /\ BlockSize > 0 /\ Direct \in Nat \ {0}
      /\ z < Direct * BlockSize
  BY FileBlocksAssumption DEF DirectOnly
<1>2. z \div BlockSize < Direct /\ z \div BlockSize \in Nat
  BY <1>1, DivBounds, DivMod
<1> QED
  BY <1>1, <1>2 DEF UsedBlocks

LEMMA DivMono ==
    ASSUME NEW m \in Nat, NEW n \in Nat, m <= n
    PROVE  m \div BlockSize <= n \div BlockSize
<1>1. BlockSize \in Nat /\ BlockSize > 0
  BY FileBlocksAssumption
<1> QED
  BY <1>1, DivMonotone

\* file_write within the direct blocks: what i_sectors has afterwards.
LEMMA NewSectorsLemma ==
    ASSUME DirectOnly, NEW z \in 0..MaxSize, NEW c \in Nat \ {0}, z + c <= MaxSize,
           NEW s, NEW T, BlocksFit(z, s, T)
    PROVE  /\ Needed(s, z, c) = UsedBlocks(z + c) - UsedIn(z, s)
           /\ UsedBlocks(z + c) \in 1..Direct
           /\ UsedIn(z, s) \in 0..UsedBlocks(z + c)
           /\ \A i \in 0..Direct :
                 NewSectors(s, z, c, T)[i] =
                    IF i < UsedIn(z, s) THEN s[i]
                    ELSE IF i < UsedBlocks(z + c) THEN NthFree(T, i - UsedIn(z, s) + 1)
                    ELSE Nil
<1> DEFINE m == UsedBlocks(z)
           n == UsedBlocks(z + c)
           u == UsedIn(z, s)
<1>1. z + c \in 0..MaxSize /\ MaxSize \in Nat /\ Direct \in Nat \ {0}
  BY FileBlocksAssumption
<1>2. m \in 1..Direct /\ n \in 1..Direct /\ m <= n
  BY <1>1, UsedFacts, DivMono
<1>3. ~NeedsTable(z, c)
  BY <1>1, <1>2 DEF NeedsTable
<1>4. s[0] = Nil => m = 1
  <2>1. UsedBlocks(0) = 1
    BY FileBlocksAssumption DEF UsedBlocks
  <2> QED
    BY <2>1 DEF BlocksFit
<1>5. u = IF s[0] = Nil THEN 0 ELSE m
  BY DEF UsedIn
<1>6. \A i \in 0..Direct : i >= u => s[i] = Nil
  BY <1>2, <1>5 DEF BlocksFit
<1> DEFINE first == IF s[0] = Nil THEN 1 ELSE 0
<1>7. ASSUME NEW i \in 0..Direct
      PROVE  NewSectors(s, z, c, T)[i] =
                IF i = Direct THEN s[i]
                ELSE IF i \in m..n - 1 THEN NthFree(T, first + i - m + 1)
                ELSE IF i = 0 /\ first = 1 THEN NthFree(T, 1)
                ELSE s[i]
  <2>1. NewBlock(s, z, c, T, i) = NthFree(T, first + 0 + i - m + 1)
    BY <1>3 DEF NewBlock
  <2>2. first + 0 + i - m + 1 = first + i - m + 1
    BY <1>2
  <2> QED
    BY <1>3, <2>1, <2>2 DEF NewSectors
<1>8. Needed(s, z, c) = n - u
  BY <1>2, <1>3, <1>4, <1>5 DEF Needed
<1> HIDE DEF m, n, u
<1>10. u \in 0..n
  BY <1>2, <1>5
<1>9. ASSUME NEW i \in 0..Direct
      PROVE  NewSectors(s, z, c, T)[i] =
                IF i < u THEN s[i] ELSE IF i < n THEN NthFree(T, i - u + 1) ELSE Nil
  <2>1. CASE i < u
    BY <1>1, <1>2, <1>5, <1>7, <2>1
  <2>2. CASE i >= u /\ i < n
    <3>1. CASE s[0] = Nil
      <4>1. first = 1 /\ u = 0 /\ m = 1
        BY <1>4, <1>5, <3>1
      <4>2. i = 0 => i \notin m..n - 1 /\ i - u + 1 = 1
        BY <1>2, <4>1
      <4>3. i # 0 => i \in m..n - 1 /\ first + i - m + 1 = i - u + 1
        BY <1>2, <2>2, <4>1
      <4>4. i # Direct
        BY <1>1, <1>2, <2>2
      <4> HIDE DEF first
      <4> QED
        BY <1>7, <2>2, <4>1, <4>2, <4>3, <4>4
    <3>2. CASE s[0] # Nil
      <4>1. first = 0 /\ u = m
        BY <1>5, <3>2
      <4>2. i \in m..n - 1 /\ first + i - m + 1 = i - u + 1 /\ i # Direct
        BY <1>1, <1>2, <2>2, <4>1
      <4> HIDE DEF first
      <4> QED
        BY <1>2, <1>7, <1>10, <2>2, <4>1, <4>2
    <3> QED
      BY <3>1, <3>2
  <2>3. CASE i >= u /\ i >= n
    <3>1. i # 0 /\ i \notin m..n - 1
      BY <1>2, <2>3
    <3>2. s[i] = Nil /\ ~(i < u) /\ ~(i < n)
      BY <1>2, <1>6, <1>10, <2>3
    <3> HIDE DEF first
    <3> QED
      BY <1>7, <3>1, <3>2
  <2> QED
    BY <1>2, <1>5, <2>1, <2>2, <2>3
<1> QED
  BY <1>2, <1>8, <1>9, <1>10 DEF n, u

\* The new blocks were free, and each comes once.
LEMMA NewBlocksFit ==
    ASSUME DirectOnly, NEW z \in 0..MaxSize, NEW c \in Nat \ {0}, z + c <= MaxSize,
           NEW s, NEW T, BlocksFit(z, s, T),
           Needed(s, z, c) <= Cardinality(DataBlocks \ T)
    PROVE  /\ BlocksFit(z + c, NewSectors(s, z, c, T), NewTaken(s, z, c, T))
           /\ UsedIn(z + c, NewSectors(s, z, c, T)) = UsedBlocks(z + c)
           /\ UsedIn(z, s) <= UsedBlocks(z + c)
           /\ \A i \in 0..Direct : i < UsedIn(z, s) => NewSectors(s, z, c, T)[i] = s[i]
<1> DEFINE n == UsedBlocks(z + c)
           u == UsedIn(z, s)
           w == NewSectors(s, z, c, T)
           U == NewTaken(s, z, c, T)
<1>1. z + c \in 0..MaxSize /\ MaxSize \in Nat /\ Direct \in Nat \ {0}
  BY FileBlocksAssumption
<1>2. /\ Needed(s, z, c) = n - u
      /\ n \in 1..Direct
      /\ u \in 0..n
      /\ \A i \in 0..Direct :
            w[i] = IF i < u THEN s[i] ELSE IF i < n THEN NthFree(T, i - u + 1) ELSE Nil
  BY NewSectorsLemma
<1>3. /\ T \subseteq DataBlocks /\ 1 \in T
      /\ \A i \in 0..Direct : i < u => s[i] \in T \ {1}
      /\ \A i, j \in 0..Direct : i < u /\ j < u /\ s[i] = s[j] => i = j
  BY DEF BlocksFit
<1>4. w = [i \in 0..Direct |-> w[i]]
  BY DEF NewSectors
<1>5. U = T \cup {NthFree(T, k) : k \in 1..n - u}
  BY <1>2 DEF NewTaken
<1>6. Nil \notin DataBlocks
  BY FileBlocksAssumption DEF Nil, DataBlocks
<1>7. n - u <= Cardinality(FreeBlocks(T)) /\ Cardinality(FreeBlocks(T)) \in Nat
  BY <1>2, BelowFacts DEF FreeBlocks
<1> HIDE DEF n, u, w, U
<1>8. ASSUME NEW i \in 0..Direct, u <= i, i < n
      PROVE  /\ i - u + 1 \in 1..n - u
             /\ w[i] = NthFree(T, i - u + 1)
             /\ w[i] \in FreeBlocks(T)
             /\ w[i] \in U
  <2>1. i - u + 1 \in Nat \ {0} /\ i - u + 1 \in 1..n - u
    BY <1>2, <1>8
  <2>2. i - u + 1 <= Cardinality(FreeBlocks(T))
    BY <1>2, <1>7, <2>1
  <2>3. w[i] = NthFree(T, i - u + 1)
    BY <1>2, <1>8
  <2> QED
    BY <1>5, <2>1, <2>2, <2>3, NthFreeLemma
<1>9. ASSUME NEW i \in 0..Direct, NEW j \in 0..Direct, u <= i, i < n, u <= j, j < n, w[i] = w[j]
      PROVE  i = j
  <2>1. /\ i - u + 1 \in Nat \ {0} /\ j - u + 1 \in Nat \ {0}
        /\ i - u + 1 <= Cardinality(FreeBlocks(T)) /\ j - u + 1 <= Cardinality(FreeBlocks(T))
    BY <1>2, <1>7, <1>9
  <2>2. NthFree(T, i - u + 1) = NthFree(T, j - u + 1)
    BY <1>8, <1>9
  <2>3. i - u + 1 = j - u + 1
    BY <2>1, <2>2, NthFreeOnce
  <2> QED
    BY <1>2, <2>3
<1>10. U \subseteq DataBlocks /\ 1 \in U /\ T \subseteq U
  <2>1. ASSUME NEW k \in 1..n - u
        PROVE  NthFree(T, k) \in DataBlocks
    <3>1. k \in Nat \ {0} /\ k <= Cardinality(FreeBlocks(T))
      BY <1>2, <1>7
    <3> QED
      BY <3>1, NthFreeLemma DEF FreeBlocks
  <2> QED
    BY <1>3, <1>5, <2>1
<1>11. ASSUME NEW i \in 0..Direct
       PROVE  IF i < n THEN w[i] \in U \ {1} ELSE w[i] = Nil
  <2>1. CASE i < u
    BY <1>2, <1>3, <1>10, <2>1
  <2>2. CASE u <= i /\ i < n
    BY <1>3, <1>8, <2>2 DEF FreeBlocks
  <2>3. CASE n <= i
    BY <1>2, <2>3
  <2> QED
    BY <1>2, <2>1, <2>2, <2>3
<1>12. ASSUME NEW i \in 0..Direct, NEW j \in 0..Direct, i < n, j < n, w[i] = w[j]
       PROVE  i = j
  <2>1. CASE i < u /\ j < u
    BY <1>2, <1>3, <1>12, <2>1
  <2>2. CASE u <= i /\ u <= j
    BY <1>9, <1>12, <2>2
  <2>3. CASE i < u /\ u <= j
    BY <1>2, <1>3, <1>8, <1>12, <2>3 DEF FreeBlocks
  <2>4. CASE u <= i /\ j < u
    BY <1>2, <1>3, <1>8, <1>12, <2>4 DEF FreeBlocks
  <2> QED
    BY <1>2, <2>1, <2>2, <2>3, <2>4
<1>13. w \in Sectors
  BY <1>4, <1>10, <1>11 DEF Sectors
<1>14. w[0] # Nil
  BY <1>1, <1>2, <1>6, <1>10, <1>11
<1>15. UsedIn(z + c, w) = n
  BY <1>14 DEF UsedIn, n
<1>16. BlocksFit(z + c, w, U)
  BY <1>1, <1>10, <1>11, <1>12, <1>13, <1>14, <1>15 DEF BlocksFit
<1>17. \A i \in 0..Direct : i < u => w[i] = s[i]
  BY <1>2
<1> QED
  BY <1>2, <1>15, <1>16, <1>17 DEF n, u, w, U

-----------------------------------------------------------------------------
(* The bytes of a file.                                                    *)

FileInv ==
    /\ Sound(size, sectors, taken, disk)
    /\ pos \in 0..size \cup {Word - 1}
    /\ ReadsBack

LEMMA MaxSingle ==
    ASSUME NEW i \in Nat
    PROVE  Max({i}) = i
  BY DEF Max

\* The loop of file_write that writes the sectors.
LEMMA WrittenSound ==
    ASSUME DirectOnly, Sound(size, sectors, taken, disk),
           NEW c \in Nat \ {0}, size + c <= MaxSize,
           NEW s, NEW t, NEW U, BlocksFit(size + c, s, U),
           UsedIn(size + c, s) = UsedBlocks(size + c),
           UsedIn(size, sectors) <= UsedBlocks(size + c),
           \A i \in 0..Direct : i < UsedIn(size, sectors) => s[i] = sectors[i]
    PROVE  Sound(size + c, s, U, Written(c, s, t))
<1> DEFINE first == size \div BlockSize
           last == (size + c - 1) \div BlockSize
           n == UsedBlocks(size + c)
           u == UsedIn(size, sectors)
           index == first..last
           E == Written(c, s, t)
           Here(b) == {i \in index : Block(s, t, i) = b}
           Byte(i, b, o) == LET at == i * BlockSize + o
                            IN  IF at \in size..size + c - 1 THEN at
                                ELSE IF i = first THEN disk[b][o]
                                ELSE ZeroByte
<1>1. /\ MaxSize \in Nat /\ Direct \in Nat \ {0} /\ BlockSize \in Nat /\ BlockSize > 0
      /\ size \in Nat /\ size \in 0..MaxSize /\ size + c \in 0..MaxSize
      /\ size + c - 1 \in Nat /\ size <= size + c - 1 /\ size + c - 1 <= size + c
  BY FileIoAssumption, FileBlocksAssumption DEF Sound, BlocksFit
<1>2. /\ n \in 1..Direct /\ n = (size + c) \div BlockSize + 1
      /\ first \in 0..Direct - 1 /\ UsedBlocks(size) = first + 1
  BY <1>1, UsedFacts
<1>3. last \in Nat /\ first <= last /\ last < n
  BY <1>1, <1>2, DivMono, DivMod
<1>4. u \in 0..n /\ (size > 0 => u = first + 1) /\ (u = 0 => size = 0)
  BY <1>1, <1>2 DEF UsedIn, Sound, BlocksFit
<1>5. \A i \in 0..Direct : i < u => s[i] = sectors[i]
  OBVIOUS
<1>6. /\ \A i \in 0..Direct : i < n => s[i] \in DataBlocks
      /\ \A i, j \in 0..Direct : i < n /\ j < n /\ s[i] = s[j] => i = j
  BY DEF BlocksFit
<1>7. DOMAIN disk = {Nil} \cup DataBlocks
  BY DEF Sound
<1>8. Nil \notin DataBlocks
  BY FileBlocksAssumption DEF Nil, DataBlocks
<1>9. ASSUME NEW b \in DOMAIN disk
      PROVE  E[b] = IF Here(b) = {} THEN disk[b]
                    ELSE [o \in Offsets |-> Byte(Max(Here(b)), b, o)]
  BY DEF Written
<1>10. DOMAIN E = {Nil} \cup DataBlocks
  BY <1>7 DEF Written
<1> HIDE DEF E, n, u, first, last
<1>11. \A i \in index : Block(s, t, i) = s[i] /\ i \in 0..Direct /\ i < n /\ i \in Nat
  BY <1>1, <1>2, <1>3 DEF Block
<1>12. ASSUME NEW i \in index
       PROVE  E[s[i]] = [o \in Offsets |-> Byte(i, s[i], o)]
  <2>1. Here(s[i]) = {i}
    BY <1>6, <1>11
  <2>2. i \in Nat /\ s[i] \in DOMAIN disk
    BY <1>6, <1>7, <1>11
  <2>3. Max(Here(s[i])) = i
    BY <2>1, <2>2, MaxSingle
  <2> HIDE DEF Byte
  <2> QED
    BY <1>9, <2>1, <2>2, <2>3
<1>13. ASSUME NEW b \in DOMAIN disk, \A i \in index : s[i] # b
       PROVE  E[b] = disk[b]
  <2>1. Here(b) = {}
    BY <1>11, <1>13
  <2> QED
    BY <1>9, <2>1
<1>14. ASSUME NEW o \in 0..(size + c) - 1
       PROVE  E[s[o \div BlockSize]][o % BlockSize] = o
  <2> DEFINE i == o \div BlockSize
             r == o % BlockSize
  <2>1. o \in Nat /\ i \in Nat /\ r \in 0..BlockSize - 1 /\ o = BlockSize * i + r
    BY <1>1, DivMod
  <2>2. i <= last
    BY <1>1, DivMono DEF last
  <2>3. o >= size => first <= i
    BY <1>1, DivMono DEF first
  <2>4. o < size => i <= first /\ disk[sectors[i]][r] = o /\ u = first + 1
    <3>1. o < size => i <= first
      BY <1>1, DivMono DEF first
    <3>2. BytesIn(size, sectors, disk) /\ (o < size => o \in 0..size - 1)
      BY <1>1 DEF Sound
    <3>3. o < size => disk[sectors[i]][r] = o
      BY <3>2, Zenon DEF BytesIn
    <3> QED
      BY <1>1, <1>4, <3>1, <3>3
  <2>5. i * BlockSize + r = o
    BY <1>1, <2>1
  <2> HIDE DEF i, r
  <2>6. i \in 0..Direct /\ i < n
    BY <1>1, <1>2, <1>3, <2>1, <2>2
  <2>7. o < size => s[i] = sectors[i]
    BY <1>2, <1>5, <2>4, <2>6
  <2>8. CASE i \in index
    <3>1. E[s[i]][r] = Byte(i, s[i], r)
      BY <1>12, <2>1, <2>8 DEF Offsets
    <3>2. o >= size => Byte(i, s[i], r) = o
      BY <1>1, <2>5
    <3>3. o < size => i = first
      BY <1>2, <1>3, <2>1, <2>4, <2>8
    <3>4. o < size => Byte(i, s[i], r) = disk[s[i]][r]
      BY <1>1, <2>5, <3>3
    <3> QED
      BY <1>1, <2>1, <2>4, <2>7, <3>1, <3>2, <3>4 DEF i, r
  <2>9. CASE i \notin index
    <3>1. o < size /\ i < first
      BY <1>1, <1>2, <1>3, <2>1, <2>2, <2>3, <2>9
    <3>2. \A j \in index : s[j] # s[i]
      BY <1>6, <1>11, <2>6, <2>9
    <3>3. E[s[i]] = disk[s[i]]
      BY <1>6, <1>7, <1>13, <2>6, <3>2
    <3> QED
      BY <2>4, <2>7, <3>1, <3>3 DEF i, r
  <2> QED
    BY <2>8, <2>9
<1>15. Untouched(size + c, s, E)
  <2> SUFFICES ASSUME NEW b \in {Nil} \cup DataBlocks,
                      \A i \in 0..Direct : i < n => s[i] # b
               PROVE  E[b] = [o \in Offsets |-> OldByte]
    BY DEF Untouched, n
  <2>1. E[b] = disk[b]
    BY <1>7, <1>11, <1>13
  <2>2. \A i \in 0..Direct : i < u => sectors[i] # b
    BY <1>2, <1>4, <1>5
  <2>3. Untouched(size, sectors, disk)
    BY DEF Sound
  <2> QED
    BY <2>1, <2>2, <2>3 DEF Untouched, u
<1>16. BytesIn(size + c, s, E)
  BY <1>14, Zenon DEF BytesIn
<1> QED
  BY <1>10, <1>15, <1>16 DEF Sound, E

\* The blocks that the file refers to are the first ones of i_sectors.
LEMMA OwnBlocks ==
    ASSUME DirectOnly, BlocksFit(size, sectors, taken)
    PROVE  /\ UsedIn(size, sectors) \in 0..Direct
           /\ sectors[Direct] = Nil
           /\ Own = {sectors[i] : i \in 0..UsedIn(size, sectors) - 1}
           /\ Own \subseteq taken \ {1}
<1> DEFINE u == UsedIn(size, sectors)
<1>1. Direct \in Nat \ {0} /\ Nil \notin DataBlocks
  BY FileBlocksAssumption DEF Nil, DataBlocks
<1>2. u \in 0..Direct
  BY <1>1, UsedFacts DEF BlocksFit, UsedIn
<1>3. /\ \A i \in 0..Direct : IF i < u THEN sectors[i] \in taken \ {1} ELSE sectors[i] = Nil
      /\ taken \subseteq DataBlocks
  BY DEF BlocksFit
<1> HIDE DEF u
<1>4. sectors[Direct] = Nil
  BY <1>1, <1>2, <1>3
<1>5. Own = {sectors[i] : i \in 0..Direct} \ {Nil}
  BY <1>4 DEF Own, Blocks
<1>6. Own = {sectors[i] : i \in 0..u - 1}
  BY <1>1, <1>2, <1>3, <1>5
<1>7. Own \subseteq taken \ {1}
  BY <1>1, <1>2, <1>3, <1>6
<1> QED
  BY <1>2, <1>4, <1>6, <1>7 DEF u

LEMMA OwnCounted ==
    ASSUME DirectOnly, BlocksFit(size, sectors, taken)
    PROVE  BlocksCounted
<1> DEFINE u == UsedIn(size, sectors)
<1>1. /\ u \in 0..Direct /\ Direct \in Nat
      /\ Own = {sectors[i] : i \in 0..u - 1}
      /\ Own \subseteq taken \ {1}
  BY OwnBlocks, FileBlocksAssumption
<1>2. \A i, j \in 0..u - 1 : sectors[i] = sectors[j] => i = j
  BY <1>1 DEF BlocksFit
<1>3. u = IF sectors[0] = Nil THEN 0 ELSE UsedBlocks(size)
  BY DEF UsedIn
<1> HIDE DEF u
<1> DEFINE f == [i \in 0..u - 1 |-> sectors[i]]
<1>4. f \in Bijection(0..u - 1, Own)
  <2>1. f \in [0..u - 1 -> Own]
    BY <1>1
  <2>2. \A i, j \in 0..u - 1 : f[i] = f[j] => i = j
    BY <1>2
  <2>3. \A b \in Own : \E i \in 0..u - 1 : f[i] = b
    BY <1>1
  <2> QED
    BY <2>1, <2>2, <2>3 DEF Bijection, Injection, Surjection, IsInjective
<1>5. ExistsBijection(0..u - 1, Own)
  BY <1>4 DEF ExistsBijection
<1>6. IsFiniteSet(0..u - 1) /\ Cardinality(0..u - 1) = u
  BY <1>1, FS_Interval
<1>7. Cardinality(Own) = u
  BY <1>5, <1>6, FS_Bijection
<1> QED
  BY <1>1, <1>3, <1>7 DEF BlocksCounted

LEMMA FilePropertiesHold ==
    ASSUME DirectOnly, FileInv
    PROVE  BytesKept /\ ReadsBack /\ BlocksCounted /\ OthersKept
<1> DEFINE u == UsedIn(size, sectors)
<1>1. /\ BlocksFit(size, sectors, taken) /\ DOMAIN disk = {Nil} \cup DataBlocks
      /\ BytesIn(size, sectors, disk) /\ Untouched(size, sectors, disk)
      /\ u \in 0..Direct /\ Direct \in Nat \ {0} /\ size \in 0..MaxSize
      /\ Own = {sectors[i] : i \in 0..u - 1}
  BY OwnBlocks, FileBlocksAssumption DEF FileInv, Sound, BlocksFit
<1>2. ASSUME NEW o \in 0..size - 1
      PROVE  /\ Block(sectors, table, o \div BlockSize) = sectors[o \div BlockSize]
             /\ sectors[o \div BlockSize] \in taken
  <2> DEFINE i == o \div BlockSize
  <2>1. size \in Nat /\ o \in Nat /\ o <= size /\ size # 0 /\ MaxSize \in Nat
    BY <1>1, FileBlocksAssumption
  <2>2. i \in Nat /\ i <= size \div BlockSize /\ size \div BlockSize \in Nat
    BY <2>1, DivMono, DivMod, FileBlocksAssumption
  <2>3. UsedBlocks(size) = size \div BlockSize + 1 /\ UsedBlocks(size) \in 1..Direct
    BY <1>1, UsedFacts
  <2>4. u = UsedBlocks(size)
    BY <1>1, <2>1 DEF UsedIn, BlocksFit
  <2> HIDE DEF i, u
  <2>5. i < u /\ i < Direct
    BY <1>1, <2>2, <2>3, <2>4
  <2>6. Block(sectors, table, i) = sectors[i]
    BY <2>5 DEF Block
  <2>7. sectors[i] \in taken
    BY <1>1, <2>2, <2>5 DEF BlocksFit, u
  <2> QED
    BY <2>6, <2>7 DEF i
<1>3. BytesKept
  BY <1>1, <1>2, Zenon DEF BytesKept, BytesIn
<1>4. OthersKept
  <2> SUFFICES ASSUME NEW b \in DOMAIN disk \ Own
               PROVE  disk[b] = [o \in Offsets |-> OldByte]
    BY DEF OthersKept
  <2>1. \A i \in 0..Direct : i < u => sectors[i] # b
    BY <1>1
  <2> QED
    BY <1>1, <2>1 DEF Untouched
<1> QED
  BY <1>1, <1>3, <1>4, OwnCounted DEF FileInv

LEMMA ModFacts ==
    ASSUME NEW w \in Nat, w > 0
    PROVE  /\ \A n \in 0..w - 1 : n % w = n
           /\ (0 - 1) % w = w - 1
<1>1. \A n \in 0..w - 1 : n % w = n
  <2> SUFFICES ASSUME NEW n \in 0..w - 1 PROVE n % w = n
    OBVIOUS
  <2>1. 0 * w + n = n
    OBVIOUS
  <2> QED
    BY <2>1, DivUnique
<1>2. (0 - 1) % w = w - 1
  OBVIOUS
<1> QED
  BY <1>1, <1>2

LEMMA WordFacts ==
    ASSUME DirectOnly
    PROVE  /\ Word \in Nat /\ MaxBlocks \in Nat /\ MaxBlocks > Direct
           /\ Word > (MaxBlocks + 1) * BlockSize
           /\ (MaxBlocks + 1) * BlockSize \in Nat
           /\ MaxSize < Direct * BlockSize
           /\ Word > MaxSize + 1 /\ MaxSize \in Nat
           /\ \A count \in Counts : count \in Nat \ {0}
<1>1. /\ Direct \in Nat \ {0} /\ TableLen \in Nat \ {0} /\ BlockSize \in Nat \ {0}
      /\ MaxSize \in Nat /\ Word \in Nat /\ Word > BlockSize * (MaxBlocks + 1)
  BY FileIoAssumption, FileBlocksAssumption
<1>2. MaxBlocks \in Nat /\ MaxBlocks > Direct
  BY <1>1 DEF MaxBlocks
<1>3. Direct * BlockSize <= BlockSize * (MaxBlocks + 1)
  <2>1. \A m, n, b \in Nat : m <= n => m * b <= b * n
    OBVIOUS
  <2> QED
    BY <1>1, <1>2, <2>1
<1>4. BlockSize * (MaxBlocks + 1) = (MaxBlocks + 1) * BlockSize
  BY <1>1, <1>2
<1>5. BlockSize * (MaxBlocks + 1) \in Nat
  BY <1>1, <1>2
<1>6. MaxSize < Direct * BlockSize /\ Direct * BlockSize \in Nat
  BY <1>1 DEF DirectOnly
<1> QED
  BY <1>1, <1>2, <1>3, <1>4, <1>5, <1>6, FileIoAssumption, FileBlocksAssumption

\* What file_read takes is inside the file.
LEMMA ReadInside ==
    ASSUME DirectOnly, CountsFit, FileInv, NEW count \in Counts, Read(count)
    PROVE  FileInv'
<1> DEFINE n == IF (pos + count) % Word > size THEN (size - pos) % Word ELSE count
<1>1. /\ size \in 0..MaxSize /\ size \in Nat
      /\ pos \in 0..size \cup {Word - 1}
  BY FileIoAssumption, FileBlocksAssumption DEF FileInv, Sound, BlocksFit
<1>2. CASE pos = Word - 1
  <2>1. pos \div BlockSize >= MaxBlocks + 1
    <3>1. pos \in Nat /\ pos >= (MaxBlocks + 1) * BlockSize
      BY <1>2, WordFacts
    <3> QED
      BY <3>1, DivBounds, WordFacts, FileBlocksAssumption
  <2>2. pos \div BlockSize >= MaxBlocks - 1
    BY <2>1, <1>2, WordFacts, FileBlocksAssumption, DivMod
  <2>3. Panics("position")
    BY <2>2 DEF Read
  <2> QED
    BY <2>3 DEF Panics, FileInv, ReadsBack
<1>3. CASE pos \in 0..size
  <2>1. /\ pos + count \in 0..Word - 1 /\ size - pos \in 0..Word - 1
        /\ pos \in Nat /\ count \in Nat /\ Word \in Nat /\ Word > 0
    BY <1>1, <1>3, WordFacts DEF CountsFit
  <2>2. (pos + count) % Word = pos + count /\ (size - pos) % Word = size - pos
    BY <2>1, ModFacts
  <2>3. n \in Nat /\ pos + n <= size
    BY <1>1, <1>3, <2>1, <2>2
  <2>4. CASE UNCHANGED <<size, sectors, taken, disk, got, pos>>
    BY <2>4 DEF FileInv, ReadsBack
  <2>5. CASE /\ got' = [from |-> pos, bytes |-> Bytes(n)]
             /\ pos' = pos + n
             /\ UNCHANGED <<size, sectors, table, taken, disk, panic>>
    <3> HIDE DEF n
    <3>1. ASSUME NEW k \in 1..n
          PROVE  Bytes(n)[k] = pos + k - 1
      <4>1. pos + k - 1 \in 0..size - 1
        BY <2>1, <2>3, <1>1
      <4>2. disk[Block(sectors, table, (pos + k - 1) \div BlockSize)][(pos + k - 1) % BlockSize]
               = pos + k - 1
        BY <4>1, FilePropertiesHold, Zenon DEF BytesKept
      <4> QED
        BY <4>2, Zenon DEF Bytes
    <3>2. DOMAIN Bytes(n) = 1..n
      BY DEF Bytes
    <3>3. got'.bytes = Bytes(n) /\ got'.from = pos
      BY <2>5
    <3>4. ReadsBack'
      BY <3>1, <3>2, <3>3 DEF ReadsBack
    <3>5. pos' \in 0..size
      BY <1>1, <2>1, <2>3, <2>5
    <3> QED
      BY <2>5, <3>4, <3>5 DEF FileInv
  <2>6. CASE Panics("position") \/ Panics("table")
    BY <2>6 DEF Panics, FileInv, ReadsBack
  <2> QED
    BY <2>5, <2>6, Zenon DEF Read
<1> QED
  BY <1>1, <1>2, <1>3

-----------------------------------------------------------------------------
(* The steps of the file.                                                  *)

LEMMA ExtendKeeps ==
    ASSUME DirectOnly, FileInv, NEW count \in Counts, size + count <= MaxSize,
           Needed(sectors, size, count) <= Cardinality(DataBlocks \ taken),
           Extend(count)
    PROVE  FileInv'
<1> DEFINE s == NewSectors(sectors, size, count, taken)
           t == NewTable(sectors, table, size, count, taken)
           T == NewTaken(sectors, size, count, taken)
<1>1. /\ size \in 0..MaxSize /\ size \in Nat /\ count \in Nat \ {0}
      /\ Sound(size, sectors, taken, disk) /\ BlocksFit(size, sectors, taken)
  BY WordFacts DEF FileInv, Sound, BlocksFit
<1>2. /\ BlocksFit(size + count, s, T)
      /\ UsedIn(size + count, s) = UsedBlocks(size + count)
      /\ UsedIn(size, sectors) <= UsedBlocks(size + count)
      /\ \A i \in 0..Direct : i < UsedIn(size, sectors) => s[i] = sectors[i]
  BY <1>1, NewBlocksFit
<1>3. /\ sectors' = s /\ taken' = T /\ disk' = Written(count, s, t)
      /\ size' = size + count /\ pos' = PosWritten /\ got' = got
  BY DEF Extend
<1> HIDE DEF s, t, T
<1>4. Sound(size + count, s, T, Written(count, s, t))
  BY <1>1, <1>2, WrittenSound
<1>5. Sound(size, sectors, taken, disk)'
  BY <1>3, <1>4
<1>6. pos' \in 0..size' \cup {Word - 1}
  <2>1. CASE size = 0
    BY <1>3, <2>1, ModFacts, WordFacts DEF PosWritten
  <2>2. CASE size # 0
    <3>1. size - 1 \in 0..Word - 1
      BY <1>1, <2>2, WordFacts
    <3>2. \A n \in 0..Word - 1 : n % Word = n
      <4>1. Word \in Nat /\ Word > 0
        BY WordFacts
      <4> QED
        BY <4>1, ModFacts, Zenon
    <3>3. PosWritten = size - 1
      BY <3>1, <3>2, Zenon DEF PosWritten
    <3> QED
      BY <1>1, <1>3, <2>2, <3>3
  <2> QED
    BY <2>1, <2>2
<1> QED
  BY <1>3, <1>5, <1>6 DEF FileInv, ReadsBack

LEMMA OthersKeep ==
    ASSUME DirectOnly, FileInv, Others
    PROVE  FileInv'
<1>1. PICK b \in DataBlocks \ (Own \cup {1}) :
        taken' = IF b \in taken THEN taken \ {b} ELSE taken \cup {b}
  BY DEF Others
<1>2. UNCHANGED <<size, sectors, pos, disk, got>>
  BY DEF Others
<1>3. Own = {sectors[i] : i \in 0..UsedIn(size, sectors) - 1}
      /\ UsedIn(size, sectors) \in 0..Direct
  BY OwnBlocks DEF FileInv, Sound
<1>4. \A i \in 0..Direct : i < UsedIn(size, sectors) => sectors[i] # b
  BY <1>1, <1>3
<1>5. BlocksFit(size, sectors, taken)
  BY DEF FileInv, Sound
<1>6. BlocksFit(size, sectors, taken')
  BY <1>1, <1>4, <1>5 DEF BlocksFit
<1> QED
  BY <1>2, <1>6 DEF FileInv, Sound, ReadsBack

LEMMA FileInitInv ==
    ASSUME Init
    PROVE  FileInv
<1>1. Nil \notin DataBlocks /\ 1 \in DataBlocks /\ 0 \in 0..Direct /\ MaxSize \in Nat
      /\ 0..-1 = {}
  BY FileIoAssumption, FileBlocksAssumption DEF Nil, DataBlocks
<1>2. sectors = NoSectors /\ NoSectors \in Sectors /\ \A i \in 0..Direct : sectors[i] = Nil
  BY DEF Init, NoSectors, Sectors
<1>3. UsedIn(size, sectors) = 0
  BY <1>1, <1>2 DEF UsedIn
<1>4. BlocksFit(size, sectors, taken)
  BY <1>1, <1>2, <1>3 DEF Init, BlocksFit
<1>5. BytesIn(size, sectors, disk)
  BY DEF Init, BytesIn
<1>6. Untouched(size, sectors, disk) /\ DOMAIN disk = {Nil} \cup DataBlocks
  BY DEF Init, Untouched
<1>7. pos \in 0..size /\ ReadsBack
  BY DEF Init, ReadsBack
<1> QED
  BY <1>4, <1>5, <1>6, <1>7 DEF FileInv, Sound

\* What a file keeps, through writes, reads, seeks and what other files do to
\* the bitmap.
LEMMA FileStep ==
    ASSUME DirectOnly, CountsFit, FileInv, [Next]_vars
    PROVE  FileInv'
<1>1. ASSUME NEW count \in Counts, Write(count)
      PROVE  FileInv'
  <2>1. CASE \E why : Panics(why)
    BY <2>1 DEF Panics, FileInv, ReadsBack
  <2>2. CASE /\ Extend(count) /\ size + count <= MaxSize
             /\ ~(Cardinality(DataBlocks \ taken) < Needed(sectors, size, count))
    <3>1. /\ Needed(sectors, size, count) \in Int
          /\ Cardinality(DataBlocks \ taken) \in Nat
      <4>1. /\ size \in 0..MaxSize /\ count \in Nat \ {0}
            /\ BlocksFit(size, sectors, taken)
        BY WordFacts DEF FileInv, Sound, BlocksFit
      <4>2. /\ Needed(sectors, size, count) = UsedBlocks(size + count) - UsedIn(size, sectors)
            /\ UsedBlocks(size + count) \in 1..Direct
            /\ UsedIn(size, sectors) \in 0..UsedBlocks(size + count)
        BY <2>2, <4>1, NewSectorsLemma
      <4>3. Cardinality(DataBlocks \ taken) \in Nat
        BY BelowFacts DEF FreeBlocks
      <4> QED
        BY <4>2, <4>3
    <3> QED
      BY <2>2, <3>1, ExtendKeeps
  <2> QED
    BY <1>1, <2>1, <2>2 DEF Write
<1>2. ASSUME NEW count \in Counts, Read(count)
      PROVE  FileInv'
  BY <1>2, ReadInside
<1>3. ASSUME NEW to \in 0..MaxSize, Seek(to)
      PROVE  FileInv'
  <2>1. pos' \in 0..size
    BY <1>3, FileIoAssumption, FileBlocksAssumption DEF Seek, FileInv, Sound, BlocksFit
  <2> QED
    BY <1>3, <2>1 DEF Seek, FileInv, ReadsBack
<1>4. CASE Others
  BY <1>4, OthersKeep
<1>5. CASE UNCHANGED vars
  BY <1>5 DEF vars, FileInv, ReadsBack
<1> QED
  BY <1>1, <1>2, <1>3, <1>4, <1>5 DEF Next

-----------------------------------------------------------------------------
(* The theorems about files.                                               *)

LEMMA FileKeepsInv ==
    ASSUME DirectOnly, CountsFit
    PROVE  VolumeSpec => []FileInv
<1>1. VolumeInit => FileInv
  BY FileInitInv DEF VolumeInit
<1>2. FileInv /\ [VolumeNext]_<<vars, bootVars>> => FileInv'
  BY FileStep DEF VolumeNext, vars
<1> QED
  BY <1>1, <1>2, PTL DEF VolumeSpec

\* file_write and file_read agree on where the bytes of a file are, whatever
\* blocks of the partition were free when it grew.
THEOREM BytesKeptHolds ==
    ASSUME DirectOnly, CountsFit
    PROVE  VolumeSpec => []BytesKept
<1>1. FileInv => BytesKept
  BY FilePropertiesHold
<1> QED
  BY <1>1, FileKeepsInv, PTL

\* file_read yields the bytes of the file from fd_pos on.
THEOREM ReadsBackHolds ==
    ASSUME DirectOnly, CountsFit
    PROVE  VolumeSpec => []ReadsBack
<1>1. FileInv => ReadsBack
  BY FilePropertiesHold
<1> QED
  BY <1>1, FileKeepsInv, PTL

\* file_write allocates as many blocks as the size asks for, each of them once,
\* and marks them.
THEOREM BlocksCountedHolds ==
    ASSUME DirectOnly, CountsFit
    PROVE  VolumeSpec => []BlocksCounted
<1>1. FileInv => BlocksCounted
  BY FilePropertiesHold
<1> QED
  BY <1>1, FileKeepsInv, PTL

\* No call of file_write changes a sector outside the file's blocks.
THEOREM OthersKeptHolds ==
    ASSUME DirectOnly, CountsFit
    PROVE  VolumeSpec => []OthersKept
<1>1. FileInv => OthersKept
  BY FilePropertiesHold
<1> QED
  BY <1>1, FileKeepsInv, PTL

-----------------------------------------------------------------------------
(* Disks as fdisk writes them.                                             *)

Lba(c, k) == TableAt(c, k)
TableOf(d, c, k) == d.tables[Lba(c, k)]
EntryIs(d, c, k, i, type) ==
    i \in 1..Len(TableOf(d, c, k)) /\ TableOf(d, c, k)[i].type = type
Vol(d, c, k, i) == VolumeAt(d, Lba(c, k), i)

\* The tables of d are those of the chain c, and no volume comes twice.
IsChain(d, c) ==
    /\ c \in Seq(Nat \ {0})
    /\ \A k \in 0..Len(c) :
          /\ Lba(c, k) \in DOMAIN d.tables /\ Lba(c, k) \in Nat
          /\ TableOf(d, c, k) \in
                Seq([type : {"none", "data", "extended"}, start : Nat, count : Nat])
    /\ \A k \in 1..Len(c) : Lba(c, k) = c[k] /\ Lba(c, k) # 0
    /\ Lba(c, 0) = 0
    /\ \A k \in 0..Len(c), i \in Nat : EntryIs(d, c, k, i, "extended") =>
          /\ k < Len(c)
          /\ TableOf(d, c, k)[i].start + (IF k = 0 THEN 0 ELSE c[1]) = c[k + 1]
          /\ \A j \in Nat : EntryIs(d, c, k, j, "extended") => j = i
          /\ k # 0 => \A j \in Nat : EntryIs(d, c, k, j, "data") => j < i
    /\ \A k \in 0..Len(c) : k < Len(c) => \E i \in Nat : EntryIs(d, c, k, i, "extended")
    /\ \A k, l \in 0..Len(c), i, j \in Nat :
          EntryIs(d, c, k, i, "data") /\ EntryIs(d, c, l, j, "data")
            /\ Vol(d, c, k, i) = Vol(d, c, l, j) => k = l /\ i = j
    /\ \A v : v \in d.volumes <=>
          \E k \in 0..Len(c), i \in Nat : EntryIs(d, c, k, i, "data") /\ v = Vol(d, c, k, i)

LEMMA InSeq ==
    ASSUME NEW S, NEW s \in Seq(S), NEW i \in 1..Len(s)
    PROVE  s[i] \in S /\ DOMAIN s = 1..Len(s) /\ Len(s) \in Nat
  OBVIOUS

LEMMA ChainExists ==
    ASSUME NEW d, AsFdisk(d)
    PROVE  \E c : IsChain(d, c)
<1> DEFINE n == Cardinality(DOMAIN d.tables) - 1
           type == [type : {"none", "data", "extended"}, start : Nat, count : Nat]
<1>1. /\ 0 \in DOMAIN d.tables /\ DOMAIN d.tables \subseteq 0..d.size - 1 /\ d.size \in Nat
      /\ \A lba \in DOMAIN d.tables : d.tables[lba] \in Seq(type)
  BY DEF AsFdisk
<1>2. n \in Nat
  <2>1. IsFiniteSet(DOMAIN d.tables)
    <3>1. IsFiniteSet(0..d.size - 1)
      BY <1>1, FS_Interval
    <3> QED
      BY <1>1, <3>1, FS_Subset
  <2>2. Cardinality(DOMAIN d.tables) \in Nat
    BY <2>1, FS_CardinalityType
  <2>3. Cardinality(DOMAIN d.tables) # 0
    BY <1>1, <2>1, FS_EmptySet
  <2> QED
    BY <2>2, <2>3
<1>3. PICK c \in [1..n -> DOMAIN d.tables \ {0}] : Chains(d, c)
  BY Zenon DEF AsFdisk
<1> HIDE DEF n
<1>4. c \in Seq(Nat \ {0}) /\ Len(c) = n /\ DOMAIN c = 1..n
  BY <1>1, <1>2, <1>3
<1>5. /\ \A k \in 0..n : /\ Lba(c, k) \in DOMAIN d.tables /\ Lba(c, k) \in Nat
                        /\ TableOf(d, c, k) \in Seq(type)
      /\ \A k \in 1..n : Lba(c, k) = c[k] /\ Lba(c, k) # 0
      /\ Lba(c, 0) = 0
  BY <1>1, <1>2, <1>3 DEF Lba, TableAt, TableOf
<1>6. /\ \A i, j \in 1..n : c[i] = c[j] => i = j
      /\ \A lba \in DOMAIN d.tables : lba # 0 => \E k \in 1..n : c[k] = lba
  <2>1. IsInjective(c) /\ ToSet(c) = DOMAIN d.tables \ {0}
    BY <1>3 DEF Chains
  <2> QED
    BY <1>4, <2>1 DEF IsInjective, ToSet
<1>7. /\ \A k, l \in 0..n : Lba(c, k) = Lba(c, l) => k = l
      /\ \A lba \in DOMAIN d.tables : \E k \in 0..n : Lba(c, k) = lba
  <2>1. ASSUME NEW k \in 0..n, NEW l \in 0..n, Lba(c, k) = Lba(c, l)
        PROVE  k = l
    <3>1. k = 0 <=> l = 0
      BY <1>2, <1>5, <2>1
    <3>2. k # 0 => k \in 1..n /\ l \in 1..n /\ c[k] = c[l]
      BY <1>2, <1>5, <2>1, <3>1
    <3> QED
      BY <1>6, <3>1, <3>2
  <2>2. ASSUME NEW lba \in DOMAIN d.tables
        PROVE  \E k \in 0..n : Lba(c, k) = lba
    <3>1. lba # 0 => \E k \in 1..n : c[k] = lba
      BY <1>6
    <3>2. 1..n \subseteq 0..n /\ 0 \in 0..n
      BY <1>2
    <3> QED
      BY <1>5, <3>1, <3>2
  <2> QED
    BY <2>1, <2>2
<1>8. ASSUME NEW k \in 0..n
      PROVE  LET extended == {i \in DOMAIN TableOf(d, c, k) : TableOf(d, c, k)[i].type = "extended"}
             IN  IF k = n THEN extended = {}
                 ELSE \E i \in DOMAIN TableOf(d, c, k) :
                        /\ extended = {i}
                        /\ TableOf(d, c, k)[i].start + (IF k = 0 THEN 0 ELSE c[1]) = c[k + 1]
                        /\ k # 0 => \A j \in DOMAIN TableOf(d, c, k) :
                                      j > i => TableOf(d, c, k)[j].type = "none"
  BY <1>3, <1>4 DEF Chains, TableOf, Lba
<1>9. \A k \in 0..n : \A i : EntryIs(d, c, k, i, "extended") <=>
          i \in DOMAIN TableOf(d, c, k) /\ TableOf(d, c, k)[i].type = "extended"
  BY <1>5 DEF EntryIs
<1>10. ASSUME NEW k \in 0..n, NEW i \in Nat, EntryIs(d, c, k, i, "extended")
       PROVE  /\ k < n
              /\ TableOf(d, c, k)[i].start + (IF k = 0 THEN 0 ELSE c[1]) = c[k + 1]
              /\ \A j \in Nat : EntryIs(d, c, k, j, "extended") => j = i
              /\ k # 0 => \A j \in Nat : EntryIs(d, c, k, j, "data") => j < i
  <2>1. k # n
    BY <1>8, <1>9, <1>10
  <2>2. PICK e \in DOMAIN TableOf(d, c, k) :
          /\ {j \in DOMAIN TableOf(d, c, k) : TableOf(d, c, k)[j].type = "extended"} = {e}
          /\ TableOf(d, c, k)[e].start + (IF k = 0 THEN 0 ELSE c[1]) = c[k + 1]
          /\ k # 0 => \A j \in DOMAIN TableOf(d, c, k) : j > e => TableOf(d, c, k)[j].type = "none"
    BY <1>8, <2>1
  <2>3. \A j : EntryIs(d, c, k, j, "extended") => j = e
    BY <1>9, <2>2
  <2>4. e = i
    BY <1>10, <2>3
  <2>5. ASSUME k # 0, NEW j \in Nat, EntryIs(d, c, k, j, "data")
        PROVE  j < i
    <3>1. j \in DOMAIN TableOf(d, c, k) /\ j # i
      BY <1>5, <1>10, <2>5 DEF EntryIs
    <3> QED
      BY <2>2, <2>4, <2>5, <3>1 DEF EntryIs
  <2> QED
    BY <1>2, <2>1, <2>2, <2>3, <2>4, <2>5
<1>11. ASSUME NEW k \in 0..n, k < n
       PROVE  \E i \in Nat : EntryIs(d, c, k, i, "extended")
  <2>0. k # n
    BY <1>2, <1>11
  <2>1. PICK i \in DOMAIN TableOf(d, c, k) :
          {j \in DOMAIN TableOf(d, c, k) : TableOf(d, c, k)[j].type = "extended"} = {i}
    BY <1>8, <2>0
  <2>2. EntryIs(d, c, k, i, "extended") /\ i \in Nat
    BY <1>5, <2>1 DEF EntryIs
  <2> QED
    BY <2>2
<1>12. \A s : s \in Slots(d) <=>
          \E k \in 0..n, i \in Nat : EntryIs(d, c, k, i, "data") /\ s = <<Lba(c, k), i>>
  <2>1. \A s : s \in Slots(d) <=>
          \E lba \in DOMAIN d.tables : \E i \in DOMAIN d.tables[lba] :
              d.tables[lba][i].type = "data" /\ s = <<lba, i>>
    BY DEF Slots
  <2>2. ASSUME NEW k \in 0..n, NEW i
        PROVE  i \in DOMAIN TableOf(d, c, k) <=> i \in Nat /\ i \in 1..Len(TableOf(d, c, k))
    BY <1>5
  <2> QED
    BY <1>5, <1>7, <2>1, <2>2 DEF EntryIs, TableOf
<1>13. ASSUME NEW k \in 0..n, NEW i \in Nat, EntryIs(d, c, k, i, "data")
       PROVE  /\ Vol(d, c, k, i) \in d.volumes
              /\ Vol(d, c, k, i).start \in Nat
              /\ Vol(d, c, k, i).count \in Nat \ {0}
  <2>1. Vol(d, c, k, i) \in d.volumes
    <3>1. <<Lba(c, k), i>> \in Slots(d)
      BY <1>12, <1>13
    <3>2. d.volumes = {VolumeAt(d, s[1], s[2]) : s \in Slots(d)}
      BY DEF AsFdisk
    <3>3. Vol(d, c, k, i) = VolumeAt(d, <<Lba(c, k), i>>[1], <<Lba(c, k), i>>[2])
      BY DEF Vol
    <3> HIDE DEF n
    <3> QED
      BY <3>1, <3>2, <3>3, Zenon
  <2>2. FreeSects(Vol(d, c, k, i)) \in Nat
    BY <2>1, Zenon DEF AsFdisk
  <2>3. TableOf(d, c, k)[i].start \in Nat /\ TableOf(d, c, k)[i].count \in Nat
    <3>1. TableOf(d, c, k) \in Seq(type) /\ i \in 1..Len(TableOf(d, c, k))
      BY <1>5, <1>13 DEF EntryIs
    <3>2. TableOf(d, c, k)[i] \in type
      BY <3>1, InSeq
    <3> QED
      BY <3>2
  <2>4. /\ Vol(d, c, k, i).start = Lba(c, k) + TableOf(d, c, k)[i].start
        /\ Vol(d, c, k, i).count = TableOf(d, c, k)[i].count
    BY DEF Vol, VolumeAt, TableOf
  <2>5. Lba(c, k) \in Nat
    BY <1>5
  <2>6. Vol(d, c, k, i).start \in Nat /\ Vol(d, c, k, i).count \in Nat
    BY <2>3, <2>4, <2>5
  <2>7. Vol(d, c, k, i).count # 0
    <3>1. Vol(d, c, k, i).count - (2 + InodeMapSects + InodeSects) \in Nat
      BY <2>2 DEF FreeSects
    <3> QED
      BY <2>6, <3>1, PartitionsAssumption
  <2> QED
    BY <2>1, <2>6, <2>7
<1>14. ASSUME NEW k \in 0..n, NEW l \in 0..n, NEW i \in Nat, NEW j \in Nat,
              EntryIs(d, c, k, i, "data"), EntryIs(d, c, l, j, "data"),
              Vol(d, c, k, i) = Vol(d, c, l, j)
       PROVE  k = l /\ i = j
  <2>1. <<Lba(c, k), i>> \in Slots(d) /\ <<Lba(c, l), j>> \in Slots(d)
    BY <1>12, <1>14
  <2>2. Vol(d, c, k, i).start \in Sects(Vol(d, c, k, i))
    BY <1>13, <1>14 DEF Sects
  <2>3. ~(<<Lba(c, k), i>> # <<Lba(c, l), j>>)
    <3>1. \A s, r \in Slots(d) : s # r =>
            Sects(VolumeAt(d, s[1], s[2])) \cap Sects(VolumeAt(d, r[1], r[2])) = {}
      BY DEF AsFdisk
    <3>2. SUFFICES ASSUME <<Lba(c, k), i>> # <<Lba(c, l), j>> PROVE FALSE
      OBVIOUS
    <3>3. Sects(Vol(d, c, k, i)) \cap Sects(Vol(d, c, l, j)) = {}
      BY <2>1, <3>1, <3>2 DEF Vol
    <3> QED
      BY <1>14, <2>2, <3>3
  <2> QED
    BY <1>7, <2>3
<1>15. \A v : v \in d.volumes <=>
          \E k \in 0..n, i \in Nat : EntryIs(d, c, k, i, "data") /\ v = Vol(d, c, k, i)
  <2>1. ASSUME NEW v \in d.volumes
        PROVE  \E k \in 0..n, i \in Nat : EntryIs(d, c, k, i, "data") /\ v = Vol(d, c, k, i)
    <3>1. PICK s \in Slots(d) : v = VolumeAt(d, s[1], s[2])
      BY DEF AsFdisk
    <3>2. PICK k \in 0..n, i \in Nat : EntryIs(d, c, k, i, "data") /\ s = <<Lba(c, k), i>>
      BY <1>12
    <3> QED
      BY <3>1, <3>2 DEF Vol
  <2> QED
    BY <1>13, <2>1
<1>16. IsChain(d, c)
  BY <1>4, <1>5, <1>10, <1>11, <1>14, <1>15 DEF IsChain
<1> QED
  BY <1>16

-----------------------------------------------------------------------------
(* The calls of partition_scan.                                            *)

\* The calls read one table of the chain each, and all but the last one are at
\* the entry that leads to the next table.
StackFits(d, c, st) ==
    /\ st \in Seq([lba : Nat, next : Nat])
    /\ Len(st) <= Len(c) + 1
    /\ \A f \in 1..Len(st) :
          /\ st[f].lba = Lba(c, f - 1)
          /\ st[f].next \in 1..Len(TableOf(d, c, f - 1)) + 1
          /\ f < Len(st) => EntryIs(d, c, f - 1, st[f].next - 1, "extended")

\* The last call will make another one.
Ahead(d, c, st) ==
    /\ Len(st) # 0
    /\ \E i \in Nat : i >= st[Len(st)].next /\ EntryIs(d, c, Len(st) - 1, i, "extended")

\* Entry i of table k will be read.
Pending(d, c, st, k, i) ==
    IF k < Len(st) THEN i >= st[k + 1].next ELSE Ahead(d, c, st)

\* The last call is at an entry of its table.
AtEntry(d, c, st) == Len(st) # 0 /\ st[Len(st)].next <= Len(TableOf(d, c, Len(st) - 1))

IsAdvanced(st, new) ==
    /\ new \in Seq([lba : Nat, next : Nat]) /\ Len(new) = Len(st)
    /\ \A f \in 1..Len(st) :
          /\ new[f].lba = st[f].lba
          /\ new[f].next = IF f = Len(st) THEN st[f].next + 1 ELSE st[f].next

IsFront(st, new) ==
    /\ new \in Seq([lba : Nat, next : Nat]) /\ Len(new) = Len(st) - 1
    /\ \A f \in 1..Len(new) : new[f] = st[f]

IsPushed(st, lba, new) ==
    /\ new \in Seq([lba : Nat, next : Nat]) /\ Len(new) = Len(st) + 1
    /\ \A f \in 1..Len(st) : new[f] = st[f]
    /\ new[Len(new)].lba = lba /\ new[Len(new)].next = 1

LEMMA StackTypes ==
    ASSUME NEW d, NEW c, NEW st, IsChain(d, c), StackFits(d, c, st)
    PROVE  /\ Len(st) \in Nat /\ Len(c) \in Nat
           /\ \A f \in 1..Len(st) :
                 /\ f - 1 \in 0..Len(c)
                 /\ st[f].next \in Nat \ {0}
                 /\ Len(TableOf(d, c, f - 1)) \in Nat
                 /\ st[f] \in [lba : Nat, next : Nat]
<1>1. Len(st) \in Nat /\ Len(c) \in Nat
  BY DEF StackFits, IsChain
<1>2. ASSUME NEW f \in 1..Len(st)
      PROVE  /\ f - 1 \in 0..Len(c)
             /\ st[f].next \in Nat \ {0}
             /\ Len(TableOf(d, c, f - 1)) \in Nat
             /\ st[f] \in [lba : Nat, next : Nat]
  <2>1. f - 1 \in 0..Len(c)
    BY <1>1 DEF StackFits
  <2>2. Len(TableOf(d, c, f - 1)) \in Nat
    BY <2>1, InSeq DEF IsChain
  <2>3. st[f] \in [lba : Nat, next : Nat]
    BY InSeq DEF StackFits
  <2> QED
    BY <2>1, <2>2, <2>3 DEF StackFits
<1> QED
  BY <1>1, <1>2

LEMMA Frame ==
    ASSUME NEW d, NEW c, NEW st, IsChain(d, c), StackFits(d, c, st), NEW f \in 1..Len(st)
    PROVE  /\ f \in Nat /\ f - 1 \in 0..Len(c) /\ f <= Len(st)
           /\ st[f].lba = Lba(c, f - 1)
           /\ st[f].next \in Nat \ {0}
           /\ Len(TableOf(d, c, f - 1)) \in Nat
           /\ st[f].next \in 1..Len(TableOf(d, c, f - 1)) + 1
           /\ f < Len(st) => EntryIs(d, c, f - 1, st[f].next - 1, "extended")
<1>1. Len(st) \in Nat
  BY StackTypes
<1> QED
  BY <1>1, StackTypes DEF StackFits

\* There is one entry that leads on.
LEMMA OneExtended ==
    ASSUME NEW d, NEW c, IsChain(d, c), NEW k \in 0..Len(c), NEW i \in Nat, NEW j \in Nat,
           EntryIs(d, c, k, i, "extended"), EntryIs(d, c, k, j, "extended")
    PROVE  i = j /\ k < Len(c)
  BY DEF IsChain

\* An entry that leads nowhere is passed.
LEMMA AdvanceFits ==
    ASSUME NEW d, NEW c, NEW st, NEW new, IsChain(d, c), StackFits(d, c, st),
           AtEntry(d, c, st), IsAdvanced(st, new),
           ~EntryIs(d, c, Len(st) - 1, st[Len(st)].next, "extended")
    PROVE  /\ StackFits(d, c, new)
           /\ Ahead(d, c, new) <=> Ahead(d, c, st)
           /\ \A k \in 0..Len(c), i \in Nat :
                 Pending(d, c, new, k, i) <=>
                    Pending(d, c, st, k, i) /\ ~(k = Len(st) - 1 /\ i = st[Len(st)].next)
<1>1. /\ Len(st) \in Nat \ {0} /\ Len(c) \in Nat /\ Len(new) = Len(st)
      /\ \A f \in 1..Len(st) : st[f].next \in Nat \ {0} /\ Len(TableOf(d, c, f - 1)) \in Nat
  BY StackTypes DEF AtEntry, IsAdvanced
<1>2. /\ \A f \in 1..Len(st) : new[f].lba = st[f].lba
      /\ \A f \in 1..Len(st) : f < Len(st) => new[f].next = st[f].next
      /\ new[Len(st)].next = st[Len(st)].next + 1
  BY <1>1 DEF IsAdvanced
<1>3. StackFits(d, c, new)
  <2>1. ASSUME NEW f \in 1..Len(st)
        PROVE  /\ new[f].lba = Lba(c, f - 1)
               /\ new[f].next \in 1..Len(TableOf(d, c, f - 1)) + 1
               /\ f < Len(st) => EntryIs(d, c, f - 1, new[f].next - 1, "extended")
    <3>0. /\ st[f].lba = Lba(c, f - 1)
          /\ st[f].next \in 1..Len(TableOf(d, c, f - 1)) + 1
          /\ Len(TableOf(d, c, f - 1)) \in Nat
          /\ f < Len(st) => EntryIs(d, c, f - 1, st[f].next - 1, "extended")
      BY Frame
    <3>1. CASE f < Len(st)
      <4>1. new[f].lba = st[f].lba /\ new[f].next = st[f].next
        BY <1>2, <3>1
      <4> QED
        BY <3>0, <3>1, <4>1
    <3>2. CASE f = Len(st)
      <4>1. new[f].lba = st[f].lba /\ new[f].next = st[f].next + 1
        BY <1>1, <1>2, <3>2
      <4>2. st[f].next <= Len(TableOf(d, c, f - 1))
        BY <3>2 DEF AtEntry
      <4> QED
        BY <1>1, <3>0, <3>2, <4>1, <4>2
    <3> QED
      BY <1>1, <3>1, <3>2
  <2> QED
    BY <1>1, <2>1 DEF StackFits, IsAdvanced
<1>4. Ahead(d, c, new) <=> Ahead(d, c, st)
  <2>1. ASSUME NEW i \in Nat, EntryIs(d, c, Len(st) - 1, i, "extended")
        PROVE  i >= st[Len(st)].next <=> i >= new[Len(st)].next
    <3>1. i # st[Len(st)].next
      BY <2>1
    <3> QED
      BY <1>1, <1>2, <3>1
  <2> QED
    BY <1>1, <2>1 DEF Ahead
<1>5. ASSUME NEW k \in 0..Len(c), NEW i \in Nat
      PROVE  Pending(d, c, new, k, i) <=>
                Pending(d, c, st, k, i) /\ ~(k = Len(st) - 1 /\ i = st[Len(st)].next)
  <2>1. CASE k < Len(st) - 1
    <3>1. new[k + 1].next = st[k + 1].next
      BY <1>1, <1>2, <2>1
    <3> QED
      BY <1>1, <2>1, <3>1 DEF Pending
  <2>2. CASE k = Len(st) - 1
    <3>1. k + 1 = Len(st) /\ k < Len(st) /\ new[k + 1].next = st[k + 1].next + 1
          /\ st[k + 1].next \in Nat
      BY <1>1, <1>2, <2>2
    <3> QED
      BY <1>1, <2>2, <3>1 DEF Pending
  <2>3. CASE k >= Len(st)
    BY <1>1, <1>4, <2>3 DEF Pending
  <2> QED
    BY <1>1, <2>1, <2>2, <2>3
<1> QED
  BY <1>3, <1>4, <1>5

\* A call ends: the one around it has no second entry that leads on.
LEMMA FrontFits ==
    ASSUME NEW d, NEW c, NEW st, NEW new, IsChain(d, c), StackFits(d, c, st),
           Len(st) # 0, IsFront(st, new)
    PROVE  /\ StackFits(d, c, new)
           /\ ~Ahead(d, c, new)
           /\ \A k \in 0..Len(c), i \in Nat :
                 Pending(d, c, new, k, i) <=> k < Len(st) - 1 /\ Pending(d, c, st, k, i)
<1>1. /\ Len(st) \in Nat \ {0} /\ Len(c) \in Nat /\ Len(new) = Len(st) - 1
      /\ \A f \in 1..Len(st) : st[f].next \in Nat \ {0} /\ f - 1 \in 0..Len(c)
      /\ \A f \in 1..Len(st) - 1 : new[f] = st[f]
  BY StackTypes DEF IsFront
<1>2. StackFits(d, c, new)
  <2>1. ASSUME NEW f \in 1..Len(new)
        PROVE  /\ new[f].lba = Lba(c, f - 1)
               /\ new[f].next \in 1..Len(TableOf(d, c, f - 1)) + 1
               /\ f < Len(new) => EntryIs(d, c, f - 1, new[f].next - 1, "extended")
    <3>1. f \in 1..Len(st) /\ f < Len(st) /\ new[f] = st[f]
      BY <1>1
    <3> QED
      BY <3>1, Frame
  <2>2. new \in Seq([lba : Nat, next : Nat]) /\ Len(new) <= Len(c) + 1
    BY <1>1 DEF StackFits, IsFront
  <2> QED
    BY <2>1, <2>2 DEF StackFits
<1>3. ~Ahead(d, c, new)
  <2> SUFFICES ASSUME NEW i \in Nat, Len(new) # 0, i >= new[Len(new)].next,
                      EntryIs(d, c, Len(new) - 1, i, "extended")
               PROVE  FALSE
    BY DEF Ahead
  <2>1. /\ Len(new) \in 1..Len(st) - 1 /\ new[Len(new)] = st[Len(new)]
        /\ EntryIs(d, c, Len(new) - 1, st[Len(new)].next - 1, "extended")
        /\ st[Len(new)].next - 1 \in Nat /\ st[Len(new)].next \in Nat
        /\ Len(new) - 1 \in 0..Len(c)
    <3>1. Len(new) \in 1..Len(st) - 1 /\ Len(new) \in 1..Len(st) /\ Len(new) < Len(st)
      BY <1>1
    <3> DEFINE f == Len(new)
    <3>2. /\ st[f].next \in Nat \ {0} /\ f - 1 \in 0..Len(c)
          /\ EntryIs(d, c, f - 1, st[f].next - 1, "extended")
      BY <3>1, Frame
    <3>3. new[f] = st[f]
      BY <1>1, <3>1
    <3> QED
      BY <3>1, <3>2, <3>3
  <2>2. i = st[Len(new)].next - 1
    BY <2>1, OneExtended
  <2> QED
    BY <2>1, <2>2
<1>4. ASSUME NEW k \in 0..Len(c), NEW i \in Nat
      PROVE  Pending(d, c, new, k, i) <=> k < Len(st) - 1 /\ Pending(d, c, st, k, i)
  <2>1. CASE k < Len(st) - 1
    BY <1>1, <2>1 DEF Pending
  <2>2. CASE k >= Len(st) - 1
    BY <1>1, <1>3, <2>2 DEF Pending
  <2> QED
    BY <1>1, <2>1, <2>2
<1> QED
  BY <1>2, <1>3, <1>4

\* The entry that leads to the next table: the entries of that table come
\* next, and those of the tables behind it later.
LEMMA PushFits ==
    ASSUME NEW d, NEW c, NEW st, NEW mid, NEW new, IsChain(d, c), StackFits(d, c, st),
           AtEntry(d, c, st), IsAdvanced(st, mid),
           EntryIs(d, c, Len(st) - 1, st[Len(st)].next, "extended"),
           IsPushed(mid, Lba(c, Len(st)), new)
    PROVE  /\ StackFits(d, c, new)
           /\ Ahead(d, c, st)
           /\ \A k \in 0..Len(c), i \in Nat :
                 EntryIs(d, c, k, i, "data") =>
                    (Pending(d, c, new, k, i) <=> Pending(d, c, st, k, i))
<1> DEFINE L == Len(st)
<1>0. ASSUME NEW f \in 1..L
      PROVE  /\ new[f].lba = st[f].lba
             /\ f < L => new[f].next = st[f].next
             /\ f = L => new[f].next = st[f].next + 1
  <2>1. Len(mid) = L
    BY DEF IsAdvanced
  <2>2. new[f] = mid[f]
    BY <2>1 DEF IsPushed
  <2>3. /\ mid[f].lba = st[f].lba
        /\ mid[f].next = IF f = Len(st) THEN st[f].next + 1 ELSE st[f].next
    BY DEF IsAdvanced
  <2>4. f = L => mid[f].next = st[f].next + 1
    BY <2>3
  <2>5. f < L => mid[f].next = st[f].next
    BY <2>3, StackTypes
  <2> QED
    BY <2>2, <2>3, <2>4, <2>5
<1>1. /\ L \in Nat \ {0} /\ Len(c) \in Nat /\ Len(new) = L + 1
      /\ \A f \in 1..L : st[f].next \in Nat \ {0} /\ f - 1 \in 0..Len(c)
                          /\ Len(TableOf(d, c, f - 1)) \in Nat
      /\ \A f \in 1..L : /\ new[f].lba = st[f].lba
                          /\ f < L => new[f].next = st[f].next
      /\ new[L].next = st[L].next + 1
      /\ new[L + 1].lba = Lba(c, L) /\ new[L + 1].next = 1
  <2>1. /\ L \in Nat \ {0} /\ Len(c) \in Nat /\ Len(mid) = L /\ Len(new) = L + 1
        /\ new[L + 1].lba = Lba(c, L) /\ new[L + 1].next = 1
    BY StackTypes DEF AtEntry, IsAdvanced, IsPushed
  <2>2. ASSUME NEW f \in 1..L
        PROVE  /\ st[f].next \in Nat \ {0} /\ f - 1 \in 0..Len(c)
               /\ Len(TableOf(d, c, f - 1)) \in Nat
    BY Frame
  <2> QED
    BY <1>0, <2>1, <2>2
<1> HIDE DEF L
<1>2. EntryIs(d, c, L - 1, st[L].next, "extended") /\ L - 1 \in 0..Len(c) /\ st[L].next \in Nat
  BY <1>1 DEF L
<1>3. L - 1 < Len(c)
  BY <1>2 DEF IsChain
<1>4. Len(TableOf(d, c, L)) \in Nat
  <2>1. L \in 0..Len(c)
    BY <1>1, <1>3
  <2> QED
    BY <2>1, InSeq DEF IsChain
<1>5. StackFits(d, c, new)
  <2>1. ASSUME NEW f \in 1..L + 1
        PROVE  /\ new[f].lba = Lba(c, f - 1)
               /\ new[f].next \in 1..Len(TableOf(d, c, f - 1)) + 1
               /\ f < L + 1 => EntryIs(d, c, f - 1, new[f].next - 1, "extended")
    <3>1. CASE f < L
      <4>1. f \in 1..L
        BY <1>1, <3>1
      <4>2. /\ st[f].lba = Lba(c, f - 1)
            /\ st[f].next \in 1..Len(TableOf(d, c, f - 1)) + 1
            /\ EntryIs(d, c, f - 1, st[f].next - 1, "extended")
        <5>1. f \in 1..Len(st) /\ f < Len(st)
          BY <3>1, <4>1 DEF L
        <5> QED
          BY <5>1, Frame
      <4>3. new[f].lba = st[f].lba /\ new[f].next = st[f].next
        BY <1>0, <3>1, <4>1
      <4> QED
        BY <4>2, <4>3
    <3>2. CASE f = L
      <4>1. L \in 1..L
        BY <1>1
      <4>2. new[L].lba = st[L].lba /\ new[L].next = st[L].next + 1
        BY <1>0, <1>1, <4>1
      <4>3. /\ st[L].lba = Lba(c, L - 1) /\ st[L].next \in Nat
            /\ st[L].next <= Len(TableOf(d, c, L - 1)) /\ Len(TableOf(d, c, L - 1)) \in Nat
        BY <4>1, Frame DEF L, AtEntry
      <4>4. new[L].next - 1 = st[L].next
        BY <4>2, <4>3
      <4> QED
        BY <1>2, <3>2, <4>2, <4>3, <4>4
    <3>3. CASE f = L + 1
      <4>1. f - 1 = L
        BY <1>1, <3>3
      <4> QED
        BY <1>1, <1>4, <3>3, <4>1
    <3> QED
      BY <1>1, <3>1, <3>2, <3>3
  <2>2. new \in Seq([lba : Nat, next : Nat]) /\ Len(new) <= Len(c) + 1
    BY <1>1, <1>3 DEF IsPushed
  <2> QED
    BY <1>1, <2>1, <2>2 DEF StackFits
<1>6. Ahead(d, c, st)
  BY <1>1, <1>2 DEF Ahead, L
<1>7. ASSUME NEW k \in 0..Len(c), k > L
      PROVE  Ahead(d, c, new)
  <2>1. L \in 0..Len(c) /\ L < Len(c)
    BY <1>1, <1>7
  <2>2. PICK i \in Nat : EntryIs(d, c, L, i, "extended")
    BY <2>1 DEF IsChain
  <2>3. i >= new[Len(new)].next /\ Len(new) # 0 /\ Len(new) - 1 = L
    BY <1>1, <2>2 DEF EntryIs
  <2> QED
    BY <2>2, <2>3 DEF Ahead
<1>8. ASSUME NEW k \in 0..Len(c), NEW i \in Nat, EntryIs(d, c, k, i, "data")
      PROVE  Pending(d, c, new, k, i) <=> Pending(d, c, st, k, i)
  <2>1. CASE k < L - 1
    <3>1. k < L /\ k < Len(new) /\ k + 1 \in 1..L /\ k + 1 < L
      BY <1>1, <2>1
    <3>2. new[k + 1].next = st[k + 1].next
      BY <1>0, <3>1
    <3> QED
      BY <3>1, <3>2 DEF Pending, L
  <2>2. CASE k = L - 1
    <3>1. i # st[L].next
      BY <1>2, <1>8, <2>2 DEF EntryIs
    <3>2. k + 1 = L /\ k < L /\ k < Len(new)
      BY <1>1, <2>2
    <3> QED
      BY <1>1, <3>1, <3>2 DEF Pending, L
  <2>3. CASE k = L
    <3>1. k < Len(new) /\ ~(k < L) /\ new[k + 1].next = 1 /\ i >= 1
      BY <1>1, <1>8, <2>3 DEF EntryIs
    <3> QED
      BY <1>6, <3>1 DEF Pending, L
  <2>4. CASE k > L
    <3>1. ~(k < Len(new)) /\ ~(k < L)
      BY <1>1, <2>4
    <3> QED
      BY <1>6, <1>7, <2>4, <3>1 DEF Pending, L
  <2> QED
    BY <1>1, <2>1, <2>2, <2>3, <2>4
<1> QED
  BY <1>5, <1>6, <1>8

-----------------------------------------------------------------------------
(* partition_scan.                                                         *)

\* ext_lba_base is set by the first entry that leads on, in the master boot record.
BaseFits(d, c, st, base) ==
    /\ Len(st) >= 2 => base = c[1]
    /\ Len(st) = 1 /\ Ahead(d, c, st) => base = 0

\* A volume is in the list or its entry will still be read, not both, until
\* logic_parts is full; no more logical volumes are read then.
Found(d, c, st, list, full) ==
    /\ \A k \in 0..Len(c), i \in Nat : EntryIs(d, c, k, i, "data") =>
          /\ Pending(d, c, st, k, i) => Vol(d, c, k, i) \notin ToSet(list)
          /\ full \/ Pending(d, c, st, k, i) \/ Vol(d, c, k, i) \in ToSet(list)
          /\ full /\ k # 0 => ~Pending(d, c, st, k, i)
    /\ full => ~Ahead(d, c, st)

\* partition_list has the partitions of the two arrays.
ListsFit ==
    /\ prim \in Seq(layout.volumes) /\ logic \in Seq(layout.volumes)
    /\ partition_list \in Seq(layout.volumes)
    /\ IsInjective(partition_list)
    /\ ToSet(partition_list) = ToSet(prim) \cup ToSet(logic)
    /\ Len(partition_list) = Len(prim) + Len(logic)
    /\ Len(logic) <= LogicMax
    /\ boot # "assert" => Len(prim) < PrimMax

ScanFits(c) ==
    /\ IsChain(layout, c)
    /\ StackFits(layout, c, stack)
    /\ BaseFits(layout, c, stack, ext_lba_base)
    /\ Found(layout, c, stack, partition_list, Len(logic) = LogicMax)
    /\ ListsFit
    /\ boot \notin {"scan", "assert"} => Len(stack) = 0

LEMMA AppendFacts ==
    ASSUME NEW V, NEW s \in Seq(V), NEW v \in V
    PROVE  /\ Append(s, v) \in Seq(V) /\ Len(s) \in Nat /\ Len(Append(s, v)) = Len(s) + 1
           /\ ToSet(Append(s, v)) = ToSet(s) \cup {v}
           /\ IsInjective(s) /\ v \notin ToSet(s) => IsInjective(Append(s, v))
<1> DEFINE t == Append(s, v)
<1>1. /\ t \in Seq(V) /\ Len(t) = Len(s) + 1 /\ Len(s) \in Nat
      /\ DOMAIN s = 1..Len(s) /\ DOMAIN t = 1..Len(s) + 1
      /\ \A i \in 1..Len(s) : t[i] = s[i]
      /\ t[Len(s) + 1] = v
  OBVIOUS
<1> HIDE DEF t
<1>2. ToSet(t) = ToSet(s) \cup {v}
  <2>1. ToSet(t) \subseteq ToSet(s) \cup {v}
    BY <1>1 DEF ToSet
  <2>2. ToSet(s) \subseteq ToSet(t)
    <3>1. \A i \in 1..Len(s) : i \in 1..Len(s) + 1
      BY <1>1
    <3> QED
      BY <1>1, <3>1 DEF ToSet
  <2>3. v \in ToSet(t)
    BY <1>1 DEF ToSet
  <2> QED
    BY <2>1, <2>2, <2>3
<1>3. ASSUME IsInjective(s), v \notin ToSet(s)
      PROVE  IsInjective(t)
  <2> SUFFICES ASSUME NEW i \in 1..Len(s) + 1, NEW j \in 1..Len(s) + 1, t[i] = t[j]
               PROVE  i = j
    BY <1>1 DEF IsInjective
  <2>1. \A k \in 1..Len(s) : s[k] # v
    BY <1>1, <1>3 DEF ToSet
  <2>2. \A k, l \in 1..Len(s) : s[k] = s[l] => k = l
    BY <1>1, <1>3 DEF IsInjective
  <2>3. CASE i \in 1..Len(s) /\ j \in 1..Len(s)
    BY <1>1, <2>2, <2>3
  <2>4. CASE i = Len(s) + 1 \/ j = Len(s) + 1
    BY <1>1, <2>1, <2>4
  <2> QED
    BY <1>1, <2>3, <2>4
<1> QED
  BY <1>1, <1>2, <1>3 DEF t

LEMMA StackSteps ==
    ASSUME NEW st \in Seq([lba : Nat, next : Nat]), Len(st) # 0
    PROVE  /\ IsAdvanced(st, [st EXCEPT ![Len(st)].next = @ + 1])
           /\ IsFront(st, Front(st))
           /\ Last(st) = st[Len(st)]
<1> DEFINE L == Len(st)
           R == [lba : Nat, next : Nat]
           up == [st EXCEPT ![L].next = @ + 1]
<1>0. L \in Nat \ {0} /\ DOMAIN st = 1..L /\ L \in 1..L /\ \A f \in 1..L : st[f] \in R
  <2>1. L \in Nat /\ DOMAIN st = 1..L
    OBVIOUS
  <2>2. \A f \in 1..Len(st) : st[f] \in R
    BY InSeq
  <2>3. L # 0
    OBVIOUS
  <2> QED
    BY <2>1, <2>2, <2>3
<1>1. IsAdvanced(st, up)
  <2>1. /\ up = [f \in 1..L |-> IF f = L THEN [st[f] EXCEPT !.next = @ + 1] ELSE st[f]]
        /\ \A f \in 1..L : st[f] \in R
    BY <1>0
  <2> HIDE DEF L, up
  <2>2. ASSUME NEW f \in 1..L
        PROVE  /\ up[f] \in R /\ up[f].lba = st[f].lba
               /\ up[f].next = IF f = L THEN st[f].next + 1 ELSE st[f].next
    <3>0. st[f] \in R /\ up[f] = IF f = L THEN [st[f] EXCEPT !.next = @ + 1] ELSE st[f]
      BY <2>1, Zenon
    <3>1. CASE f = L
      <4>1. up[f] = [st[f] EXCEPT !.next = @ + 1]
        BY <3>0, <3>1
      <4> QED
        BY <3>0, <3>1, <4>1
    <3>2. CASE f # L
      BY <3>0, <3>2
    <3> QED
      BY <3>1, <3>2
  <2>3. up \in [1..L -> R]
    BY <1>0, <2>1, <2>2
  <2>4. up \in Seq(R) /\ Len(up) = L
    BY <1>0, <2>3
  <2> QED
    BY <2>2, <2>4 DEF IsAdvanced, L
<1>2. IsFront(st, Front(st))
  <2> DEFINE t == SubSeq(st, 1, L - 1)
  <2>1. t \in Seq(R) /\ Len(t) = L - 1 /\ \A f \in 1..L - 1 : t[f] = st[f]
    <3> HIDE DEF L, R
    <3>1. L - 1 \in Int /\ \A i \in 1..L - 1 : st[i] \in R
      BY <1>0
    <3>2. /\ t \in Seq(R)
          /\ Len(t) = IF 1 <= L - 1 THEN (L - 1) - 1 + 1 ELSE 0
          /\ \A i \in 1..(L - 1) - 1 + 1 : t[i] = st[1 + i - 1]
      BY <3>1, SubSeqProperties
    <3> HIDE DEF t
    <3> QED
      BY <1>0, <3>2
  <2>2. Front(st) = t
    BY DEF Front
  <2> QED
    BY <2>1, <2>2 DEF IsFront
<1> QED
  BY <1>1, <1>2 DEF Last

LEMMA PushStep ==
    ASSUME NEW st \in Seq([lba : Nat, next : Nat]), NEW lba \in Nat
    PROVE  IsPushed(st, lba, Append(st, [lba |-> lba, next |-> 1]))
  BY DEF IsPushed

\* The entry that the last call is at.
LEMMA AtTop ==
    ASSUME NEW c, ScanFits(c), MoreEntries
    PROVE  /\ Len(stack) \in Nat \ {0} /\ Len(stack) - 1 \in 0..Len(c) /\ Len(c) \in Nat
           /\ boot = "scan"
           /\ AtEntry(layout, c, stack)
           /\ IsAdvanced(stack, Advanced)
           /\ stack[Len(stack)].next \in Nat \ {0}
           /\ Top.lba = Lba(c, Len(stack) - 1)
           /\ Top.lba = 0 <=> Len(stack) = 1
           /\ TheEntry = TableOf(layout, c, Len(stack) - 1)[stack[Len(stack)].next]
           /\ TheEntry \in [type : {"none", "data", "extended"}, start : Nat, count : Nat]
           /\ \A type : EntryIs(layout, c, Len(stack) - 1, stack[Len(stack)].next, type) <=>
                  TheEntry.type = type
<1> DEFINE L == Len(stack)
<1>1. /\ IsChain(layout, c) /\ StackFits(layout, c, stack) /\ boot = "scan" /\ stack # <<>>
      /\ stack \in Seq([lba : Nat, next : Nat])
      /\ L \in Nat /\ Len(c) \in Nat
  BY StackTypes DEF ScanFits, MoreEntries, StackFits
<1>2. L # 0
  BY <1>1
<1>3. /\ Top = stack[L] /\ IsAdvanced(stack, Advanced)
  BY <1>1, <1>2, StackSteps DEF Top, Advanced
<1>4. /\ L - 1 \in 0..Len(c) /\ stack[L].lba = Lba(c, L - 1)
      /\ stack[L].next \in Nat \ {0} /\ Len(TableOf(layout, c, L - 1)) \in Nat
  <2>1. L \in 1..Len(stack) /\ IsChain(layout, c) /\ StackFits(layout, c, stack)
    BY <1>1, <1>2
  <2> HIDE DEF L
  <2> QED
    BY <2>1, Frame
<1>5. stack[L].next \in 1..Len(TableOf(layout, c, L - 1))
  BY <1>3, <1>4 DEF MoreEntries, TableOf
<1>6. AtEntry(layout, c, stack)
  BY <1>2, <1>5 DEF AtEntry
<1>7. TheEntry = TableOf(layout, c, L - 1)[stack[L].next]
  BY <1>3, <1>4 DEF TheEntry, TableOf
<1>8. TheEntry \in [type : {"none", "data", "extended"}, start : Nat, count : Nat]
  <2>1. TableOf(layout, c, L - 1) \in
           Seq([type : {"none", "data", "extended"}, start : Nat, count : Nat])
    BY <1>1, <1>4 DEF IsChain
  <2> QED
    BY <1>5, <1>7, <2>1, InSeq
<1>9. Lba(c, L - 1) = 0 <=> L = 1
  <2> HIDE DEF L
  <2>1. L # 1 => L - 1 \in 1..Len(c)
    BY <1>1, <1>2, <1>4
  <2>2. (\A k \in 1..Len(c) : Lba(c, k) # 0) /\ Lba(c, 0) = 0
    BY <1>1, Zenon DEF IsChain
  <2>3. L = 1 => L - 1 = 0
    OBVIOUS
  <2> QED
    BY <2>1, <2>2, <2>3
<1>10. \A type : EntryIs(layout, c, L - 1, stack[L].next, type) <=> TheEntry.type = type
  BY <1>5, <1>7 DEF EntryIs
<1> QED
  BY <1>1, <1>2, <1>3, <1>4, <1>6, <1>7, <1>8, <1>9, <1>10

LEMMA FoundSame ==
    ASSUME NEW d, NEW c, NEW st, NEW new, NEW list, NEW full, Found(d, c, st, list, full),
           \A k \in 0..Len(c), i \in Nat :
              EntryIs(d, c, k, i, "data") =>
                 (Pending(d, c, new, k, i) <=> Pending(d, c, st, k, i)),
           full => ~Ahead(d, c, new)
    PROVE  Found(d, c, new, list, full)
  BY Zenon DEF Found

\* The entry that is read is put into the list.
LEMMA FoundMore ==
    ASSUME NEW d, NEW c, NEW st, NEW new, NEW list, NEW more, NEW full, IsChain(d, c),
           Found(d, c, st, list, full), NEW at \in 0..Len(c), NEW e \in Nat,
           EntryIs(d, c, at, e, "data"), Pending(d, c, st, at, e),
           \A k \in 0..Len(c), i \in Nat :
              Pending(d, c, new, k, i) <=> Pending(d, c, st, k, i) /\ ~(k = at /\ i = e),
           Ahead(d, c, new) <=> Ahead(d, c, st),
           ToSet(more) = ToSet(list) \cup {Vol(d, c, at, e)}
    PROVE  Vol(d, c, at, e) \notin ToSet(list) /\ Found(d, c, new, more, full)
<1>1. Vol(d, c, at, e) \notin ToSet(list)
  BY Zenon DEF Found
<1>2. ASSUME NEW k \in 0..Len(c), NEW i \in Nat, EntryIs(d, c, k, i, "data")
      PROVE  /\ Pending(d, c, new, k, i) => Vol(d, c, k, i) \notin ToSet(more)
             /\ full \/ Pending(d, c, new, k, i) \/ Vol(d, c, k, i) \in ToSet(more)
             /\ full /\ k # 0 => ~Pending(d, c, new, k, i)
  <2>1. /\ Pending(d, c, st, k, i) => Vol(d, c, k, i) \notin ToSet(list)
        /\ full \/ Pending(d, c, st, k, i) \/ Vol(d, c, k, i) \in ToSet(list)
        /\ full /\ k # 0 => ~Pending(d, c, st, k, i)
    BY <1>2, Zenon DEF Found
  <2>2. Pending(d, c, new, k, i) <=> Pending(d, c, st, k, i) /\ ~(k = at /\ i = e)
    OBVIOUS
  <2>3. Vol(d, c, k, i) = Vol(d, c, at, e) => k = at /\ i = e
    BY <1>2, Zenon DEF IsChain
  <2>4. Vol(d, c, k, i) \in ToSet(more) <=>
            Vol(d, c, k, i) \in ToSet(list) \/ Vol(d, c, k, i) = Vol(d, c, at, e)
    OBVIOUS
  <2> QED
    BY <2>1, <2>2, <2>3, <2>4
<1>3. full => ~Ahead(d, c, new)
  BY Zenon DEF Found
<1> QED
  BY <1>1, <1>2, <1>3 DEF Found

\* The last place of logic_parts is filled: the calls end, one after the other.
LEMMA FoundLast ==
    ASSUME NEW d, NEW c, NEW st, NEW new, NEW list, NEW more, IsChain(d, c),
           StackFits(d, c, st), IsFront(st, new), AtEntry(d, c, st),
           Found(d, c, st, list, FALSE), Len(st) # 1,
           EntryIs(d, c, Len(st) - 1, st[Len(st)].next, "data"),
           ToSet(more) = ToSet(list) \cup {Vol(d, c, Len(st) - 1, st[Len(st)].next)}
    PROVE  /\ Vol(d, c, Len(st) - 1, st[Len(st)].next) \notin ToSet(list)
           /\ Found(d, c, new, more, TRUE)
<1> DEFINE L == Len(st)
           e == st[L].next
<1>1. L \in Nat \ {0} /\ L - 1 \in 0..Len(c) /\ e \in Nat \ {0} /\ Len(c) \in Nat
  <2>1. L \in Nat \ {0} /\ Len(c) \in Nat /\ L \in 1..Len(st)
    BY StackTypes DEF AtEntry
  <2> QED
    BY <2>1, Frame
<1>2. /\ ~Ahead(d, c, new)
      /\ \A k \in 0..Len(c), i \in Nat :
            Pending(d, c, new, k, i) <=> k < L - 1 /\ Pending(d, c, st, k, i)
  BY FrontFits DEF AtEntry
<1>3. Pending(d, c, st, L - 1, e)
  BY <1>1 DEF Pending
<1>4. Vol(d, c, L - 1, e) \notin ToSet(list)
  BY <1>1, <1>3, Zenon DEF Found
<1>0. EntryIs(d, c, L - 1, e, "data") /\ e \in Nat
  BY <1>1
<1> HIDE DEF L, e
<1>5. ASSUME NEW k \in 0..Len(c), NEW i \in Nat, EntryIs(d, c, k, i, "data")
      PROVE  /\ Pending(d, c, new, k, i) => Vol(d, c, k, i) \notin ToSet(more)
             /\ k # 0 => ~Pending(d, c, new, k, i)
  <2>1. Pending(d, c, st, k, i) => Vol(d, c, k, i) \notin ToSet(list)
    BY <1>5, Zenon DEF Found
  <2>2. Vol(d, c, k, i) = Vol(d, c, L - 1, e) => k = L - 1
    BY <1>0, <1>1, <1>5, Zenon DEF IsChain
  <2>3. Pending(d, c, new, k, i) => Vol(d, c, k, i) \notin ToSet(more)
    BY <1>1, <1>2, <2>1, <2>2 DEF L, e
  <2>4. ASSUME k # 0, Pending(d, c, new, k, i)
        PROVE  FALSE
    <3>1. k < L - 1 /\ Pending(d, c, st, k, i)
      BY <1>2, <2>4
    <3>2. k + 1 \in 1..L /\ k < L /\ k + 1 < L /\ (k + 1) - 1 = k
      BY <1>1, <3>1
    <3>3. i >= st[k + 1].next
      BY <3>1, <3>2 DEF Pending, L
    <3>4. st[k + 1].next \in Nat \ {0} /\ EntryIs(d, c, k, st[k + 1].next - 1, "extended")
      <4>1. k + 1 \in 1..Len(st) /\ k + 1 < Len(st)
        BY <3>2 DEF L
      <4>2. st[k + 1].next \in Nat \ {0}
            /\ EntryIs(d, c, (k + 1) - 1, st[k + 1].next - 1, "extended")
        BY <4>1, Frame
      <4> QED
        BY <3>2, <4>2
    <3>5. st[k + 1].next - 1 \in Nat
      BY <3>4
    <3>6. i < st[k + 1].next - 1
      BY <1>5, <2>4, <3>4, <3>5, Zenon DEF IsChain
    <3> QED
      BY <3>3, <3>4, <3>6
  <2> QED
    BY <2>3, <2>4
<1> QED
  BY <1>2, <1>4, <1>5 DEF Found, L, e

LEMMA ListsKept ==
    ASSUME ListsFit, boot = "scan",
           UNCHANGED <<layout, prim, logic, partition_list>>, boot' # "assert"
    PROVE  ListsFit'
  BY DEF ListsFit

LEMMA SkipFits ==
    ASSUME NEW c, ScanFits(c), Skip, layout' = layout
    PROVE  ScanFits(c)'
<1> DEFINE L == Len(stack)
           e == stack[L].next
<1>1. /\ MoreEntries /\ stack' = Advanced /\ TheEntry.type = "none"
      /\ UNCHANGED <<ext_lba_base, prim, logic, partition_list, boot>>
  BY DEF Skip
<1>2. /\ IsChain(layout, c) /\ StackFits(layout, c, stack) /\ ListsFit
      /\ BaseFits(layout, c, stack, ext_lba_base)
      /\ Found(layout, c, stack, partition_list, Len(logic) = LogicMax)
  BY DEF ScanFits
<1>3. /\ boot = "scan" /\ AtEntry(layout, c, stack) /\ IsAdvanced(stack, Advanced)
      /\ \A type : EntryIs(layout, c, L - 1, e, type) <=> TheEntry.type = type
      /\ Len(Advanced) = L
  BY <1>1, AtTop DEF IsAdvanced
<1>4. ~EntryIs(layout, c, L - 1, e, "extended") /\ ~EntryIs(layout, c, L - 1, e, "data")
  BY <1>1, <1>3
<1>5. /\ StackFits(layout, c, Advanced)
      /\ Ahead(layout, c, Advanced) <=> Ahead(layout, c, stack)
      /\ \A k \in 0..Len(c), i \in Nat :
            Pending(layout, c, Advanced, k, i) <=>
               Pending(layout, c, stack, k, i) /\ ~(k = L - 1 /\ i = e)
  <2>1. /\ StackFits(layout, c, Advanced)
        /\ Ahead(layout, c, Advanced) <=> Ahead(layout, c, stack)
        /\ \A k \in 0..Len(c), i \in Nat :
              Pending(layout, c, Advanced, k, i) <=>
                 Pending(layout, c, stack, k, i)
                   /\ ~(k = Len(stack) - 1 /\ i = stack[Len(stack)].next)
    <3>1. /\ IsChain(layout, c) /\ StackFits(layout, c, stack)
          /\ AtEntry(layout, c, stack) /\ IsAdvanced(stack, Advanced)
          /\ ~EntryIs(layout, c, Len(stack) - 1, stack[Len(stack)].next, "extended")
      BY <1>2, <1>3, <1>4
    <3> QED
      BY <3>1, AdvanceFits
  <2> QED
    BY <2>1
<1>6. Found(layout, c, Advanced, partition_list, Len(logic) = LogicMax)
  <2>1. \A k \in 0..Len(c), i \in Nat :
           EntryIs(layout, c, k, i, "data") =>
              (Pending(layout, c, Advanced, k, i) <=> Pending(layout, c, stack, k, i))
    BY <1>4, <1>5, Zenon
  <2>2. Len(logic) = LogicMax => ~Ahead(layout, c, Advanced)
    BY <1>2, <1>5, Zenon DEF Found
  <2> QED
    BY <1>2, <2>1, <2>2, FoundSame
<1>7. BaseFits(layout, c, Advanced, ext_lba_base)
  BY <1>2, <1>3, <1>5 DEF BaseFits
<1>8. ListsFit'
  BY <1>1, <1>2, <1>3, ListsKept
<1> HIDE DEF L, e
<1> QED
  BY <1>1, <1>2, <1>3, <1>5, <1>6, <1>7, <1>8 DEF ScanFits

LEMMA ExtendedFits ==
    ASSUME NEW c, ScanFits(c), Extended, layout' = layout
    PROVE  ScanFits(c)'
<1> DEFINE L == Len(stack)
           e == stack[L].next
           lba == TheEntry.start + ext_lba_base
           new == Append(Advanced, [lba |-> lba, next |-> 1])
<1>1. /\ MoreEntries /\ stack' = new /\ TheEntry.type = "extended"
      /\ ext_lba_base' = IF ext_lba_base = 0 THEN TheEntry.start ELSE ext_lba_base
      /\ UNCHANGED <<prim, logic, partition_list, boot>>
  BY DEF Extended
<1>2. /\ IsChain(layout, c) /\ StackFits(layout, c, stack) /\ ListsFit
      /\ BaseFits(layout, c, stack, ext_lba_base)
      /\ Found(layout, c, stack, partition_list, Len(logic) = LogicMax)
  BY DEF ScanFits
<1>3. /\ boot = "scan" /\ AtEntry(layout, c, stack) /\ IsAdvanced(stack, Advanced)
      /\ EntryIs(layout, c, L - 1, e, "extended")
      /\ Len(Advanced) = L /\ L \in Nat \ {0} /\ L - 1 \in 0..Len(c) /\ e \in Nat \ {0}
      /\ Len(c) \in Nat
      /\ TheEntry = TableOf(layout, c, L - 1)[e] /\ TheEntry.start \in Nat
  BY <1>1, AtTop DEF IsAdvanced
<1>4. Ahead(layout, c, stack)
  BY <1>3 DEF Ahead
<1> HIDE DEF L, e
<1>5. /\ L - 1 < Len(c)
      /\ TheEntry.start + (IF L - 1 = 0 THEN 0 ELSE c[1]) = c[(L - 1) + 1]
  BY <1>2, <1>3 DEF IsChain
<1>6. L \in 1..Len(c) /\ 1 \in 1..Len(c) /\ (L - 1) + 1 = L
  BY <1>3, <1>5
<1>7. Lba(c, L) = c[L] /\ c[L] \in Nat \ {0} /\ c[1] \in Nat \ {0}
  BY <1>2, <1>6 DEF IsChain
<1>8. lba = c[L] /\ ext_lba_base' = c[1] /\ lba \in Nat
  <2>1. CASE L = 1
    <3>1. ext_lba_base = 0
      BY <1>2, <1>4, <2>1 DEF BaseFits, L
    <3>2. TheEntry.start = c[1]
      BY <1>3, <1>5, <2>1
    <3> QED
      BY <1>1, <1>7, <2>1, <3>1, <3>2
  <2>2. CASE L # 1
    <3>1. ext_lba_base = c[1]
      <4>1. L >= 2
        BY <1>3, <2>2
      <4> QED
        BY <1>2, <4>1 DEF BaseFits, L
    <3>2. TheEntry.start + c[1] = c[L]
      BY <1>3, <1>5, <1>6, <2>2
    <3> QED
      BY <1>1, <1>7, <3>1, <3>2
  <2> QED
    BY <2>1, <2>2
<1>9. IsPushed(Advanced, Lba(c, L), new)
  <2>1. Advanced \in Seq([lba : Nat, next : Nat])
    BY <1>3 DEF IsAdvanced
  <2> QED
    BY <1>7, <1>8, <2>1, PushStep
<1>10. /\ StackFits(layout, c, new)
       /\ \A k \in 0..Len(c), i \in Nat :
             EntryIs(layout, c, k, i, "data") =>
                (Pending(layout, c, new, k, i) <=> Pending(layout, c, stack, k, i))
  BY <1>2, <1>3, <1>9, PushFits DEF L, e
<1>11. Found(layout, c, new, partition_list, Len(logic) = LogicMax)
  <2>1. Len(logic) = LogicMax => ~Ahead(layout, c, stack)
    BY <1>2 DEF Found
  <2> QED
    BY <1>2, <1>4, <1>10, <2>1, FoundSame
<1>12. BaseFits(layout, c, new, c[1])
  <2>1. Len(new) = L + 1
    BY <1>3, <1>9 DEF IsPushed
  <2> QED
    BY <1>3, <2>1 DEF BaseFits
<1>13. ListsFit'
  BY <1>1, <1>2, <1>3, ListsKept
<1> HIDE DEF new
<1> QED
  BY <1>1, <1>2, <1>3, <1>8, <1>10, <1>11, <1>12, <1>13 DEF ScanFits

LEMMA ReadEntry ==
    ASSUME NEW c, ScanFits(c), MoreEntries, TheEntry.type = "data"
    PROVE  /\ [start |-> Top.lba + TheEntry.start, count |-> TheEntry.count]
                = Vol(layout, c, Len(stack) - 1, stack[Len(stack)].next)
           /\ Vol(layout, c, Len(stack) - 1, stack[Len(stack)].next) \in layout.volumes
           /\ EntryIs(layout, c, Len(stack) - 1, stack[Len(stack)].next, "data")
           /\ ~EntryIs(layout, c, Len(stack) - 1, stack[Len(stack)].next, "extended")
           /\ Pending(layout, c, stack, Len(stack) - 1, stack[Len(stack)].next)
<1> DEFINE L == Len(stack)
           e == stack[L].next
<1>1. /\ EntryIs(layout, c, L - 1, e, "data") /\ ~EntryIs(layout, c, L - 1, e, "extended")
      /\ L \in Nat \ {0} /\ L - 1 \in 0..Len(c) /\ e \in Nat \ {0}
      /\ Top.lba = Lba(c, L - 1) /\ TheEntry = TableOf(layout, c, L - 1)[e]
  BY AtTop
<1>2. Pending(layout, c, stack, L - 1, e)
  BY <1>1 DEF Pending
<1>3. [start |-> Top.lba + TheEntry.start, count |-> TheEntry.count] = Vol(layout, c, L - 1, e)
  <2> HIDE DEF L, e
  <2> QED
    BY <1>1 DEF Vol, VolumeAt, TableOf
<1>4. Vol(layout, c, L - 1, e) \in layout.volumes
  <2> HIDE DEF L, e
  <2> QED
    BY <1>1, Zenon DEF ScanFits, IsChain
<1> QED
  BY <1>1, <1>2, <1>3, <1>4

LEMMA PrimaryFits ==
    ASSUME NEW c, ScanFits(c), Primary, layout' = layout
    PROVE  ScanFits(c)'
<1> DEFINE L == Len(stack)
           e == stack[L].next
           part == [start |-> Top.lba + TheEntry.start, count |-> TheEntry.count]
           list == Append(partition_list, part)
<1>1. /\ MoreEntries /\ stack' = Advanced /\ TheEntry.type = "data" /\ Top.lba = 0
      /\ prim' = Append(prim, part) /\ partition_list' = list
      /\ boot' = IF Len(prim') < PrimMax THEN boot ELSE "assert"
      /\ ext_lba_base' = ext_lba_base /\ logic' = logic
  BY DEF Primary
<1>2. /\ IsChain(layout, c) /\ StackFits(layout, c, stack) /\ ListsFit
      /\ BaseFits(layout, c, stack, ext_lba_base)
      /\ Found(layout, c, stack, partition_list, Len(logic) = LogicMax)
  BY DEF ScanFits
<1>3. /\ boot = "scan" /\ AtEntry(layout, c, stack) /\ IsAdvanced(stack, Advanced)
      /\ Len(Advanced) = L /\ L - 1 \in 0..Len(c) /\ e \in Nat
  BY <1>1, AtTop DEF IsAdvanced
<1>4. /\ part = Vol(layout, c, L - 1, e) /\ part \in layout.volumes
      /\ EntryIs(layout, c, L - 1, e, "data") /\ ~EntryIs(layout, c, L - 1, e, "extended")
      /\ Pending(layout, c, stack, L - 1, e)
  BY <1>1, ReadEntry
<1>5. /\ StackFits(layout, c, Advanced)
      /\ Ahead(layout, c, Advanced) <=> Ahead(layout, c, stack)
      /\ \A k \in 0..Len(c), i \in Nat :
            Pending(layout, c, Advanced, k, i) <=>
               Pending(layout, c, stack, k, i) /\ ~(k = L - 1 /\ i = e)
  <2>1. /\ IsChain(layout, c) /\ StackFits(layout, c, stack)
        /\ AtEntry(layout, c, stack) /\ IsAdvanced(stack, Advanced)
        /\ ~EntryIs(layout, c, Len(stack) - 1, stack[Len(stack)].next, "extended")
    BY <1>2, <1>3, <1>4
  <2> QED
    BY <2>1, AdvanceFits
<1> HIDE DEF L, e, part
<1>6. /\ list \in Seq(layout.volumes) /\ Len(list) = Len(partition_list) + 1
      /\ ToSet(list) = ToSet(partition_list) \cup {part}
      /\ part \notin ToSet(partition_list) => IsInjective(list)
  <2>1. /\ partition_list \in Seq(layout.volumes) /\ part \in layout.volumes
        /\ IsInjective(partition_list)
    BY <1>2, <1>4 DEF ListsFit
  <2> QED
    BY <2>1, AppendFacts
<1>7. /\ part \notin ToSet(partition_list)
      /\ Found(layout, c, Advanced, list, Len(logic) = LogicMax)
  <2> HIDE DEF list
  <2>1. /\ IsChain(layout, c)
        /\ Found(layout, c, stack, partition_list, Len(logic) = LogicMax)
        /\ L - 1 \in 0..Len(c) /\ e \in Nat /\ EntryIs(layout, c, L - 1, e, "data")
        /\ Pending(layout, c, stack, L - 1, e)
    BY <1>2, <1>3, <1>4
  <2>2. ToSet(list) = ToSet(partition_list) \cup {Vol(layout, c, L - 1, e)}
    BY <1>4, <1>6
  <2>3. /\ Vol(layout, c, L - 1, e) \notin ToSet(partition_list)
        /\ Found(layout, c, Advanced, list, Len(logic) = LogicMax)
    BY <1>5, <2>1, <2>2, FoundMore
  <2> QED
    BY <1>4, <2>3
<1>8. BaseFits(layout, c, Advanced, ext_lba_base)
  BY <1>2, <1>3, <1>5 DEF BaseFits, L
<1>9. ListsFit'
  <2>1. /\ prim' \in Seq(layout.volumes) /\ Len(prim') = Len(prim) + 1 /\ Len(prim) \in Nat
        /\ ToSet(prim') = ToSet(prim) \cup {part}
    <3>1. prim \in Seq(layout.volumes) /\ part \in layout.volumes
      BY <1>2, <1>4 DEF ListsFit
    <3>2. LET new == Append(prim, part) IN
          /\ new \in Seq(layout.volumes) /\ Len(new) = Len(prim) + 1 /\ Len(prim) \in Nat
          /\ ToSet(new) = ToSet(prim) \cup {part}
      BY <3>1, AppendFacts
    <3> QED
      BY <1>1, <3>2
  <2>2. Len(logic) \in Nat
    BY <1>2 DEF ListsFit
  <2>3. boot' # "assert" => Len(prim') < PrimMax
    BY <1>1
  <2> HIDE DEF list
  <2>4. /\ Len(list) = Len(prim') + Len(logic)
        /\ ToSet(list) = ToSet(prim') \cup ToSet(logic)
    BY <1>2, <1>6, <2>1, <2>2 DEF ListsFit
  <2> QED
    BY <1>1, <1>2, <1>6, <1>7, <2>1, <2>3, <2>4 DEF ListsFit
<1>10. boot' \in {"scan", "assert"}
  BY <1>1, <1>3
<1> HIDE DEF list
<1> QED
  BY <1>1, <1>2, <1>5, <1>7, <1>8, <1>9, <1>10 DEF ScanFits

LEMMA LogicalFits ==
    ASSUME NEW c, ScanFits(c), Logical, layout' = layout
    PROVE  ScanFits(c)'
<1> DEFINE L == Len(stack)
           e == stack[L].next
           list == Append(partition_list, LogicalPart)
           logics == Append(logic, LogicalPart)
<1>1. /\ MoreEntries /\ TheEntry.type = "data" /\ Top.lba # 0
      /\ logic' = logics /\ partition_list' = list
      /\ stack' = IF Len(logics) >= LogicMax THEN Front(stack) ELSE Advanced
      /\ ext_lba_base' = ext_lba_base /\ prim' = prim /\ boot' = boot
  BY DEF Logical
<1>2. /\ IsChain(layout, c) /\ StackFits(layout, c, stack) /\ ListsFit
      /\ BaseFits(layout, c, stack, ext_lba_base)
      /\ Found(layout, c, stack, partition_list, Len(logic) = LogicMax)
  BY DEF ScanFits
<1>3. /\ boot = "scan" /\ AtEntry(layout, c, stack) /\ IsAdvanced(stack, Advanced)
      /\ Len(Advanced) = L /\ L \in Nat \ {0, 1} /\ L - 1 \in 0..Len(c) /\ e \in Nat
  BY <1>1, AtTop DEF IsAdvanced
<1>4. /\ LogicalPart = Vol(layout, c, L - 1, e) /\ LogicalPart \in layout.volumes
      /\ EntryIs(layout, c, L - 1, e, "data") /\ ~EntryIs(layout, c, L - 1, e, "extended")
      /\ Pending(layout, c, stack, L - 1, e)
  BY <1>1, ReadEntry DEF LogicalPart
<1>5. IsFront(stack, Front(stack))
  <2>1. Len(stack) # 0
    BY <1>3
  <2> QED
    BY <1>2, <2>1, StackSteps DEF StackFits
<1>6. /\ StackFits(layout, c, Advanced)
      /\ Ahead(layout, c, Advanced) <=> Ahead(layout, c, stack)
      /\ \A k \in 0..Len(c), i \in Nat :
            Pending(layout, c, Advanced, k, i) <=>
               Pending(layout, c, stack, k, i) /\ ~(k = L - 1 /\ i = e)
  <2>1. /\ IsChain(layout, c) /\ StackFits(layout, c, stack)
        /\ AtEntry(layout, c, stack) /\ IsAdvanced(stack, Advanced)
        /\ ~EntryIs(layout, c, Len(stack) - 1, stack[Len(stack)].next, "extended")
    BY <1>2, <1>3, <1>4
  <2> QED
    BY <2>1, AdvanceFits
<1>7. /\ StackFits(layout, c, Front(stack)) /\ ~Ahead(layout, c, Front(stack))
      /\ Len(Front(stack)) = L - 1
  BY <1>2, <1>3, <1>5, FrontFits DEF IsFront
<1> HIDE DEF L, e
<1>8. /\ list \in Seq(layout.volumes) /\ Len(list) = Len(partition_list) + 1
      /\ ToSet(list) = ToSet(partition_list) \cup {LogicalPart}
      /\ LogicalPart \notin ToSet(partition_list) => IsInjective(list)
  <2>1. /\ partition_list \in Seq(layout.volumes) /\ LogicalPart \in layout.volumes
        /\ IsInjective(partition_list)
    BY <1>2, <1>4 DEF ListsFit
  <2> QED
    BY <2>1, AppendFacts
<1>9. /\ logics \in Seq(layout.volumes) /\ Len(logics) = Len(logic) + 1 /\ Len(logic) \in Nat
      /\ ToSet(logics) = ToSet(logic) \cup {LogicalPart}
  <2>1. logic \in Seq(layout.volumes) /\ LogicalPart \in layout.volumes
    BY <1>2, <1>4 DEF ListsFit
  <2> QED
    BY <2>1, AppendFacts
<1>10. Len(logic) # LogicMax
  <2>1. L - 1 # 0
    BY <1>3
  <2> QED
    BY <1>2, <1>3, <1>4, <2>1, Zenon DEF Found
<1>11. Len(logic) < LogicMax /\ LogicMax \in Nat
  BY <1>2, <1>9, <1>10, PartitionsAssumption DEF ListsFit
<1> HIDE DEF list, logics
<1>12. Found(layout, c, stack, partition_list, FALSE)
  BY <1>2, <1>10
<1>13. CASE Len(logics) >= LogicMax
  <2>1. Len(logics) = LogicMax /\ stack' = Front(stack)
    BY <1>1, <1>9, <1>11, <1>13
  <2>2. LogicalPart \notin ToSet(partition_list) /\ Found(layout, c, Front(stack), list, TRUE)
    BY <1>2, <1>3, <1>4, <1>5, <1>8, <1>12, FoundLast DEF L, e
  <2>3. BaseFits(layout, c, Front(stack), ext_lba_base)
    BY <1>2, <1>3, <1>7 DEF BaseFits, L
  <2>4. ListsFit'
    BY <1>1, <1>2, <1>3, <1>8, <1>9, <1>11, <2>1, <2>2 DEF ListsFit
  <2> QED
    BY <1>1, <1>2, <1>3, <1>7, <2>1, <2>2, <2>3, <2>4 DEF ScanFits
<1>14. CASE Len(logics) < LogicMax
  <2>1. Len(logics) # LogicMax /\ stack' = Advanced
    BY <1>1, <1>9, <1>11, <1>14
  <2>2. LogicalPart \notin ToSet(partition_list) /\ Found(layout, c, Advanced, list, FALSE)
    <3>1. /\ IsChain(layout, c)
          /\ Found(layout, c, stack, partition_list, Len(logic) = LogicMax)
          /\ L - 1 \in 0..Len(c) /\ e \in Nat /\ EntryIs(layout, c, L - 1, e, "data")
          /\ Pending(layout, c, stack, L - 1, e)
      BY <1>2, <1>3, <1>4
    <3>2. ToSet(list) = ToSet(partition_list) \cup {Vol(layout, c, L - 1, e)}
      BY <1>4, <1>8
    <3>3. /\ Vol(layout, c, L - 1, e) \notin ToSet(partition_list)
          /\ Found(layout, c, Advanced, list, Len(logic) = LogicMax)
      BY <1>6, <3>1, <3>2, FoundMore
    <3> QED
      BY <1>4, <1>10, <3>3
  <2>3. BaseFits(layout, c, Advanced, ext_lba_base)
    BY <1>2, <1>3, <1>6 DEF BaseFits, L
  <2>4. ListsFit'
    BY <1>1, <1>2, <1>3, <1>8, <1>9, <1>11, <1>14, <2>1, <2>2 DEF ListsFit
  <2> QED
    BY <1>1, <1>2, <1>3, <1>6, <2>1, <2>2, <2>3, <2>4 DEF ScanFits
<1> QED
  BY <1>9, <1>11, <1>13, <1>14

LEMMA ReturnFits ==
    ASSUME NEW c, ScanFits(c), Return, layout' = layout
    PROVE  ScanFits(c)'
<1> DEFINE L == Len(stack)
           new == Front(stack)
<1>1. /\ boot = "scan" /\ stack # <<>> /\ ~MoreEntries /\ stack' = new
      /\ boot' = IF L = 1 THEN "format" ELSE boot
      /\ UNCHANGED <<ext_lba_base, prim, logic, partition_list>>
  BY DEF Return
<1>2. /\ IsChain(layout, c) /\ StackFits(layout, c, stack) /\ ListsFit
      /\ BaseFits(layout, c, stack, ext_lba_base)
      /\ Found(layout, c, stack, partition_list, Len(logic) = LogicMax)
  BY DEF ScanFits
<1>3. stack \in Seq([lba : Nat, next : Nat]) /\ L # 0 /\ L \in Nat /\ Len(c) \in Nat
  <2>1. stack \in Seq([lba : Nat, next : Nat])
    BY <1>2 DEF StackFits
  <2> QED
    BY <1>1, <1>2, <2>1 DEF IsChain
<1>4. IsFront(stack, new) /\ Top = stack[L]
  BY <1>3, StackSteps DEF Top
<1>5. /\ StackFits(layout, c, new) /\ ~Ahead(layout, c, new) /\ Len(new) = L - 1
      /\ \A k \in 0..Len(c), i \in Nat :
            Pending(layout, c, new, k, i) <=> k < L - 1 /\ Pending(layout, c, stack, k, i)
  BY <1>2, <1>3, <1>4, FrontFits DEF IsFront
<1>6. ~(stack[L].next <= Len(TableOf(layout, c, L - 1))) /\ stack[L].lba = Lba(c, L - 1)
      /\ stack[L].next \in Nat /\ Len(TableOf(layout, c, L - 1)) \in Nat
  <2>1. L \in 1..Len(stack)
    BY <1>3
  <2>2. /\ stack[L].lba = Lba(c, L - 1) /\ stack[L].next \in Nat
        /\ Len(TableOf(layout, c, L - 1)) \in Nat
    BY <1>2, <2>1, Frame
  <2>3. ~(stack[L].next <= Len(layout.tables[stack[L].lba]))
    BY <1>1, <1>4 DEF MoreEntries
  <2> QED
    BY <2>2, <2>3 DEF TableOf
<1> HIDE DEF L, new
<1>7. Found(layout, c, new, partition_list, Len(logic) = LogicMax)
  <2>1. ~Ahead(layout, c, stack)
    BY <1>6 DEF Ahead, EntryIs, L
  <2>2. ASSUME NEW k \in 0..Len(c), NEW i \in Nat, EntryIs(layout, c, k, i, "data")
        PROVE  Pending(layout, c, new, k, i) <=> Pending(layout, c, stack, k, i)
    <3>1. CASE k < L - 1
      BY <1>5, <3>1
    <3>2. CASE k = L - 1
      <4>1. k < L /\ k + 1 = L
        BY <1>3, <3>2
      <4>2. ~(i >= stack[L].next)
        BY <1>6, <2>2, <3>2 DEF EntryIs
      <4>3. ~Pending(layout, c, stack, k, i)
        BY <4>1, <4>2 DEF Pending, L
      <4> QED
        BY <1>5, <4>3
    <3>3. CASE k >= L
      <4>1. ~Pending(layout, c, stack, k, i)
        BY <1>3, <2>1, <3>3 DEF Pending, L
      <4> QED
        BY <1>5, <4>1
    <3> QED
      BY <1>3, <3>1, <3>2, <3>3
  <2> QED
    BY <1>2, <1>5, <2>2, FoundSame
<1>8. BaseFits(layout, c, new, ext_lba_base)
  BY <1>2, <1>3, <1>5 DEF BaseFits, L
<1>9. boot' # "assert" /\ (boot' # "scan" => Len(new) = 0)
  BY <1>1, <1>3, <1>5
<1>10. ListsFit'
  BY <1>1, <1>2, <1>9, ListsKept
<1> QED
  BY <1>1, <1>2, <1>5, <1>7, <1>8, <1>9, <1>10 DEF ScanFits

LEMMA BootInitFits ==
    ASSUME BootInit, NEW c, IsChain(layout, c)
    PROVE  ScanFits(c)
<1> DEFINE st == <<[lba |-> 0, next |-> 1]>>
<1>1. /\ stack = st /\ ext_lba_base = 0 /\ boot = "scan" /\ prim = <<>> /\ logic = <<>>
      /\ partition_list = <<>>
  BY DEF BootInit
<1>2. /\ st \in Seq([lba : Nat, next : Nat]) /\ Len(st) = 1 /\ st[1].lba = 0 /\ st[1].next = 1
  OBVIOUS
<1> HIDE DEF st
<1>3. Len(c) \in Nat /\ Lba(c, 0) = 0
  BY DEF IsChain
<1>4. Len(TableOf(layout, c, 0)) \in Nat
  BY <1>3, InSeq DEF IsChain
<1>5. StackFits(layout, c, st)
  BY <1>2, <1>3, <1>4 DEF StackFits
<1>6. BaseFits(layout, c, st, 0)
  BY <1>2 DEF BaseFits
<1>7. LogicMax # 0 /\ LogicMax \in Nat /\ PrimMax # 0 /\ PrimMax \in Nat
  BY PartitionsAssumption
<1>8. Found(layout, c, st, <<>>, FALSE)
  <2>1. ASSUME NEW k \in 0..Len(c), NEW i \in Nat, EntryIs(layout, c, k, i, "data")
        PROVE  Pending(layout, c, st, k, i)
    <3>1. CASE k = 0
      BY <1>2, <2>1, <3>1 DEF Pending, EntryIs
    <3>2. CASE k # 0
      <4>1. 0 < Len(c) /\ 0 \in 0..Len(c)
        BY <1>3, <3>2
      <4>2. PICK j \in Nat : EntryIs(layout, c, 0, j, "extended")
        BY <4>1 DEF IsChain
      <4>3. Ahead(layout, c, st)
        BY <1>2, <4>2 DEF Ahead, EntryIs
      <4> QED
        BY <1>2, <3>2, <4>3 DEF Pending
    <3> QED
      BY <3>1, <3>2
  <2>2. \A v : v \notin ToSet(<<>>)
    BY DEF ToSet
  <2> QED
    BY <2>1, <2>2 DEF Found
<1>9. ListsFit
  BY <1>1, <1>7 DEF ListsFit, ToSet, IsInjective
<1>10. Len(logic) # LogicMax
  BY <1>1, <1>7
<1> QED
  BY <1>1, <1>5, <1>6, <1>8, <1>9, <1>10 DEF ScanFits

-----------------------------------------------------------------------------
(* What the scan has found when it ends.                                   *)

LEMMA VolumeFacts ==
    ASSUME NEW d, AsFdisk(d), NEW v \in d.volumes
    PROVE  /\ v.start \in Nat /\ v.count \in Nat \ {0} /\ v.start \in Sects(v)
           /\ Sects(v) \subseteq (0..d.size - 1) \ DOMAIN d.tables
           /\ FreeSects(v) \in Nat /\ BlockCount(v) \in Nat \ {0}
<1>1. /\ Sects(v) \subseteq (0..d.size - 1) \ DOMAIN d.tables
      /\ FreeSects(v) \in Nat /\ BlockCount(v) \in Nat \ {0}
  BY Zenon DEF AsFdisk
<1>2. /\ DOMAIN d.tables \subseteq 0..d.size - 1
      /\ \A lba \in DOMAIN d.tables :
            d.tables[lba] \in Seq([type : {"none", "data", "extended"}, start : Nat, count : Nat])
      /\ d.size \in Nat
      /\ d.volumes = {VolumeAt(d, s[1], s[2]) : s \in Slots(d)}
  BY DEF AsFdisk
<1>3. PICK s \in Slots(d) : v = VolumeAt(d, s[1], s[2])
  BY <1>2
<1>4. s[1] \in DOMAIN d.tables /\ s[2] \in DOMAIN d.tables[s[1]]
  BY DEF Slots
<1>5. d.tables[s[1]][s[2]] \in [type : {"none", "data", "extended"}, start : Nat, count : Nat]
  <2> DEFINE t == d.tables[s[1]]
             i == s[2]
  <2>1. t \in Seq([type : {"none", "data", "extended"}, start : Nat, count : Nat])
    BY <1>2, <1>4
  <2>2. i \in DOMAIN t
    BY <1>4
  <2> HIDE DEF t, i
  <2>3. i \in 1..Len(t)
    BY <2>1, <2>2
  <2>4. t[i] \in [type : {"none", "data", "extended"}, start : Nat, count : Nat]
    BY <2>1, <2>3, InSeq
  <2> QED
    BY <2>4 DEF t, i
<1>6. s[1] \in Nat
  BY <1>2, <1>4
<1>7. v.start \in Nat /\ v.count \in Nat
  BY <1>3, <1>5, <1>6 DEF VolumeAt
<1>8. v.count # 0
  BY <1>1, <1>7, PartitionsAssumption DEF FreeSects
<1> QED
  BY <1>1, <1>7, <1>8 DEF Sects

LEMMA VolumesApart ==
    ASSUME NEW d, AsFdisk(d), NEW v \in d.volumes, NEW w \in d.volumes, v # w
    PROVE  Sects(v) \cap Sects(w) = {}
<1>1. d.volumes = {VolumeAt(d, s[1], s[2]) : s \in Slots(d)}
  BY DEF AsFdisk
<1>2. PICK s \in Slots(d) : v = VolumeAt(d, s[1], s[2])
  BY <1>1
<1>3. PICK r \in Slots(d) : w = VolumeAt(d, r[1], r[2])
  BY <1>1
<1>4. s # r
  BY <1>2, <1>3
<1>5. \A x, y \in Slots(d) : x # y =>
         Sects(VolumeAt(d, x[1], x[2])) \cap Sects(VolumeAt(d, y[1], y[2])) = {}
  BY DEF AsFdisk
<1>6. Sects(VolumeAt(d, s[1], s[2])) \cap Sects(VolumeAt(d, r[1], r[2])) = {}
  BY <1>4, <1>5, Zenon
<1> QED
  BY <1>2, <1>3, <1>6

LEMMA VolumesFinite ==
    ASSUME NEW d, AsFdisk(d)
    PROVE  IsFiniteSet(d.volumes)
<1> DEFINE V == d.volumes
           f == [v \in V |-> v.start]
<1>1. d.size \in Nat
  BY DEF AsFdisk
<1>2. \A v \in V : v.start \in Sects(v) /\ v.start \in 0..d.size - 1
  BY VolumeFacts
<1>3. \A v, w \in V : v.start = w.start => v = w
  BY <1>2, VolumesApart
<1>4. f \in Injection(V, 0..d.size - 1)
  BY <1>2, <1>3 DEF Injection, IsInjective
<1>5. IsFiniteSet(0..d.size - 1)
  BY <1>1, FS_Interval
<1> QED
  BY <1>4, <1>5, FS_Injection

LEMMA InjectiveLen ==
    ASSUME NEW S, NEW s \in Seq(S), IsInjective(s)
    PROVE  IsFiniteSet(ToSet(s)) /\ Cardinality(ToSet(s)) = Len(s) /\ Len(s) \in Nat
<1> DEFINE n == Len(s)
           R == ToSet(s)
<1>1. n \in Nat /\ DOMAIN s = 1..n /\ s = [i \in 1..n |-> s[i]]
  OBVIOUS
<1>2. \A i \in 1..n : s[i] \in R
  BY <1>1 DEF ToSet
<1>3. \A r \in R : \E i \in 1..n : s[i] = r
  BY <1>1 DEF ToSet
<1>4. \A i, j \in 1..n : s[i] = s[j] => i = j
  BY <1>1 DEF IsInjective
<1> DEFINE f == [i \in 1..n |-> s[i]]
<1> HIDE DEF n, R
<1>5. f \in Bijection(1..n, R)
  <2>1. f \in [1..n -> R] /\ \A i \in 1..n : f[i] = s[i]
    BY <1>2
  <2> HIDE DEF f
  <2>2. \A i, j \in 1..n : f[i] = f[j] => i = j
    BY <1>4, <2>1
  <2>3. \A r \in R : \E i \in 1..n : f[i] = r
    BY <1>3, <2>1
  <2> QED
    BY <2>1, <2>2, <2>3 DEF Bijection, Injection, Surjection, IsInjective
<1>6. ExistsBijection(1..n, R)
  BY <1>5 DEF ExistsBijection
<1>7. IsFiniteSet(1..n) /\ Cardinality(1..n) = n
  <2>1. 1 \in Int /\ n \in Int
    BY <1>1
  <2>2. IsFiniteSet(1..n) /\ Cardinality(1..n) = IF 1 > n THEN 0 ELSE n - 1 + 1
    BY <2>1, FS_Interval
  <2>3. 1 > n => n = 0
    BY <1>1
  <2>4. ~(1 > n) => n - 1 + 1 = n
    BY <1>1
  <2> QED
    BY <2>2, <2>3, <2>4
<1> QED
  BY <1>1, <1>6, <1>7, FS_Bijection DEF n, R

LEMMA MinOfTwo ==
    ASSUME NEW a \in Nat, NEW b \in Nat, a <= b
    PROVE  Min({a, b}) = a /\ Min({b, a}) = a
<1>1. {a, b} \subseteq Nat /\ {a, b} # {} /\ {b, a} = {a, b}
  OBVIOUS
<1>2. Min({a, b}) \in {a, b} /\ \A y \in {a, b} : Min({a, b}) <= y
  BY <1>1, MinLemma
<1> QED
  BY <1>1, <1>2

LEMMA FoundAll ==
    ASSUME NEW c, ScanFits(c), AsFdisk(layout)
    PROVE  VolumesFound
<1> SUFFICES ASSUME boot \in {"format", "mount"} \/ Mounted
             PROVE  /\ ToSet(partition_list) \subseteq layout.volumes
                    /\ IsInjective(partition_list)
                    /\ Len(partition_list)
                         = Min({Cardinality(layout.volumes), Len(prim) + LogicMax})
  BY DEF VolumesFound
<1> DEFINE list == partition_list
           V == layout.volumes
           most == Len(prim) + LogicMax
<1>1. Len(stack) = 0
  BY DEF ScanFits, Mounted
<1>2. list \in Seq(V) /\ IsInjective(list) /\ ListsFit
  BY DEF ScanFits, ListsFit
<1>3. ToSet(list) \subseteq V
  <2>1. \A i \in 1..Len(list) : list[i] \in V
    BY <1>2, InSeq
  <2> QED
    BY <1>2, <2>1 DEF ToSet
<1>4. /\ Len(list) \in Nat /\ Cardinality(ToSet(list)) = Len(list)
      /\ IsFiniteSet(V) /\ Cardinality(V) \in Nat /\ Len(list) <= Cardinality(V)
  <2>1. Cardinality(ToSet(list)) = Len(list) /\ Len(list) \in Nat
    BY <1>2, InjectiveLen
  <2>2. IsFiniteSet(V)
    BY VolumesFinite
  <2>3. Cardinality(V) \in Nat /\ Cardinality(ToSet(list)) <= Cardinality(V)
    BY <1>3, <2>2, FS_CardinalityType, FS_Subset
  <2> QED
    BY <2>1, <2>2, <2>3
<1>5. /\ Len(prim) \in Nat /\ Len(logic) \in Nat /\ LogicMax \in Nat
      /\ Len(list) = Len(prim) + Len(logic) /\ Len(logic) <= LogicMax
  BY <1>2, PartitionsAssumption DEF ListsFit
<1>6. CASE Len(logic) = LogicMax
  <2>1. Len(list) = most /\ most \in Nat
    BY <1>5, <1>6
  <2> HIDE DEF most
  <2>2. Min({Cardinality(V), most}) = most
    BY <1>4, <2>1, MinOfTwo
  <2> QED
    BY <1>2, <1>3, <2>1, <2>2 DEF most
<1>7. CASE Len(logic) # LogicMax
  <2>1. ASSUME NEW v \in V
        PROVE  v \in ToSet(list)
    <3>1. PICK k \in 0..Len(c), i \in Nat :
             EntryIs(layout, c, k, i, "data") /\ v = Vol(layout, c, k, i)
      BY DEF ScanFits, IsChain
    <3>2. ~Pending(layout, c, stack, k, i)
      <4>1. ~(k < Len(stack)) /\ ~Ahead(layout, c, stack)
        BY <1>1 DEF Ahead
      <4> QED
        BY <4>1 DEF Pending
    <3>3. Found(layout, c, stack, list, Len(logic) = LogicMax)
      BY DEF ScanFits
    <3> QED
      BY <1>7, <3>1, <3>2, <3>3, Zenon DEF Found
  <2>2. ToSet(list) = V
    BY <1>3, <2>1
  <2>3. Len(list) = Cardinality(V) /\ Len(list) <= most /\ most \in Nat
    BY <1>4, <1>5, <2>2
  <2> HIDE DEF most
  <2>4. Min({Cardinality(V), most}) = Cardinality(V)
    BY <1>4, <2>3, MinOfTwo
  <2> QED
    BY <1>2, <1>3, <2>3, <2>4 DEF most
<1> QED
  BY <1>6, <1>7

-----------------------------------------------------------------------------
(* partition_format.                                                       *)

RootPart(v) == v.start + 2 + BlockMapSects(v) + InodeMapSects + InodeSects

\* The areas and the blocks behind them fill a volume without leaving it.
LEMMA VolumeRoom ==
    ASSUME NEW d, AsFdisk(d), NEW v \in d.volumes
    PROVE  /\ v.start \in Nat /\ v.count \in Nat /\ BlockCount(v) \in Nat \ {0}
           /\ BlockMapSects(v) \in Nat /\ InodeMapSects \in Nat /\ InodeSects \in Nat
           /\ RootPart(v) + BlockCount(v) <= v.start + v.count
<1> DEFINE F == FreeSects(v)
           B == BlockCount(v)
           U == SectorBits
           m == BlockMapSects(v)
           M == RoundUp(F, U)
<1>1. /\ v.start \in Nat /\ v.count \in Nat /\ F \in Nat /\ B \in Nat \ {0}
      /\ InodeMapSects \in Nat /\ InodeSects \in Nat
  BY VolumeFacts, PartitionsAssumption
<1>2. U \in Nat \ {0}
  <2>1. \A x, y \in Nat \ {0} : x * y \in Nat \ {0}
    OBVIOUS
  <2> QED
    BY <2>1, PartitionsAssumption DEF SectorBits
<1>3. B = F - M /\ m = RoundUp(B, U) /\ F = v.count - (2 + InodeMapSects + InodeSects)
  BY DEF BlockCount, BlockMapSects, FreeSects
<1> HIDE DEF F, B, U, m
<1>4. M \in Nat
  BY <1>1, <1>2, DivMod DEF RoundUp
<1>5. m \in Nat /\ m <= M
  <2> DEFINE x == B + U - 1
             y == F + U - 1
  <2>1. x \in Nat /\ y \in Nat /\ x <= y /\ U > 0
    <3> HIDE DEF M
    <3> QED
      BY <1>1, <1>2, <1>3, <1>4
  <2>2. m = x \div U /\ M = y \div U
    BY <1>3 DEF RoundUp
  <2> HIDE DEF x, y, M
  <2> QED
    BY <1>2, <2>1, <2>2, DivMod, DivMonotone
<1> HIDE DEF M
<1>6. RootPart(v) + B <= v.start + v.count
  <2>1. RootPart(v) = v.start + 2 + m + InodeMapSects + InodeSects
    BY DEF RootPart, m
  <2> QED
    BY <1>1, <1>3, <1>4, <1>5, <2>1
<1> QED
  BY <1>1, <1>5, <1>6 DEF m, B

LEMMA AreaFacts ==
    ASSUME NEW d, AsFdisk(d), NEW v \in d.volumes
    PROVE  /\ \A a \in AreaNames : Areas(v)[a] \subseteq Sects(v)
           /\ \A a, b \in AreaNames : a # b => Areas(v)[a] \cap Areas(v)[b] = {}
           /\ Areas(v).root = {RootPart(v)}
<1> DEFINE s == v.start
           m == BlockMapSects(v)
           i == s + 2 + m
           t == i + InodeMapSects
           r == t + InodeSects
           n == s + v.count
<1>1. /\ s \in Nat /\ m \in Nat /\ n \in Nat /\ InodeMapSects \in Nat /\ InodeSects \in Nat
      /\ v.count \in Nat /\ r < n /\ RootPart(v) = r
  BY VolumeRoom DEF RootPart
<1>2. /\ Areas(v).super = s + 1..s + 1
      /\ Areas(v).blockmap = s + 2..i - 1
      /\ Areas(v).inodemap = i..t - 1
      /\ Areas(v).inodes = t..r - 1
      /\ Areas(v).root = {r}
  BY DEF Areas
<1>3. /\ s + 2 <= i /\ i <= t /\ t <= r /\ i \in Nat /\ t \in Nat /\ r \in Nat
  BY <1>1
<1>4. Sects(v) = s..n - 1
  <2>1. v.start + v.count - 1 = n - 1
    BY <1>1
  <2> QED
    BY <2>1 DEF Sects
<1> HIDE DEF s, m, i, t, r, n
<1>5. ASSUME NEW a \in AreaNames
      PROVE  Areas(v)[a] \subseteq Sects(v)
  <2>1. CASE a = "super"
    BY <1>1, <1>2, <1>3, <1>4, <2>1
  <2>2. CASE a = "blockmap"
    BY <1>1, <1>2, <1>3, <1>4, <2>2
  <2>3. CASE a = "inodemap"
    BY <1>1, <1>2, <1>3, <1>4, <2>3
  <2>4. CASE a = "inodes"
    BY <1>1, <1>2, <1>3, <1>4, <2>4
  <2>5. CASE a = "root"
    BY <1>1, <1>2, <1>3, <1>4, <2>5
  <2> QED
    BY <2>1, <2>2, <2>3, <2>4, <2>5 DEF AreaNames
<1>6. ASSUME NEW a \in AreaNames, NEW b \in AreaNames, a # b,
             NEW lba \in Areas(v)[a], lba \in Areas(v)[b]
      PROVE  FALSE
  BY <1>1, <1>2, <1>3, <1>6 DEF AreaNames
<1> QED
  BY <1>1, <1>2, <1>5, <1>6

\* The bits that are left free, but for the last one, are blocks.
LEMMA FreeBitsFacts ==
    ASSUME NEW d, AsFdisk(d), NEW v \in d.volumes, NEW bit \in FreeBits(v) \ {BlockCount(v)}
    PROVE  Min(Areas(v).root) + bit \in v.start..v.start + v.count - 1
<1> DEFINE B == BlockCount(v)
           q == B \div ByteBits
           k == B % ByteBits
           last == q * ByteBits
<1>1. /\ B \in Nat /\ v.start \in Nat /\ v.count \in Nat /\ BlockMapSects(v) \in Nat
      /\ InodeMapSects \in Nat /\ InodeSects \in Nat
      /\ RootPart(v) + B <= v.start + v.count /\ RootPart(v) \in Nat /\ v.start <= RootPart(v)
  BY VolumeRoom DEF RootPart
<1>2. ByteBits \in Nat /\ ByteBits > 0
  BY PartitionsAssumption
<1>3. q \in Nat /\ k \in Nat /\ B = ByteBits * q + k
  BY <1>1, <1>2, DivMod
<1>4. bit \in (0..last - 1) \cup (last..last + k) /\ bit # B
  BY DEF FreeBits
<1> HIDE DEF B, q, k
<1>5. last \in Nat /\ last + k = B
  BY <1>2, <1>3
<1> HIDE DEF last
<1>6. bit \in 0..B - 1
  BY <1>3, <1>4, <1>5
<1>7. Min(Areas(v).root) = RootPart(v)
  <2>1. Areas(v).root = {RootPart(v)}
    BY AreaFacts
  <2>2. {RootPart(v)} \subseteq Nat /\ {RootPart(v)} # {}
    BY <1>1
  <2> QED
    BY <2>1, <2>2, MinLemma
<1> QED
  BY <1>1, <1>6, <1>7

\* What is on the disk of the partitions that have been formatted.
WrittenOn(v) == \A a \in AreaNames : \A lba \in Areas(v)[a] : sector[lba] = <<a, v>>

FormatFits ==
    /\ DOMAIN sector = 0..layout.size - 1
    /\ \A lba \in DOMAIN layout.tables : sector[lba] = "table"
    /\ part_idx \in 0..PrimMax + LogicMax
    /\ \A i \in Nat : i < part_idx /\ PartAt(i) \in layout.volumes => WrittenOn(PartAt(i))
    /\ boot \in {"scan", "assert", "format", "mount", "done", "null"}
    /\ boot \in {"scan", "assert"} => part_idx = 0
    /\ boot = "mount" \/ Mounted => part_idx = PrimMax + LogicMax

LEMMA BootInitFormat ==
    ASSUME BootInit, AsFdisk(layout)
    PROVE  FormatFits
<1>1. /\ part_idx = 0 /\ boot = "scan"
      /\ sector = [lba \in 0..layout.size - 1 |->
                     IF lba \in DOMAIN layout.tables THEN "table" ELSE "other"]
  BY DEF BootInit
<1>2. DOMAIN layout.tables \subseteq 0..layout.size - 1
  BY DEF AsFdisk
<1>3. 0 \in 0..PrimMax + LogicMax
  BY PartitionsAssumption
<1> QED
  BY <1>1, <1>2, <1>3 DEF FormatFits, Mounted

LEMMA ScanFormat ==
    ASSUME FormatFits, Scan
    PROVE  FormatFits'
<1>1. /\ boot = "scan" /\ boot' \in {"scan", "assert", "format"}
      /\ UNCHANGED <<layout, part_idx, sector, cur_part>>
  BY DEF Scan, Skip, Extended, Primary, Logical, Return, MoreEntries
<1>2. part_idx = 0
  BY <1>1 DEF FormatFits
<1> QED
  BY <1>1, <1>2 DEF FormatFits, Mounted

LEMMA MountFormat ==
    ASSUME FormatFits, Mount
    PROVE  FormatFits'
  BY DEF FormatFits, Mount, Mounted, PartAt, WrittenOn

\* A partition that is formatted is written all over its areas, and nothing else is.
LEMMA FormattedFacts ==
    ASSUME AsFdisk(layout), DOMAIN sector = 0..layout.size - 1,
           NEW part \in layout.volumes
    PROVE  /\ DOMAIN Formatted(part) = DOMAIN sector
           /\ \A a \in AreaNames : \A lba \in Areas(part)[a] :
                 lba \in DOMAIN sector /\ Formatted(part)[lba] = <<a, part>>
           /\ \A lba \in DOMAIN sector :
                 lba \notin Sects(part) => Formatted(part)[lba] = sector[lba]
<1> DEFINE Here(lba) == {a \in AreaNames : lba \in Areas(part)[a]}
<1>1. /\ \A a \in AreaNames : Areas(part)[a] \subseteq Sects(part)
      /\ \A a, b \in AreaNames : a # b => Areas(part)[a] \cap Areas(part)[b] = {}
  BY AreaFacts
<1>2. Sects(part) \subseteq DOMAIN sector
  BY VolumeFacts
<1>3. Formatted(part) = [lba \in DOMAIN sector |->
          IF Here(lba) = {} THEN sector[lba] ELSE <<CHOOSE a \in Here(lba) : TRUE, part>>]
  BY DEF Formatted
<1>4. ASSUME NEW a \in AreaNames, NEW lba \in Areas(part)[a]
      PROVE  lba \in DOMAIN sector /\ Formatted(part)[lba] = <<a, part>>
  <2>1. lba \in DOMAIN sector
    BY <1>1, <1>2, <1>4
  <2>2. Here(lba) = {a}
    BY <1>1, <1>4
  <2>3. (CHOOSE b \in Here(lba) : TRUE) = a
    BY <2>2
  <2> HIDE DEF Here
  <2> QED
    BY <1>3, <2>1, <2>2, <2>3
<1>5. ASSUME NEW lba \in DOMAIN sector, lba \notin Sects(part)
      PROVE  Formatted(part)[lba] = sector[lba]
  <2>1. Here(lba) = {}
    BY <1>1, <1>5
  <2> HIDE DEF Here
  <2> QED
    BY <1>3, <2>1
<1>6. DOMAIN Formatted(part) = DOMAIN sector
  BY DEF Formatted
<1> QED
  BY <1>4, <1>5, <1>6

LEMMA PartAtFacts ==
    ASSUME ListsFit, NEW i \in Nat, i < PrimMax + LogicMax
    PROVE  PartAt(i) \in layout.volumes \/ PartAt(i) = NoPart
<1>1. /\ prim \in Seq(layout.volumes) /\ logic \in Seq(layout.volumes)
      /\ Len(prim) \in Nat /\ Len(logic) \in Nat /\ PrimMax \in Nat
  BY PartitionsAssumption DEF ListsFit
<1>2. CASE i < PrimMax /\ i < Len(prim)
  <2>1. i + 1 \in 1..Len(prim)
    BY <1>1, <1>2
  <2>2. prim[i + 1] \in layout.volumes
    BY <1>1, <2>1, InSeq
  <2> QED
    BY <1>2, <2>2 DEF PartAt
<1>3. CASE ~(i < PrimMax) /\ i - PrimMax < Len(logic)
  <2>1. i - PrimMax + 1 \in 1..Len(logic)
    BY <1>1, <1>3
  <2>2. logic[i - PrimMax + 1] \in layout.volumes
    BY <1>1, <2>1, InSeq
  <2> QED
    BY <1>3, <2>2 DEF PartAt
<1> QED
  BY <1>2, <1>3 DEF PartAt

LEMMA FormatFormat ==
    ASSUME FormatFits, ListsFit, AsFdisk(layout), Format
    PROVE  FormatFits'
<1> DEFINE part == PartAt(part_idx)
<1>1. /\ boot = "format" /\ UNCHANGED <<layout, prim, logic>>
      /\ part_idx \in 0..PrimMax + LogicMax /\ DOMAIN sector = 0..layout.size - 1
      /\ PrimMax \in Nat /\ LogicMax \in Nat
      /\ \A lba \in DOMAIN layout.tables : sector[lba] = "table"
      /\ \A i \in Nat : i < part_idx /\ PartAt(i) \in layout.volumes => WrittenOn(PartAt(i))
  BY PartitionsAssumption DEF Format, FormatFits
<1>2. \A i \in Nat : PartAt(i)' = PartAt(i)
  BY <1>1 DEF PartAt
<1>3. CASE part_idx = PrimMax + LogicMax
  <2>1. boot' = "mount" /\ part_idx' = part_idx /\ sector' = sector
    BY <1>3 DEF Format
  <2> QED
    BY <1>1, <1>2, <1>3, <2>1 DEF FormatFits, Mounted, WrittenOn
<1>4. CASE part_idx # PrimMax + LogicMax
  <2>1. /\ sector' = IF part.count = 0 THEN sector ELSE Formatted(part)
        /\ part_idx' = part_idx + 1 /\ boot' = boot
    BY <1>4 DEF Format
  <2>2. part_idx \in Nat /\ part_idx < PrimMax + LogicMax
    BY <1>1, <1>4
  <2>3. part \in layout.volumes \/ part = NoPart
    BY <2>2, PartAtFacts
  <2> HIDE DEF part
  <2>4. CASE part = NoPart
    <3>1. sector' = sector
      BY <2>1, <2>4 DEF NoPart
    <3>2. NoPart \notin layout.volumes
      BY VolumeFacts DEF NoPart
    <3>3. ASSUME NEW i \in Nat, i < part_idx', PartAt(i) \in layout.volumes
          PROVE  \A a \in AreaNames : \A lba \in Areas(PartAt(i))[a] :
                    sector'[lba] = <<a, PartAt(i)>>
      <4>1. i # part_idx
        BY <2>4, <3>2, <3>3 DEF part
      <4>2. WrittenOn(PartAt(i))
        BY <1>1, <2>1, <2>2, <3>3, <4>1
      <4> QED
        BY <3>1, <4>2 DEF WrittenOn
    <3> QED
      <4>1. /\ DOMAIN sector' = 0..layout.size - 1
            /\ \A lba \in DOMAIN layout.tables : sector'[lba] = "table"
            /\ part_idx' \in 0..PrimMax + LogicMax
        <5>1. DOMAIN sector' = 0..layout.size - 1
          BY <1>1, <3>1
        <5>2. \A lba \in DOMAIN layout.tables : sector'[lba] = "table"
          BY <1>1, <3>1
        <5>3. part_idx' \in 0..PrimMax + LogicMax
          BY <1>1, <2>1, <2>2
        <5> QED
          BY <5>1, <5>2, <5>3
      <4> QED
        BY <1>1, <1>2, <2>1, <3>3, <4>1 DEF FormatFits, Mounted, WrittenOn
  <2>5. CASE part \in layout.volumes
    <3>1. sector' = Formatted(part)
      <4>1. part.count # 0
        BY <2>5, VolumeFacts
      <4> QED
        BY <2>1, <4>1
    <3>2. /\ DOMAIN sector' = DOMAIN sector
          /\ \A a \in AreaNames : \A lba \in Areas(part)[a] :
                lba \in DOMAIN sector /\ sector'[lba] = <<a, part>>
          /\ \A lba \in DOMAIN sector : lba \notin Sects(part) => sector'[lba] = sector[lba]
      BY <1>1, <2>5, <3>1, FormattedFacts
    <3>3. \A lba \in DOMAIN layout.tables : sector'[lba] = "table"
      <4>1. Sects(part) \subseteq (0..layout.size - 1) \ DOMAIN layout.tables
        BY <2>5, VolumeFacts
      <4>2. DOMAIN layout.tables \subseteq DOMAIN sector
        BY <1>1 DEF AsFdisk
      <4> QED
        BY <1>1, <3>2, <4>1, <4>2
    <3>4. ASSUME NEW i \in Nat, i < part_idx', PartAt(i) \in layout.volumes
          PROVE  \A a \in AreaNames : \A lba \in Areas(PartAt(i))[a] :
                    sector'[lba] = <<a, PartAt(i)>>
      <4>1. CASE PartAt(i) = part
        BY <3>2, <4>1
      <4>2. CASE PartAt(i) # part
        <5>1. WrittenOn(PartAt(i))
          <6>1. i # part_idx
            BY <4>2 DEF part
          <6> QED
            BY <1>1, <2>1, <2>2, <3>4, <6>1
        <5>2. Sects(PartAt(i)) \cap Sects(part) = {}
          BY <2>5, <3>4, <4>2, VolumesApart
        <5>3. \A a \in AreaNames : Areas(PartAt(i))[a] \subseteq Sects(PartAt(i))
          BY <3>4, AreaFacts
        <5>4. Sects(PartAt(i)) \subseteq DOMAIN sector
          BY <1>1, <3>4, VolumeFacts
        <5> QED
          BY <3>2, <5>1, <5>2, <5>3, <5>4 DEF WrittenOn
      <4> QED
        BY <4>1, <4>2
    <3> QED
      BY <1>1, <1>2, <2>1, <2>2, <3>2, <3>3, <3>4 DEF FormatFits, Mounted, WrittenOn
  <2> QED
    BY <2>3, <2>4, <2>5
<1> QED
  BY <1>3, <1>4

LEMMA KeptAll ==
    ASSUME NEW c, ScanFits(c), FormatFits, AsFdisk(layout)
    PROVE  VolumesKept
<1> SUFFICES ASSUME Mounted
             PROVE  /\ \A lba \in DOMAIN layout.tables : sector[lba] = "table"
                    /\ \A v \in ToSet(partition_list) :
                          /\ \A a \in AreaNames : \A lba \in Areas(v)[a] :
                                sector[lba] = <<a, v>>
                          /\ \A bit \in FreeBits(v) \ {BlockCount(v)} :
                                Min(Areas(v).root) + bit \in v.start..v.start + v.count - 1
  BY DEF VolumesKept
<1>1. \A lba \in DOMAIN layout.tables : sector[lba] = "table"
  BY DEF FormatFits
<1>2. /\ part_idx = PrimMax + LogicMax /\ PrimMax \in Nat /\ LogicMax \in Nat
      /\ boot # "assert"
  BY PartitionsAssumption DEF FormatFits, Mounted
<1>3. /\ prim \in Seq(layout.volumes) /\ logic \in Seq(layout.volumes)
      /\ ToSet(partition_list) = ToSet(prim) \cup ToSet(logic)
      /\ Len(prim) \in Nat /\ Len(logic) \in Nat
      /\ Len(logic) <= LogicMax /\ Len(prim) < PrimMax
  BY <1>2 DEF ScanFits, ListsFit
<1>4. ASSUME NEW v \in ToSet(partition_list)
      PROVE  v \in layout.volumes /\ WrittenOn(v)
  <2>1. \E i \in Nat : i < part_idx /\ PartAt(i) = v /\ v \in layout.volumes
    <3>1. CASE v \in ToSet(prim)
      <4>1. PICK j \in 1..Len(prim) : prim[j] = v
        BY <1>3, <3>1 DEF ToSet
      <4>2. j - 1 \in Nat /\ j - 1 < PrimMax /\ j - 1 < Len(prim) /\ (j - 1) + 1 = j
            /\ j - 1 < part_idx
        BY <1>2, <1>3
      <4>3. PartAt(j - 1) = v
        BY <4>1, <4>2 DEF PartAt
      <4>4. v \in layout.volumes
        BY <1>3, <4>1, InSeq
      <4> QED
        BY <4>2, <4>3, <4>4
    <3>2. CASE v \in ToSet(logic)
      <4>1. PICK j \in 1..Len(logic) : logic[j] = v
        BY <1>3, <3>2 DEF ToSet
      <4> DEFINE i == PrimMax + (j - 1)
      <4>2. /\ i \in Nat /\ ~(i < PrimMax) /\ i - PrimMax < Len(logic)
            /\ i - PrimMax + 1 = j /\ i < part_idx
        BY <1>2, <1>3
      <4> HIDE DEF i
      <4>3. PartAt(i) = v
        BY <4>1, <4>2 DEF PartAt
      <4>4. v \in layout.volumes
        BY <1>3, <4>1, InSeq
      <4> QED
        BY <4>2, <4>3, <4>4
    <3> QED
      BY <1>3, <1>4, <3>1, <3>2
  <2> QED
    BY <2>1 DEF FormatFits
<1>5. ASSUME NEW v \in ToSet(partition_list), NEW bit \in FreeBits(v) \ {BlockCount(v)}
      PROVE  Min(Areas(v).root) + bit \in v.start..v.start + v.count - 1
  BY <1>4, FreeBitsFacts
<1> QED
  BY <1>1, <1>4, <1>5 DEF WrittenOn

-----------------------------------------------------------------------------
(* The theorems about the scan and the formatting.                         *)

BootInv == layout \in Layouts /\ FormatFits /\ \E c : ScanFits(c)

LEMMA BootInitInv ==
    ASSUME BootInit
    PROVE  BootInv
<1>1. layout \in Layouts /\ AsFdisk(layout)
  BY FdiskLayouts DEF BootInit
<1>2. PICK c : IsChain(layout, c)
  BY <1>1, ChainExists
<1> QED
  BY <1>1, <1>2, BootInitFits, BootInitFormat DEF BootInv

LEMMA BootStep ==
    ASSUME BootInv, [BootNext]_bootVars
    PROVE  BootInv'
<1>1. layout \in Layouts /\ AsFdisk(layout) /\ FormatFits
  BY FdiskLayouts DEF BootInv
<1>2. PICK c : ScanFits(c)
  BY DEF BootInv
<1>3. CASE Scan
  <2>1. layout' = layout
    BY <1>3 DEF Scan
  <2>2. ScanFits(c)'
    BY <1>2, <1>3, <2>1, SkipFits, ExtendedFits, PrimaryFits, LogicalFits, ReturnFits DEF Scan
  <2>3. FormatFits'
    BY <1>1, <1>3, ScanFormat
  <2> QED
    BY <1>1, <2>1, <2>2, <2>3 DEF BootInv
<1>4. CASE Format
  <2>1. /\ UNCHANGED <<layout, stack, ext_lba_base, prim, logic, partition_list>>
        /\ boot = "format" /\ boot' \in {"format", "mount"}
    BY <1>4 DEF Format
  <2>2. ScanFits(c)'
    BY <1>2, <2>1 DEF ScanFits, ListsFit
  <2>3. FormatFits'
    BY <1>1, <1>2, <1>4, FormatFormat DEF ScanFits
  <2> QED
    BY <1>1, <2>1, <2>2, <2>3 DEF BootInv
<1>5. CASE Mount
  <2>1. /\ UNCHANGED <<layout, stack, ext_lba_base, prim, logic, partition_list>>
        /\ boot = "mount" /\ boot' \in {"done", "null"}
    BY <1>5 DEF Mount
  <2>2. ScanFits(c)'
    BY <1>2, <2>1 DEF ScanFits, ListsFit
  <2>3. FormatFits'
    BY <1>1, <1>5, MountFormat
  <2> QED
    BY <1>1, <2>1, <2>2, <2>3 DEF BootInv
<1>6. CASE UNCHANGED bootVars
  <2>1. ScanFits(c)'
    BY <1>2, <1>6 DEF bootVars, ScanFits, ListsFit
  <2>2. FormatFits'
    BY <1>1, <1>6 DEF bootVars, FormatFits, Mounted, PartAt, WrittenOn
  <2> QED
    BY <1>1, <1>6, <2>1, <2>2 DEF BootInv, bootVars
<1> QED
  BY <1>3, <1>4, <1>5, <1>6 DEF BootNext

LEMMA BootKeepsInv == VolumeSpec => []BootInv
<1>1. VolumeInit => BootInv
  BY BootInitInv DEF VolumeInit
<1>2. BootInv /\ [VolumeNext]_<<vars, bootVars>> => BootInv'
  BY BootStep DEF VolumeNext, bootVars
<1> QED
  BY <1>1, <1>2, PTL DEF VolumeSpec

\* partition_scan finds the volumes of every disk that fdisk has written, each
\* of them once and where it is, up to the logical ones it has no room for.
THEOREM VolumesFoundHolds ==
    VolumeSpec => []VolumesFound
<1>1. BootInv => VolumesFound
  <2> SUFFICES ASSUME BootInv PROVE VolumesFound
    OBVIOUS
  <2>1. PICK c : ScanFits(c)
    BY DEF BootInv
  <2>2. AsFdisk(layout)
    BY FdiskLayouts DEF BootInv
  <2> QED
    BY <2>1, <2>2, FoundAll
<1> QED
  BY <1>1, BootKeepsInv, PTL

\* Formatting leaves the tables and the other volumes of such a disk alone, and
\* the free bits of the block bitmap, but for the last one, stand for sectors of
\* the volume.
THEOREM VolumesKeptHolds ==
    VolumeSpec => []VolumesKept
<1>1. BootInv => VolumesKept
  <2> SUFFICES ASSUME BootInv PROVE VolumesKept
    OBVIOUS
  <2>1. PICK c : ScanFits(c)
    BY DEF BootInv
  <2>2. AsFdisk(layout) /\ FormatFits
    BY FdiskLayouts DEF BootInv
  <2> QED
    BY <2>1, <2>2, KeptAll
<1> QED
  BY <1>1, BootKeepsInv, PTL
=============================================================================
