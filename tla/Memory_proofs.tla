---------------------------- MODULE Memory_proofs ----------------------------
(***************************************************************************)
(* Proofs about Memory: bitmap_scan finds the first run in every bitmap,   *)
(* the pools fit into every machine that has the memory it reports, and    *)
(* the heap hands out no region twice, for every size of pools, of blocks  *)
(* and of requests.                                                        *)
(***************************************************************************)
EXTENDS Memory, Numbers, FiniteSetTheorems

-----------------------------------------------------------------------------
(* bitmap_scan.                                                            *)

LEMMA MinIs ==
    ASSUME NEW T, T \subseteq Nat, NEW x \in T, \A y \in T : x <= y
    PROVE  Min(T) = x
<1>1. Min(T) \in T /\ \A y \in T : Min(T) <= y
  BY MinLemma
<1>2. Min(T) \in Nat /\ x \in Nat /\ Min(T) <= x /\ x <= Min(T)
  BY <1>1
<1> QED
  BY <1>2

LEMMA BitmapFacts ==
    /\ PageCount \in Nat \ {0} /\ MapByteBits \in Nat \ {0}
    /\ PageCount \div MapByteBits \in Nat
    /\ PageCount = (PageCount \div MapByteBits) * MapByteBits
<1>1. PageCount \in Nat \ {0} /\ MapByteBits \in Nat \ {0} /\ PageCount % MapByteBits = 0
  BY ArenaAssumption
<1> DEFINE q == PageCount \div MapByteBits
<1>2. q \in Nat /\ PageCount = MapByteBits * q + (PageCount % MapByteBits)
  BY <1>1, DivMod
<1> HIDE DEF q
<1>3. PageCount = q * MapByteBits
  BY <1>1, <1>2
<1> QED
  BY <1>1, <1>2, <1>3 DEF q

\* The bits of byte b.
Byte(b) == b * MapByteBits..(b + 1) * MapByteBits - 1

\* Each bit of the map is in one byte of it, and the bytes are in order.
LEMMA BytesFacts ==
    /\ \A b \in 0..(PageCount \div MapByteBits) - 1 : Byte(b) \subseteq 0..PageCount - 1
    /\ \A i \in 0..PageCount - 1 :
          /\ i \div MapByteBits \in 0..(PageCount \div MapByteBits) - 1
          /\ i \in Byte(i \div MapByteBits)
    /\ \A b, e \in Nat : \A i \in Byte(b), j \in Byte(e) : b < e => i < j
<1> DEFINE B == MapByteBits
           q == PageCount \div B
<1>1. B \in Nat \ {0} /\ q \in Nat /\ PageCount = q * B
  BY BitmapFacts
<1> HIDE DEF B, q
<1>2. ASSUME NEW b \in Nat, NEW e \in Nat, b < e
      PROVE  (b + 1) * B <= e * B /\ b * B \in Nat /\ (b + 1) * B \in Nat /\ e * B \in Nat
  <2>1. b + 1 <= e
    BY <1>2
  <2> QED
    BY <1>1, <2>1
<1>3. ASSUME NEW b \in 0..q - 1
      PROVE  b * B..(b + 1) * B - 1 \subseteq 0..PageCount - 1
  <2>1. b \in Nat /\ b < q
    BY <1>1
  <2> QED
    BY <1>1, <1>2, <2>1
<1>4. ASSUME NEW i \in 0..PageCount - 1
      PROVE  i \div B \in 0..q - 1 /\ i \in (i \div B) * B..((i \div B) + 1) * B - 1
  <2> DEFINE b == i \div B
             r == i % B
  <2>1. i \in Nat /\ i < q * B
    BY <1>1
  <2>2. b \in Nat /\ r \in 0..B - 1 /\ i = B * b + r
    BY <1>1, <2>1, DivMod
  <2>3. b < q
    BY <1>1, <2>1, DivBounds
  <2> HIDE DEF b, r
  <2>4. (b + 1) * B = B * b + B /\ b * B = B * b /\ b * B \in Nat
    BY <1>1, <2>2
  <2>5. b \in 0..q - 1 /\ i \in b * B..(b + 1) * B - 1
    BY <1>1, <2>1, <2>2, <2>3, <2>4
  <2> QED
    BY <2>5 DEF b
<1>5. ASSUME NEW b \in Nat, NEW e \in Nat, NEW i \in b * B..(b + 1) * B - 1,
             NEW j \in e * B..(e + 1) * B - 1, b < e
      PROVE  i < j
  BY <1>1, <1>2, <1>5
<1> QED
  BY <1>3, <1>4, <1>5 DEF Byte, B, q

\* FirstClear is the first clear bit of the map.
LEMMA FirstClearIs ==
    /\ Map!OpenBytes = {} <=> Map!Full
    /\ ~Map!Full => /\ Map!FirstClear \in Pages \ taken
                    /\ \A i \in 0..Map!FirstClear - 1 : i \in taken
<1> DEFINE Clear(b) == {i \in Byte(b) : i \notin taken}
           q == PageCount \div MapByteBits
<1>1. Map!OpenBytes = {b \in 0..q - 1 : Clear(b) # {}}
  BY DEF Map!OpenBytes, Byte
<1>2. /\ \A b \in 0..q - 1 : Byte(b) \subseteq Pages
      /\ \A i \in Pages : i \div MapByteBits \in 0..q - 1 /\ i \in Byte(i \div MapByteBits)
      /\ \A b, e \in Nat : \A i \in Byte(b), j \in Byte(e) : b < e => i < j
  BY BytesFacts DEF Pages
<1>3. Map!Full <=> Pages \subseteq taken
  BY DEF Map!Full, Map!BitsInMap, Pages
<1>4. Map!OpenBytes = {} <=> Map!Full
  BY <1>1, <1>2, <1>3
<1>5. ASSUME ~Map!Full
      PROVE  /\ Map!FirstClear \in Pages \ taken
             /\ \A i \in 0..Map!FirstClear - 1 : i \in taken
  <2> DEFINE b == Min(Map!OpenBytes)
             f == Min(Clear(b))
  <2>0. q \in Nat /\ PageCount \in Nat
    BY BitmapFacts
  <2>1. b \in Map!OpenBytes /\ \A e \in Map!OpenBytes : b <= e
    <3>1. Map!OpenBytes \subseteq Nat /\ Map!OpenBytes # {}
      BY <1>1, <1>4, <1>5
    <3> QED
      BY <3>1, MinLemma
  <2>2. Map!FirstClear = f
    BY DEF Map!FirstClear, Map!Min, Min, Byte
  <2> HIDE DEF b
  <2>3. b \in 0..q - 1 /\ Clear(b) # {} /\ Clear(b) \subseteq Pages
    BY <1>1, <1>2, <2>1
  <2>4. f \in Clear(b) /\ \A i \in Clear(b) : f <= i
    <3>1. Clear(b) \subseteq Nat
      BY <2>0, <2>3 DEF Pages
    <3> HIDE DEF Clear
    <3> QED
      BY <2>3, <3>1, MinLemma
  <2> HIDE DEF f
  <2>5. f \in Pages /\ f \notin taken /\ f \in Nat /\ f \in Byte(b)
    BY <2>0, <2>3, <2>4 DEF Pages
  <2>6. ASSUME NEW i \in 0..f - 1, i \notin taken
        PROVE  FALSE
    <3> DEFINE e == i \div MapByteBits
    <3>1. i \in Pages /\ i < f /\ i \in Nat
      BY <2>0, <2>5 DEF Pages
    <3>2. e \in 0..q - 1 /\ i \in Byte(e)
      BY <1>2, <3>1
    <3> HIDE DEF e
    <3>3. i \in Clear(e)
      BY <2>6, <3>2
    <3>4. e \in Map!OpenBytes
      BY <1>1, <3>2, <3>3
    <3>5. b <= e /\ e \in Nat /\ b \in Nat
      BY <2>1, <2>3, <3>2, <3>4
    <3>6. e # b
      BY <2>4, <2>5, <3>1, <3>3
    <3>7. f < i
      BY <1>2, <2>5, <3>2, <3>5, <3>6
    <3> QED
      BY <2>5, <3>1, <3>7
  <2> QED
    BY <2>2, <2>5, <2>6
<1> QED
  BY <1>4, <1>5


\* How far behind f + k the nearest bit that is set lies, k + 1 if that is
\* before f + 1.
Behind(f, k) == {d \in 0..k - 1 : f + k - d \in taken} \cup {k + 1}
Gap(f, k) == Min(Behind(f, k))

LEMMA BehindFacts ==
    ASSUME NEW f \in Nat, NEW k \in Nat
    PROVE  /\ Behind(f, k) \subseteq Nat
           /\ Gap(f, k) \in Behind(f, k)
           /\ \A d \in Behind(f, k) : Gap(f, k) <= d
           /\ Gap(f, k) \in 0..k + 1
<1>1. Behind(f, k) \subseteq 0..k + 1 /\ Behind(f, k) # {}
  BY DEF Behind
<1>2. Behind(f, k) \subseteq Nat
  BY <1>1
<1>3. Gap(f, k) \in Behind(f, k) /\ \A d \in Behind(f, k) : Gap(f, k) <= d
  BY <1>1, <1>2, MinLemma DEF Gap
<1> QED
  BY <1>1, <1>2, <1>3

LEMMA GapStep ==
    ASSUME NEW f \in Nat, NEW k \in Nat
    PROVE  /\ k = 0 => Gap(f, k) = 1
           /\ k > 0 /\ f + k \in taken => Gap(f, k) = 0
           /\ k > 0 /\ f + k \notin taken => Gap(f, k) = Gap(f, k - 1) + 1
<1>1. CASE k = 0
  <2>1. Behind(f, k) = {1}
    BY <1>1 DEF Behind
  <2> QED
    BY <1>1, <2>1, BehindFacts
<1>2. CASE k > 0 /\ f + k \in taken
  <2>1. 0 \in Behind(f, k)
    BY <1>2 DEF Behind
  <2>2. Gap(f, k) <= 0 /\ Gap(f, k) \in 0..k + 1
    BY <2>1, BehindFacts
  <2> QED
    BY <1>2, <2>2
<1>3. CASE k > 0 /\ f + k \notin taken
  <2> DEFINE g == Gap(f, k - 1)
  <2>1. /\ k - 1 \in Nat
        /\ g \in Behind(f, k - 1) /\ g \in Nat
        /\ \A d \in Behind(f, k - 1) : g <= d
    BY <1>3, BehindFacts
  <2> HIDE DEF g
  <2>2. g + 1 \in Behind(f, k)
    <3>1. CASE g = k
      BY <1>3, <3>1 DEF Behind
    <3>2. CASE g # k
      <4>1. g \in 0..k - 2 /\ f + (k - 1) - g \in taken
        BY <1>3, <2>1, <3>2 DEF Behind
      <4>2. g + 1 \in 0..k - 1 /\ f + k - (g + 1) = f + (k - 1) - g
        BY <1>3, <2>1, <4>1
      <4> QED
        BY <4>1, <4>2 DEF Behind
    <3> QED
      BY <3>1, <3>2
  <2>3. ASSUME NEW d \in Behind(f, k)
        PROVE  g + 1 <= d
    <3>1. CASE d = k + 1
      <4>1. k \in Behind(f, k - 1)
        BY <1>3 DEF Behind
      <4>2. g <= k
        BY <2>1, <4>1
      <4> QED
        BY <2>1, <3>1, <4>2
    <3>2. CASE d # k + 1
      <4>1. d \in 0..k - 1 /\ f + k - d \in taken
        BY <2>3, <3>2 DEF Behind
      <4>2. d # 0
        BY <1>3, <4>1
      <4>3. d - 1 \in 0..(k - 1) - 1 /\ f + (k - 1) - (d - 1) = f + k - d
        BY <1>3, <4>1, <4>2
      <4>4. d - 1 \in Behind(f, k - 1)
        BY <4>1, <4>3 DEF Behind
      <4>5. g <= d - 1
        BY <2>1, <4>4
      <4> QED
        BY <2>1, <4>1, <4>5
    <3> QED
      BY <3>1, <3>2
  <2>4. Gap(f, k) = g + 1
    BY <2>2, <2>3, BehindFacts, MinIs DEF Gap
  <2> QED
    BY <1>3, <2>4 DEF g
<1> QED
  BY <1>1, <1>2, <1>3

\* What count holds after each round of the loop.
LEMMA CountIsGap ==
    ASSUME Map!FirstClear \in Nat
    PROVE  \A k \in 0..PageCount : Map!Count[k] = Gap(Map!FirstClear, k)
<1> DEFINE f == Map!FirstClear
           N == PageCount
           Step(at) == [k \in 0..N |->
                          IF k = 0 THEN 1 ELSE IF f + k \in taken THEN 0 ELSE at[k - 1] + 1]
           gap == [k \in 0..N |-> Gap(f, k)]
           w == Map!Count
<1>1. f \in Nat /\ N \in Nat
  BY BitmapFacts
<1>2. w = CHOOSE at : at = Step(at)
  BY DEF Map!Count
<1> HIDE DEF f, N, w
<1>3. ASSUME NEW k \in 0..N, NEW at, k > 0 => at[k - 1] = Gap(f, k - 1)
      PROVE  Step(at)[k] = Gap(f, k)
  <2>1. k \in Nat /\ (k = 0 \/ k > 0)
    OBVIOUS
  <2> QED
    BY <1>1, <1>3, <2>1, GapStep
<1>4. gap = Step(gap)
  <2>1. ASSUME NEW k \in 0..N
        PROVE  gap[k] = Step(gap)[k]
    <3>1. k > 0 => gap[k - 1] = Gap(f, k - 1)
      BY <1>1
    <3>2. gap[k] = Gap(f, k)
      OBVIOUS
    <3> HIDE DEF gap, Step
    <3> QED
      BY <1>3, <3>1, <3>2
  <2> QED
    BY <2>1
<1>5. w = Step(w)
  <2> HIDE DEF Step, gap
  <2> QED
    BY <1>2, <1>4
<1> HIDE DEF Step, gap
<1>6. \A k \in 0..N : w[k] = Gap(f, k)
  <2> DEFINE T == {k \in 0..N : w[k] # Gap(f, k)}
  <2>1. SUFFICES ASSUME T # {} PROVE FALSE
    OBVIOUS
  <2>2. T \subseteq Nat
    OBVIOUS
  <2>3. PICK k \in T : \A m \in T : k <= m
    BY <2>1, <2>2, LeastNat
  <2>4. k \in 0..N /\ w[k] # Gap(f, k)
    BY <2>3
  <2>5. k > 0 => w[k - 1] = Gap(f, k - 1)
    <3>1. SUFFICES ASSUME k > 0 PROVE k - 1 \notin T /\ k - 1 \in 0..N
      OBVIOUS
    <3>2. ~(k <= k - 1) /\ k - 1 \in 0..N
      BY <1>1, <2>4, <3>1
    <3> QED
      BY <2>3, <3>2
  <2> QED
    BY <1>3, <1>5, <2>4, <2>5
<1> QED
  BY <1>6 DEF f, N, w

\* A gap of c ends a run of c clear bits, and the other way round.
LEMMA GapIsRun ==
    ASSUME NEW f \in Nat, f \notin taken, NEW k \in Nat
    PROVE  /\ \A p \in f + k - Gap(f, k) + 1..f + k : p \notin taken
           /\ \A p \in f..f + k : (p..f + k) \cap taken = {} => f + k - p + 1 <= Gap(f, k)
<1> DEFINE g == Gap(f, k)
<1>1. /\ g \in Behind(f, k) /\ g \in 0..k + 1
      /\ \A d \in Behind(f, k) : g <= d
  BY BehindFacts
<1> HIDE DEF g
<1>2. ASSUME NEW p \in f + k - g + 1..f + k, p \in taken
      PROVE  FALSE
  <2> DEFINE d == f + k - p
  <2>1. d \in 0..g - 1 /\ p = f + k - d
    BY <1>1
  <2>2. d # k
    BY <1>2, <2>1
  <2>3. d \in 0..k - 1
    BY <1>1, <2>1, <2>2
  <2>4. d \in Behind(f, k)
    BY <1>2, <2>1, <2>3 DEF Behind
  <2> QED
    BY <1>1, <2>1, <2>4
<1>3. ASSUME NEW p \in f..f + k, (p..f + k) \cap taken = {}
      PROVE  f + k - p + 1 <= g
  <2>1. CASE g = k + 1
    BY <2>1
  <2>2. CASE g # k + 1
    <3>1. g \in 0..k - 1 /\ f + k - g \in taken
      BY <1>1, <2>2 DEF Behind
    <3>2. ~(f + k - g >= p)
      BY <1>3, <3>1
    <3> QED
      BY <3>1, <3>2
  <2> QED
    BY <2>1, <2>2
<1> QED
  BY <1>2, <1>3 DEF g

\* What bitmap_scan returns when a bit is clear, for any number of pages.
LEMMA ScanIs ==
    ASSUME ~Map!Full, NEW n \in Nat \ {0}
    PROVE  /\ Map!Runs(n) \subseteq Pages
           /\ Map!Scan(n) = IF Map!Runs(n) = {} THEN -1 ELSE Min(Map!Runs(n))
<1> DEFINE f == Map!FirstClear
           N == PageCount
           R == Map!Runs(n)
           F == Map!Found(n)
<1>1. /\ N \in Nat \ {0} /\ Pages = 0..N - 1
      /\ f \in 0..N - 1 /\ f \in Nat /\ f \notin taken
      /\ \A i \in 0..f - 1 : i \in taken
  BY FirstClearIs, BitmapFacts DEF Pages
<1>2. \A p : p \in R <=> /\ p \in 0..N - 1
                         /\ p + n <= IF n = 1 THEN N ELSE N + 1
                         /\ (p..p + n - 1) \cap taken = {}
  BY DEF Map!Runs, Map!BitsInMap
<1>3. F = {k \in 1..N - f : Gap(f, k) = n}
  <2>1. F = {k \in 1..N - f : Map!Count[k] = n}
    BY DEF Map!Found
  <2>2. \A k \in 1..N - f : Map!Count[k] = Gap(f, k)
    BY <1>1, CountIsGap
  <2> QED
    BY <2>1, <2>2
<1>4. Map!Scan(n) = IF n = 1 THEN f ELSE IF F = {} THEN -1 ELSE f + Min(F) - n + 1
  BY DEF Map!Scan, Map!Min, Min
<1> HIDE DEF f, N, R, F
<1>5. R \subseteq Nat
  BY <1>1, <1>2
<1>6. ASSUME NEW p \in R
      PROVE  f <= p
  <2>1. p \in p..p + n - 1 /\ p \in Nat
    BY <1>5
  <2>2. p \notin taken
    BY <1>2, <2>1
  <2> QED
    BY <1>1, <2>1, <2>2
<1>7. CASE n = 1
  <2>1. f \in R
    <3>1. f..f + n - 1 = {f}
      BY <1>1, <1>7
    <3> QED
      BY <1>1, <1>2, <1>7, <3>1
  <2>2. Min(R) = f
    BY <1>5, <1>6, <2>1, MinIs
  <2> QED
    BY <1>1, <1>2, <1>4, <1>7, <2>1, <2>2 DEF R
<1>8. CASE n # 1
  <2>1. ASSUME NEW k \in F
        PROVE  f + k - n + 1 \in R
    <3> DEFINE p == f + k - n + 1
    <3>1. k \in 1..N - f /\ Gap(f, k) = n /\ k \in Nat
      BY <1>1, <1>3
    <3>2. n <= k + 1
      BY <3>1, BehindFacts, <1>1
    <3>3. p \in 0..N - 1 /\ p + n <= N + 1 /\ p + n - 1 = f + k
      BY <1>1, <1>8, <3>1, <3>2
    <3>4. \A i \in p..f + k : i \notin taken
      BY <1>1, <3>1, GapIsRun
    <3> QED
      BY <1>2, <1>8, <3>3, <3>4
  <2>2. ASSUME NEW p \in R
        PROVE  \E k \in F : f + k - n + 1 <= p
    <3> DEFINE k == p + n - 1 - f
               T == {j \in 1..k : Gap(f, j) >= n}
    <3>1. /\ p \in 0..N - 1 /\ p + n <= N + 1
          /\ (p..p + n - 1) \cap taken = {} /\ f <= p
      BY <1>2, <1>6, <1>8, <2>2
    <3>2. k \in 1..N - f /\ f + k = p + n - 1 /\ p \in f..f + k /\ k \in Nat
      BY <1>1, <1>8, <3>1
    <3>3. f + k - p + 1 = n
      BY <1>1, <3>1
    <3> HIDE DEF k
    <3>4. (p..f + k) \cap taken = {}
      BY <3>1, <3>2
    <3>5. Gap(f, k) >= n
      <4>1. f + k - p + 1 <= Gap(f, k)
        BY <1>1, <3>2, <3>4, GapIsRun
      <4> QED
        BY <3>2, <3>3, <4>1, <1>1, BehindFacts
    <3>6. k \in T /\ T \subseteq Nat
      BY <3>2, <3>5
    <3>7. PICK j \in T : \A m \in T : j <= m
      BY <3>6, LeastNat
    <3>8. j \in 1..k /\ j \in Nat /\ Gap(f, j) >= n /\ j <= k /\ Gap(f, j) \in Nat
      BY <1>1, <3>6, <3>7, BehindFacts
    <3>9. Gap(f, j) = n
      <4>1. Gap(f, j - 1) < n /\ Gap(f, j - 1) \in Nat
        <5>1. j - 1 \in Nat
          BY <3>8
        <5>2. Gap(f, j - 1) \in Nat
          BY <1>1, <5>1, BehindFacts
        <5>3. CASE j = 1
          BY <1>1, <1>8, <5>1, <5>3, GapStep
        <5>4. CASE j # 1
          <6>1. j - 1 \in 1..k /\ ~(j <= j - 1)
            BY <3>2, <3>8, <5>4
          <6>2. ~(Gap(f, j - 1) >= n)
            BY <3>7, <6>1
          <6> QED
            BY <5>2, <6>2
        <5> QED
          BY <5>2, <5>3, <5>4
      <4>2. Gap(f, j) = 0 \/ Gap(f, j) = Gap(f, j - 1) + 1
        BY <1>1, <3>8, GapStep
      <4> QED
        BY <3>8, <4>1, <4>2
    <3>10. j \in F /\ f + j - n + 1 <= p
      BY <1>1, <1>3, <3>2, <3>8, <3>9, <3>3, <3>1
    <3> QED
      BY <3>10
  <2>3. CASE F = {}
    BY <1>1, <1>2, <1>4, <1>8, <2>2, <2>3 DEF R
  <2>4. CASE F # {}
    <3>1. F \subseteq Nat
      BY <1>1, <1>3
    <3>2. Min(F) \in F /\ \A k \in F : Min(F) <= k
      BY <2>4, <3>1, MinLemma
    <3> DEFINE m == Min(F)
               p == f + m - n + 1
    <3> HIDE DEF m
    <3>3. p \in R /\ m \in Nat
      BY <2>1, <3>1, <3>2 DEF m
    <3>4. ASSUME NEW x \in R
          PROVE  p <= x
      <4>1. PICK k \in F : f + k - n + 1 <= x
        BY <2>2
      <4>2. m <= k /\ k \in Nat /\ x \in Nat
        BY <1>5, <3>1, <3>2 DEF m
      <4> QED
        BY <1>1, <3>3, <4>1, <4>2
    <3>5. Min(R) = p
      BY <1>5, <3>3, <3>4, MinIs
    <3> QED
      BY <1>1, <1>2, <1>4, <1>8, <2>4, <3>3, <3>5 DEF R, m
  <2> QED
    BY <2>3, <2>4
<1> QED
  BY <1>7, <1>8

LEMMA ScanHolds == ScanAgrees
<1>1. ASSUME ~Map!Full, NEW n \in 1..PageCount
      PROVE  Map!Scan(n) = IF Map!Runs(n) = {} THEN -1 ELSE Map!Min(Map!Runs(n))
  BY <1>1, ScanIs, BitmapFacts DEF Map!Min, Min
<1> QED
  BY <1>1, FirstClearIs DEF ScanAgrees, Map!ScanFindsFirstRun


\* After each step of the machine and of the heap.
THEOREM ScanAgreesHolds == MemorySpec => []ScanAgrees
  BY ScanHolds, PTL

-----------------------------------------------------------------------------
(* The pools.                                                              *)

\* No page of a pool lies beyond its half of the free pages, and the three
\* bitmaps end in their room.
LEMMA HalvesFit ==
    ASSUME NEW F \in 0..PagesWord - 1,
           NEW K, K = F \div 2, NEW U, U = F - K,
           NEW kb, kb = K \div MapByteBits, NEW ub, ub = U \div MapByteBits
    PROVE  /\ F \in Nat /\ K \in Nat /\ U \in Nat /\ kb \in Nat /\ ub \in Nat
           /\ kb * MapByteBits <= K /\ ub * MapByteBits <= U
           /\ kb + ub + kb <= BitmapRoom
<1> DEFINE B == MapByteBits
<1>1. /\ PagesWord \in Nat /\ BitmapRoom \in Nat /\ B \in Nat \ {0}
      /\ 3 * PagesWord <= 2 * B * BitmapRoom
  BY MemoryAssumption, RoomForMaps
<1>2. F \in Nat /\ K \in Nat /\ 2 * K <= F /\ U \in Nat
  BY <1>1
<1>3. kb \in Nat /\ K = B * kb + (K % B) /\ K % B \in Nat
  <2>1. K % B \in 0..B - 1 /\ kb \in Nat /\ K = B * kb + (K % B)
    BY <1>1, <1>2, DivMod
  <2> QED
    BY <1>1, <2>1
<1>4. ub \in Nat /\ U = B * ub + (U % B) /\ U % B \in Nat
  <2>1. U % B \in 0..B - 1 /\ ub \in Nat /\ U = B * ub + (U % B)
    BY <1>1, <1>2, DivMod
  <2> QED
    BY <1>1, <2>1
<1> HIDE DEF B
<1>5. kb * B = B * kb /\ ub * B = B * ub /\ B * kb \in Nat /\ B * ub \in Nat
  BY <1>1, <1>3, <1>4
<1>6. kb * B <= K /\ ub * B <= U
  <2> DEFINE r == K % B
             s == U % B
  <2>1. r \in Nat /\ s \in Nat /\ K = B * kb + r /\ U = B * ub + s
    BY <1>3, <1>4
  <2> HIDE DEF r, s
  <2> QED
    BY <1>1, <1>3, <1>4, <1>5, <2>1
<1>7. kb + ub + kb <= BitmapRoom
  <2> DEFINE n == kb + ub + kb
  <2>1. n \in Nat /\ B * n = B * kb + B * ub + B * kb
    BY <1>1, <1>3, <1>4
  <2>2. B * n <= K + U + K
    BY <1>2, <1>5, <1>6, <2>1
  <2>3. 2 * (B * n) < 3 * PagesWord
    BY <1>1, <1>2, <2>1, <2>2, <1>5
  <2>4. 2 * (B * n) < 2 * (B * BitmapRoom)
    <3>1. 2 * B * BitmapRoom = 2 * (B * BitmapRoom) /\ B * BitmapRoom \in Nat
      BY <1>1
    <3>2. B * n \in Nat
      BY <1>1, <2>1
    <3> QED
      BY <1>1, <2>3, <3>1, <3>2
  <2>5. B * n < B * BitmapRoom
    BY <1>1, <2>1, <2>4
  <2> HIDE DEF n
  <2>6. n <= BitmapRoom
    <3>1. SUFFICES ASSUME n >= BitmapRoom PROVE B * n >= B * BitmapRoom
      BY <1>1, <2>1, <2>5
    <3> QED
      BY <1>1, <2>1, <3>1
  <2> QED
    BY <2>6 DEF n
<1> QED
  BY <1>2, <1>3, <1>4, <1>6, <1>7 DEF B

\* The pages that are counted are there.
LEMMA CountedUsable ==
    ASSUME NEW m \in Machines, Answers(m), NEW F, F = P!FreePages(Reported(m))
    PROVE  /\ F \in 0..PagesWord - 1
           /\ UsedPages * PageBytes..UsedPages * PageBytes + F * PageBytes - 1 \subseteq m.usable
<1> DEFINE used == UsedPages * PageBytes
           mem == Reported(m)
           left == (mem - used) % Word
           n == left \div PageBytes
<1>1. /\ Word \in Nat \ {0} /\ PagesWord \in Nat \ {0} /\ PageBytes \in Nat \ {0}
      /\ UsedPages \in Nat
  BY MemoryAssumption
<1>2. used \in Nat
  BY <1>1
<1>3. /\ mem \in 0..Word - 1
      /\ \/ mem >= used /\ used..mem - 1 \subseteq m.usable
         \/ used..used + PagesWord * PageBytes - 1 \subseteq m.usable
  BY MachinesAssumption
<1>4. F = n % PagesWord
  BY DEF P!FreePages
<1> HIDE DEF used, mem
<1>5. left \in 0..Word - 1 /\ (mem >= used => left = mem - used)
  BY <1>1, <1>2, <1>3
<1> HIDE DEF left
<1>6. n \in Nat /\ left = PageBytes * n + (left % PageBytes) /\ left % PageBytes \in 0..PageBytes - 1
  <2>1. left \in Nat
    BY <1>1, <1>5
  <2> QED
    BY <1>1, <2>1, DivMod
<1>7. PageBytes * n <= left
  <2> DEFINE r == left % PageBytes
  <2>1. r \in Nat /\ left = PageBytes * n + r
    BY <1>1, <1>6
  <2> HIDE DEF r, n
  <2> QED
    BY <1>1, <1>6, <2>1 DEF n
<1> HIDE DEF n
<1>8. F \in 0..PagesWord - 1 /\ F <= n
  BY <1>1, <1>4, <1>6
<1>9. /\ F * PageBytes <= n * PageBytes /\ n * PageBytes = PageBytes * n
      /\ F * PageBytes <= PagesWord * PageBytes
      /\ F * PageBytes \in Nat /\ PageBytes * n \in Nat /\ PagesWord * PageBytes \in Nat
  BY <1>1, <1>6, <1>8
<1>10. used..used + F * PageBytes - 1 \subseteq m.usable
  <2>1. CASE mem >= used /\ used..mem - 1 \subseteq m.usable
    <3>1. used + F * PageBytes <= mem
      BY <1>1, <1>2, <1>3, <1>5, <1>7, <1>9, <2>1
    <3> QED
      BY <1>2, <1>3, <1>9, <2>1, <3>1
  <2>2. CASE used..used + PagesWord * PageBytes - 1 \subseteq m.usable
    BY <1>2, <1>9, <2>2
  <2> QED
    BY <1>3, <2>1, <2>2
<1> QED
  BY <1>8, <1>10 DEF used


\* The loader asks the firmware in turn; from mem_init on what it goes by is the
\* first answer.
BootInv ==
    /\ machine \in Machines
    /\ boot \in {"e801", "88h"} => machine.e820 = P!Fails
    /\ boot = "88h" => machine.e801 = P!Fails
    /\ boot = "mem_init" => Answers(machine) /\ total_mem_bytes = Reported(machine)
    /\ PoolsFit

LEMMA PoolsLaidOut ==
    ASSUME BootInv, P!MemInit
    PROVE  PoolsFit'
<1> DEFINE used == UsedPages * PageBytes
           B == MapByteBits
           F == P!FreePages(total_mem_bytes)
           K == P!KernelPages(total_mem_bytes)
           U == P!UserPages(total_mem_bytes)
           kb == K \div B
           ub == U \div B
           kernel == [start |-> used, map |-> 0, bytes |-> kb]
           user == [start |-> used + K * PageBytes, map |-> kb, bytes |-> ub]
           vaddr == [start |-> 0, map |-> kb + ub, bytes |-> kb]
<1>1. /\ boot = "mem_init" /\ boot' = "done" /\ machine' = machine
      /\ pools' = [kernel |-> kernel, user |-> user, vaddr |-> vaddr]
  BY DEF P!MemInit, P!Pool
<1>2. /\ F \in 0..PagesWord - 1
      /\ used..used + F * PageBytes - 1 \subseteq machine.usable
  BY <1>1, CountedUsable DEF BootInv
<1>3. K = F \div 2 /\ U = F - K
  BY DEF P!KernelPages, P!UserPages
<1> HIDE DEF F, K, U
<1>4. /\ F \in Nat /\ K \in Nat /\ U \in Nat /\ kb \in Nat /\ ub \in Nat
      /\ kb * B <= K /\ ub * B <= U
      /\ kb + ub + kb <= BitmapRoom
  BY <1>2, <1>3, HalvesFit
<1>5. UsedPages \in Nat /\ PageBytes \in Nat \ {0} /\ B \in Nat \ {0} /\ BitmapRoom \in Nat
  BY MemoryAssumption
<1> HIDE DEF kb, ub, B
<1>6. /\ used \in Nat
      /\ kb * B * PageBytes <= K * PageBytes /\ ub * B * PageBytes <= U * PageBytes
      /\ kb * B * PageBytes \in Nat /\ ub * B * PageBytes \in Nat
      /\ K * PageBytes \in Nat /\ U * PageBytes \in Nat
      /\ F * PageBytes = K * PageBytes + U * PageBytes
  <2>1. kb * B \in Nat /\ ub * B \in Nat
    BY <1>4, <1>5
  <2>2. F = K + U
    BY <1>3, <1>4
  <2>3. used \in Nat
    BY <1>5
  <2>4. kb * B * PageBytes <= K * PageBytes /\ kb * B * PageBytes \in Nat
    BY <1>4, <1>5, <2>1
  <2>5. ub * B * PageBytes <= U * PageBytes /\ ub * B * PageBytes \in Nat
    BY <1>4, <1>5, <2>1
  <2>6. F * PageBytes = K * PageBytes + U * PageBytes
    BY <1>4, <1>5, <2>2
  <2> QED
    BY <1>4, <1>5, <2>3, <2>4, <2>5, <2>6
<1>7. /\ P!Addresses(kernel) = used..used + kb * B * PageBytes - 1
      /\ P!Addresses(user) = used + K * PageBytes..used + K * PageBytes + ub * B * PageBytes - 1
  BY DEF P!Addresses, P!Bits, B
<1>8. /\ P!Addresses(kernel) \subseteq machine.usable \ (0..used - 1)
      /\ P!Addresses(user) \subseteq machine.usable \ (0..used - 1)
      /\ P!Addresses(kernel) \cap P!Addresses(user) = {}
  <2> DEFINE k == kb * B * PageBytes
             u == ub * B * PageBytes
             kp == K * PageBytes
             up == U * PageBytes
             all == F * PageBytes
  <2>1. used \in Nat /\ k \in Nat /\ u \in Nat /\ kp \in Nat /\ up \in Nat /\ k <= kp /\ u <= up
        /\ all = kp + up
    BY <1>6
  <2> HIDE DEF k, u, kp, up, all, used
  <2>2. \A i \in used..used + k - 1 : i \in used..used + all - 1 /\ i \notin 0..used - 1
    BY <2>1
  <2>3. \A i \in used + kp..used + kp + u - 1 : i \in used..used + all - 1 /\ i \notin 0..used - 1
    BY <2>1
  <2>4. used..used + all - 1 \subseteq machine.usable
    BY <1>2 DEF used, all
  <2>5. (used..used + k - 1) \cap (used + kp..used + kp + u - 1) = {}
    BY <2>1
  <2>6. /\ P!Addresses(kernel) = used..used + k - 1
        /\ P!Addresses(user) = used + kp..used + kp + u - 1
    BY <1>7 DEF k, u, kp, used
  <2> HIDE DEF kernel, user
  <2> QED
    BY <2>2, <2>3, <2>4, <2>5, <2>6
<1>9. /\ P!Map(kernel) = 0..kb - 1
      /\ P!Map(user) = kb..kb + ub - 1
      /\ P!Map(vaddr) = kb + ub..kb + ub + kb - 1
  BY <1>4 DEF P!Map
<1>10. /\ P!Map(kernel) \cap P!Map(user) = {}
       /\ P!Map(kernel) \cap P!Map(vaddr) = {}
       /\ P!Map(user) \cap P!Map(vaddr) = {}
  <2> HIDE DEF kernel, user, vaddr
  <2> QED
    BY <1>4, <1>9
<1>11. /\ kernel.map + kernel.bytes <= BitmapRoom
       /\ user.map + user.bytes <= BitmapRoom
       /\ vaddr.map + vaddr.bytes <= BitmapRoom
       /\ vaddr.bytes = kernel.bytes
  BY <1>4, <1>5
<1> HIDE DEF kernel, user, vaddr
<1>12. /\ pools'["kernel"] = kernel /\ pools'["user"] = user /\ pools'["vaddr"] = vaddr
       /\ pools'.kernel = kernel /\ pools'.user = user /\ pools'.vaddr = vaddr
       /\ DOMAIN pools' = {"kernel", "user", "vaddr"}
  BY <1>1
<1>13. \A p \in {"kernel", "user"} :
          P!Addresses(pools'[p]) \subseteq machine'.usable \ (0..UsedPages * PageBytes - 1)
  BY <1>1, <1>8, <1>12
<1>14. \A p, q \in DOMAIN pools' :
          /\ p # q => P!Map(pools'[p]) \cap P!Map(pools'[q]) = {}
          /\ pools'[p].map + pools'[p].bytes <= BitmapRoom
  BY <1>10, <1>11, <1>12
<1> QED
  BY <1>8, <1>11, <1>12, <1>13, <1>14 DEF PoolsFit, P!PoolsFit, P!Overlap, P!Addresses, P!Bits, P!Map

LEMMA BootNextInv ==
    ASSUME BootInv, P!BootNext
    PROVE  BootInv'
<1>1. CASE P!TryE820
  BY <1>1 DEF BootInv, P!TryE820, PoolsFit, P!PoolsFit, Answers, Reported
<1>2. CASE P!TryE801
  BY <1>2 DEF BootInv, P!TryE801, PoolsFit, P!PoolsFit, Answers, Reported
<1>3. CASE P!Try88
  BY <1>3 DEF BootInv, P!Try88, PoolsFit, P!PoolsFit, Answers, Reported
<1>4. CASE P!MemInit
  BY <1>4, PoolsLaidOut DEF BootInv, P!MemInit
<1> QED
  BY <1>1, <1>2, <1>3, <1>4 DEF P!BootNext

LEMMA BootInvStep == BootInv /\ [MemoryNext]_<<vars, bootVars>> => BootInv'
<1> SUFFICES ASSUME BootInv, [MemoryNext]_<<vars, bootVars>>
             PROVE  BootInv'
  OBVIOUS
<1>1. CASE UNCHANGED bootVars
  BY <1>1 DEF BootInv, bootVars, PoolsFit, P!PoolsFit, Answers, Reported, P!Overlap, P!Addresses,
      P!Bits, P!Map
<1> QED
  BY <1>1, BootNextInv DEF MemoryNext

\* The pools of every machine that has the memory it reports fit into it, their
\* bitmaps into the room before main's task_struct (memory.c:303), whatever the
\* sizes of registers, pages and bitmaps.
THEOREM PoolsFitHolds == MemorySpec => []PoolsFit
<1>1. MemoryInit => BootInv
  BY DEF MemoryInit, P!BootInit, BootInv, PoolsFit, P!PoolsFit
<1>2. BootInv => PoolsFit
  BY DEF BootInv
<1> QED
  BY <1>1, <1>2, BootInvStep, PTL DEF MemorySpec


-----------------------------------------------------------------------------
(* The free lists.                                                         *)

\* Each list l is the chain c[l] from its head, c[l][0], to its tail, with n[l]
\* blocks between them; nothing has two places, and nothing else is linked.
Holds(k, n, c) ==
    /\ n \in [Descs -> Nat]
    /\ k \in [DOMAIN k -> [prev : Int, next : Int]]
    /\ IsFiniteSet(DOMAIN k)
    /\ \A l \in Descs :
          /\ c[l][0] = ListHead(l) /\ c[l][n[l] + 1] = ListTail(l)
          /\ \A i \in 1..n[l] : c[l][i] \in Nat
          /\ \A i \in 0..n[l] :
                k[c[l][i]].next = c[l][i + 1] /\ k[c[l][i + 1]].prev = c[l][i]
    /\ \A l, m \in Descs : \A i \in 0..n[l] + 1, j \in 0..n[m] + 1 :
          c[l][i] = c[m][j] => l = m /\ i = j
    /\ \A e : e \in DOMAIN k <=> \E l \in Descs : \E i \in 0..n[l] + 1 : c[l][i] = e

\* free[l] are the blocks in list l.
Listing(k, free) ==
    \E n, c : Holds(k, n, c) /\ free = [l \in Descs |-> {c[l][i] : i \in 1..n[l]}]

LEMMA DescFacts ==
    /\ Len(BlockSizes) \in Nat \ {0}
    /\ \A l \in Descs : /\ l \in Nat \ {0}
                        /\ ListHead(l) \in Int /\ ListHead(l) < 0
                        /\ ListTail(l) \in Int /\ ListTail(l) < 0
    /\ \A l, m \in Descs : /\ ListHead(l) # ListTail(m)
                           /\ ListHead(l) = ListHead(m) => l = m
                           /\ ListTail(l) = ListTail(m) => l = m
<1>1. Len(BlockSizes) \in Nat \ {0}
  BY ArenaAssumption
<1>2. \A l \in Descs : l \in Nat \ {0}
  BY <1>1 DEF Descs
<1> QED
  BY <1>1, <1>2 DEF ListHead, ListTail

LEMMA HoldsFacts ==
    ASSUME NEW k, NEW n, NEW c, Holds(k, n, c), NEW l \in Descs
    PROVE  /\ n[l] \in Nat
           /\ \A i \in 0..n[l] + 1 : c[l][i] \in DOMAIN k /\ c[l][i] \in Int
           /\ \A e \in DOMAIN k : k[e] \in [prev : Int, next : Int]
           /\ \A i \in 1..n[l] : c[l][i] \in Nat
           /\ c[l][0] = ListHead(l) /\ c[l][n[l] + 1] = ListTail(l)
<1>1. n[l] \in Nat
  BY DEF Holds
<1>2. /\ c[l][0] = ListHead(l) /\ c[l][n[l] + 1] = ListTail(l)
      /\ \A i \in 1..n[l] : c[l][i] \in Nat
      /\ \A i \in 0..n[l] + 1 : c[l][i] \in DOMAIN k
      /\ \A e \in DOMAIN k : k[e] \in [prev : Int, next : Int]
  BY DEF Holds
<1>3. \A i \in 0..n[l] + 1 : i = 0 \/ i = n[l] + 1 \/ i \in 1..n[l]
  BY <1>1
<1>4. \A i \in 0..n[l] + 1 : c[l][i] \in Int
  BY <1>2, <1>3, DescFacts
<1> QED
  BY <1>1, <1>2, <1>4

\* new is k with t between p and b, field by field.
Spliced(k, new, t, p, b) ==
    /\ DOMAIN new = DOMAIN k \cup {t}
    /\ new \in [DOMAIN new -> [prev : Int, next : Int]]
    /\ new[t].prev = p /\ new[t].next = b
    /\ new[p].prev = k[p].prev /\ new[p].next = t
    /\ new[b].prev = t /\ new[b].next = k[b].next
    /\ \A e \in DOMAIN k \ {t, p, b} : new[e] = k[e]

LEMMA InsertFields ==
    ASSUME NEW k, k \in [DOMAIN k -> [prev : Int, next : Int]],
           NEW b \in DOMAIN k, b \in Int,
           NEW p \in DOMAIN k, p \in Int, p = k[b].prev, p # b,
           NEW t \in Int, t # b, t # p,
           NEW new, new = InsertBefore(k, b, t)
    PROVE  Spliced(k, new, t, p, b)
<1> DEFINE rest == [k EXCEPT ![p].next = t, ![b].prev = t]
           R == [prev : Int, next : Int]
<1>1. new = [e \in DOMAIN k \cup {t} |->
               IF e = t THEN [prev |-> p, next |-> b] ELSE rest[e]]
  BY DEF InsertBefore
<1>2. /\ rest[p] = [k[p] EXCEPT !.next = t]
      /\ rest[b] = [k[b] EXCEPT !.prev = t]
      /\ \A e \in DOMAIN k \ {p, b} : rest[e] = k[e]
  OBVIOUS
<1>3. \A e \in DOMAIN k : k[e] \in R
  OBVIOUS
<1>4. /\ rest[p] \in R /\ rest[p].next = t /\ rest[p].prev = k[p].prev
      /\ rest[b] \in R /\ rest[b].prev = t /\ rest[b].next = k[b].next
  BY <1>2, <1>3
<1>5. [prev |-> p, next |-> b] \in R
  OBVIOUS
<1> HIDE DEF rest
<1>6. /\ DOMAIN new = DOMAIN k \cup {t}
      /\ new[t] = [prev |-> p, next |-> b]
      /\ \A e \in DOMAIN k \ {t} : new[e] = rest[e]
  BY <1>1
<1>7. \A e \in DOMAIN k : rest[e] \in R
  BY <1>2, <1>3, <1>4
<1>8. new \in [DOMAIN new -> R]
  BY <1>1, <1>5, <1>6, <1>7
<1>9. /\ new[t].prev = p /\ new[t].next = b
      /\ new[p] = rest[p] /\ new[b] = rest[b]
  BY <1>6
<1>10. \A e \in DOMAIN k \ {t, p, b} : new[e] = k[e]
  BY <1>2, <1>6
<1> QED
  BY <1>4, <1>6, <1>8, <1>9, <1>10 DEF Spliced

\* new is k without t, which was between p and b.
Bypassed(k, new, t, p, b) ==
    /\ DOMAIN new = DOMAIN k \ {t}
    /\ new \in [DOMAIN new -> [prev : Int, next : Int]]
    /\ new[p].prev = k[p].prev /\ new[p].next = b
    /\ new[b].prev = p /\ new[b].next = k[b].next
    /\ \A e \in DOMAIN k \ {t, p, b} : new[e] = k[e]

LEMMA DetachFields ==
    ASSUME NEW k, k \in [DOMAIN k -> [prev : Int, next : Int]],
           NEW t \in DOMAIN k,
           NEW p \in DOMAIN k, p \in Int, p = k[t].prev, p # t,
           NEW b \in DOMAIN k, b \in Int, b = k[t].next, b # t, b # p,
           NEW new, new = Detach(k, t)
    PROVE  Bypassed(k, new, t, p, b)
<1> DEFINE all == [k EXCEPT ![p].next = b, ![b].prev = p]
           R == [prev : Int, next : Int]
<1>1. new = [e \in DOMAIN k \ {t} |-> all[e]]
  BY DEF Detach, ListRemove, Restrict
<1>2. /\ all[p] = [k[p] EXCEPT !.next = b]
      /\ all[b] = [k[b] EXCEPT !.prev = p]
      /\ \A e \in DOMAIN k \ {p, b} : all[e] = k[e]
  OBVIOUS
<1>3. \A e \in DOMAIN k : k[e] \in R
  OBVIOUS
<1>4. /\ all[p] \in R /\ all[p].next = b /\ all[p].prev = k[p].prev
      /\ all[b] \in R /\ all[b].prev = p /\ all[b].next = k[b].next
  BY <1>2, <1>3
<1>5. \A e \in DOMAIN k : all[e] \in R
  BY <1>2, <1>3, <1>4
<1> HIDE DEF all
<1>6. /\ DOMAIN new = DOMAIN k \ {t}
      /\ \A e \in DOMAIN k \ {t} : new[e] = all[e]
      /\ new \in [DOMAIN new -> R]
  BY <1>1, <1>5
<1> QED
  BY <1>2, <1>4, <1>6 DEF Bypassed


\* n2 and c2 are n and c with t before the tail of list d.
Longer(n, c, d, t, n2, c2) ==
    /\ n2 \in [Descs -> Nat]
    /\ n2[d] = n[d] + 1 /\ \A l \in Descs \ {d} : n2[l] = n[l] /\ c2[l] = c[l]
    /\ \A i \in 0..n[d] : c2[d][i] = c[d][i]
    /\ c2[d][n[d] + 1] = t
    /\ c2[d][n[d] + 2] = c[d][n[d] + 1]

LEMMA LongerExists ==
    ASSUME NEW k, NEW n, NEW c, Holds(k, n, c), NEW d \in Descs, NEW t
    PROVE  \E n2, c2 : Longer(n, c, d, t, n2, c2)
<1> DEFINE n2 == [n EXCEPT ![d] = @ + 1]
           cd == [i \in 0..n[d] + 2 |-> IF i <= n[d] THEN c[d][i]
                                       ELSE IF i = n[d] + 1 THEN t ELSE c[d][n[d] + 1]]
           c2 == [l \in Descs |-> IF l = d THEN cd ELSE c[l]]
<1>1. n \in [Descs -> Nat] /\ n[d] \in Nat
  BY DEF Holds
<1>2. n2 \in [Descs -> Nat] /\ n2[d] = n[d] + 1 /\ \A l \in Descs \ {d} : n2[l] = n[l]
  BY <1>1
<1>3. c2[d] = cd /\ \A l \in Descs \ {d} : c2[l] = c[l]
  OBVIOUS
<1>4. /\ \A i \in 0..n[d] : cd[i] = c[d][i]
      /\ cd[n[d] + 1] = t
      /\ cd[n[d] + 2] = c[d][n[d] + 1]
  BY <1>1
<1> HIDE DEF n2, cd, c2
<1>5. Longer(n, c, d, t, n2, c2)
  BY <1>2, <1>3, <1>4 DEF Longer
<1> QED
  BY <1>5

LEMMA AppendHolds ==
    ASSUME NEW k, NEW n, NEW c, Holds(k, n, c), NEW d \in Descs, NEW t \in Nat,
           t \notin DOMAIN k, NEW n2, NEW c2, Longer(n, c, d, t, n2, c2)
    PROVE  Holds(ListAppend(k, d, t), n2, c2)
<1> DEFINE new == ListAppend(k, d, t)
           p == c[d][n[d]]
           b == c[d][n[d] + 1]
           Old(l, i) == IF l = d /\ i = n[d] + 2 THEN n[d] + 1 ELSE i
<1>1. /\ \A l \in Descs :
            /\ n[l] \in Nat
            /\ \A i \in 0..n[l] + 1 : c[l][i] \in DOMAIN k /\ c[l][i] \in Int
            /\ \A i \in 1..n[l] : c[l][i] \in Nat
            /\ c[l][0] = ListHead(l) /\ c[l][n[l] + 1] = ListTail(l)
      /\ \A e \in DOMAIN k : k[e] \in [prev : Int, next : Int]
  BY HoldsFacts
<1>2. /\ n2 \in [Descs -> Nat]
      /\ n2[d] = n[d] + 1 /\ \A l \in Descs \ {d} : n2[l] = n[l] /\ c2[l] = c[l]
      /\ \A i \in 0..n[d] : c2[d][i] = c[d][i]
      /\ c2[d][n[d] + 1] = t
      /\ c2[d][n[d] + 2] = b
  BY DEF Longer
<1>3. \A l, m \in Descs : \A i \in 0..n[l] + 1, j \in 0..n[m] + 1 :
          c[l][i] = c[m][j] => l = m /\ i = j
  BY DEF Holds
<1>4. \A l \in Descs : \A i \in 0..n[l] :
          k[c[l][i]].next = c[l][i + 1] /\ k[c[l][i + 1]].prev = c[l][i]
  BY DEF Holds
<1>5. n[d] \in Nat /\ n[d] \in 0..n[d] + 1 /\ n[d] + 1 \in 0..n[d] + 1 /\ n[d] # n[d] + 1
  BY <1>1
<1>6. /\ p \in DOMAIN k /\ b \in DOMAIN k /\ p \in Int /\ b \in Int /\ p # b
      /\ t # p /\ t # b /\ p = k[b].prev
  BY <1>1, <1>3, <1>4, <1>5
<1>7. new = InsertBefore(k, b, t)
  BY <1>1 DEF ListAppend
<1> HIDE DEF new
<1>8. Spliced(k, new, t, p, b)
  <2> HIDE DEF p, b
  <2>1. k \in [DOMAIN k -> [prev : Int, next : Int]] /\ t \in Int
    BY DEF Holds
  <2> QED
    BY <1>6, <1>7, <2>1, InsertFields
<1>9. /\ DOMAIN new = DOMAIN k \cup {t}
      /\ new \in [DOMAIN new -> [prev : Int, next : Int]]
      /\ new[t].prev = p /\ new[t].next = b
      /\ new[p].prev = k[p].prev /\ new[p].next = t
      /\ new[b].prev = t /\ new[b].next = k[b].next
      /\ \A e \in DOMAIN k \ {t, p, b} : new[e] = k[e]
  BY <1>8 DEF Spliced
<1>10. ASSUME NEW l \in Descs, NEW i \in 0..n2[l] + 1, ~(l = d /\ i = n[d] + 1)
       PROVE  Old(l, i) \in 0..n[l] + 1 /\ c2[l][i] = c[l][Old(l, i)] /\ c2[l][i] # t
  <2>1. Old(l, i) \in 0..n[l] + 1 /\ c2[l][i] = c[l][Old(l, i)]
    <3>1. CASE l # d
      BY <1>2, <3>1
    <3>2. CASE l = d
      <4>1. i \in 0..n[d] \/ i = n[d] + 2
        BY <1>2, <1>5, <1>10, <3>2
      <4>2. ASSUME i \in 0..n[d]
            PROVE  i # n[d] + 2 /\ i \in 0..n[d] + 1
        BY <1>5, <4>2
      <4> QED
        BY <1>2, <1>5, <3>2, <4>1, <4>2
    <3> QED
      BY <3>1, <3>2
  <2>2. c[l][Old(l, i)] \in DOMAIN k
    BY <1>1, <2>1
  <2> QED
    BY <2>1, <2>2
<1>11. ASSUME NEW l \in Descs, NEW m \in Descs,
              NEW i \in 0..n2[l] + 1, NEW j \in 0..n2[m] + 1, c2[l][i] = c2[m][j]
       PROVE  l = m /\ i = j
  <2>1. CASE l = d /\ i = n[d] + 1
    BY <1>2, <1>10, <1>11, <2>1
  <2>2. CASE m = d /\ j = n[d] + 1
    BY <1>2, <1>10, <1>11, <2>2
  <2>3. CASE ~(l = d /\ i = n[d] + 1) /\ ~(m = d /\ j = n[d] + 1)
    <3>1. l = m /\ Old(l, i) = Old(m, j)
      BY <1>3, <1>10, <1>11, <2>3
    <3>2. ASSUME l = d, i = n[d] + 2, j # n[d] + 2
          PROVE  FALSE
      BY <1>5, <2>3, <3>1, <3>2
    <3>3. ASSUME l = d, j = n[d] + 2, i # n[d] + 2
          PROVE  FALSE
      BY <1>5, <2>3, <3>1, <3>3
    <3> QED
      BY <3>1, <3>2, <3>3
  <2> QED
    BY <2>1, <2>2, <2>3
<1>12. ASSUME NEW l \in Descs, NEW i \in 0..n2[l]
       PROVE  new[c2[l][i]].next = c2[l][i + 1] /\ new[c2[l][i + 1]].prev = c2[l][i]
  <2>1. CASE l # d
    <3>1. /\ c2[l] = c[l] /\ i \in 0..n[l] /\ i \in 0..n[l] + 1 /\ i + 1 \in 0..n[l] + 1
      BY <1>1, <1>2, <2>1
    <3>2. /\ c[l][i] \in DOMAIN k \ {t, p, b}
          /\ c[l][i + 1] \in DOMAIN k \ {t, p, b}
      BY <1>1, <1>3, <1>5, <2>1, <3>1
    <3> QED
      BY <1>4, <1>9, <3>1, <3>2
  <2>2. CASE l = d /\ i < n[d]
    <3>1. /\ i \in 0..n[d] /\ i + 1 \in 0..n[d] /\ i # n[d] /\ i # n[d] + 1 /\ i + 1 # n[d] + 1
          /\ i \in 0..n[d] + 1 /\ i + 1 \in 0..n[d] + 1
      BY <1>2, <1>5, <2>2
    <3>2. c2[l][i] = c[d][i] /\ c2[l][i + 1] = c[d][i + 1]
      BY <1>2, <2>2, <3>1
    <3>3. c[d][i] \in DOMAIN k \ {t, p, b} /\ c[d][i + 1] \in DOMAIN k \ {t, b}
      BY <1>1, <1>3, <1>5, <3>1
    <3>4. new[c[d][i]] = k[c[d][i]] /\ new[c[d][i + 1]].prev = k[c[d][i + 1]].prev
      <4>1. CASE c[d][i + 1] = p
        BY <1>9, <3>3, <4>1
      <4>2. CASE c[d][i + 1] # p
        BY <1>9, <3>3, <4>2
      <4> QED
        BY <4>1, <4>2
    <3> QED
      BY <1>4, <3>1, <3>2, <3>4
  <2>3. CASE l = d /\ i = n[d]
    <3>1. c2[l][i] = p /\ c2[l][i + 1] = t
      BY <1>2, <1>5, <2>3
    <3> QED
      BY <1>9, <3>1
  <2>4. CASE l = d /\ i = n[d] + 1
    <3>1. c2[l][i] = t /\ i + 1 = n[d] + 2
      BY <1>2, <1>5, <2>4
    <3>2. c2[l][i + 1] = b
      BY <1>2, <2>4, <3>1
    <3> QED
      BY <1>9, <3>1, <3>2
  <2> QED
    BY <1>2, <1>5, <2>1, <2>2, <2>3, <2>4
<1>13. ASSUME NEW l \in Descs
       PROVE  /\ c2[l][0] = ListHead(l) /\ c2[l][n2[l] + 1] = ListTail(l)
              /\ \A i \in 1..n2[l] : c2[l][i] \in Nat
  <2>1. CASE l # d
    BY <1>1, <1>2, <2>1
  <2>2. CASE l = d
    <3>1. 0 \in 0..n[d] /\ n2[d] + 1 = n[d] + 2
      BY <1>2, <1>5
    <3>2. \A i \in 1..n2[d] : (i \in 1..n[d] /\ i \in 0..n[d]) \/ i = n[d] + 1
      BY <1>2, <1>5
    <3> QED
      BY <1>1, <1>2, <2>2, <3>1, <3>2
  <2> QED
    BY <2>1, <2>2
<1>14. ASSUME NEW e \in DOMAIN new
       PROVE  \E l \in Descs : \E i \in 0..n2[l] + 1 : c2[l][i] = e
  <2>1. CASE e = t
    <3>1. n[d] + 1 \in 0..n2[d] + 1
      BY <1>2, <1>5
    <3> QED
      BY <1>2, <2>1, <3>1
  <2>2. CASE e # t
    <3>1. PICK l \in Descs : \E i \in 0..n[l] + 1 : c[l][i] = e
      BY <1>9, <2>2 DEF Holds
    <3>2. PICK i \in 0..n[l] + 1 : c[l][i] = e
      BY <3>1
    <3>3. CASE l # d
      BY <1>2, <3>2, <3>3
    <3>4. CASE l = d /\ i = n[d] + 1
      <4>1. n[d] + 2 \in 0..n2[d] + 1
        BY <1>2, <1>5
      <4> QED
        BY <1>2, <3>2, <3>4, <4>1
    <3>5. CASE l = d /\ i # n[d] + 1
      <4>1. i \in 0..n[d] /\ i \in 0..n2[d] + 1
        BY <1>2, <1>5, <3>5
      <4> QED
        BY <1>2, <3>2, <3>5, <4>1
    <3> QED
      BY <3>3, <3>4, <3>5
  <2> QED
    BY <2>1, <2>2
<1>15. ASSUME NEW l \in Descs, NEW i \in 0..n2[l] + 1
       PROVE  c2[l][i] \in DOMAIN new
  <2>1. CASE l = d /\ i = n[d] + 1
    BY <1>2, <1>9, <2>1
  <2>2. CASE ~(l = d /\ i = n[d] + 1)
    BY <1>1, <1>9, <1>10, <2>2
  <2> QED
    BY <2>1, <2>2
<1>16. IsFiniteSet(DOMAIN new)
  BY <1>9, FS_AddElement DEF Holds
<1>17. \A e : e \in DOMAIN new <=> \E l \in Descs : \E i \in 0..n2[l] + 1 : c2[l][i] = e
  BY <1>14, <1>15
<1>18. new \in [DOMAIN new -> [prev : Int, next : Int]] /\ n2 \in [Descs -> Nat]
  BY <1>2, <1>9
<1> HIDE DEF p, b, Old
<1>19. Holds(new, n2, c2)
  BY <1>11, <1>12, <1>13, <1>16, <1>17, <1>18 DEF Holds
<1> QED
  BY <1>19 DEF new

LEMMA ListingAppend ==
    ASSUME NEW k, NEW free, Listing(k, free), NEW d \in Descs, NEW t \in Nat,
           \A l \in Descs : t \notin free[l]
    PROVE  Listing(ListAppend(k, d, t), [free EXCEPT ![d] = @ \cup {t}])
<1>1. PICK n, c : Holds(k, n, c) /\ free = [l \in Descs |-> {c[l][i] : i \in 1..n[l]}]
  BY DEF Listing
<1> DEFINE free2 == [free EXCEPT ![d] = @ \cup {t}]
<1>2. t \notin DOMAIN k
  <2>1. SUFFICES ASSUME NEW l \in Descs, NEW i \in 0..n[l] + 1, c[l][i] = t PROVE FALSE
    BY <1>1 DEF Holds
  <2>2. n[l] \in Nat /\ c[l][0] = ListHead(l) /\ c[l][n[l] + 1] = ListTail(l)
    BY <1>1, HoldsFacts
  <2>3. i # 0 /\ i # n[l] + 1
    BY <2>1, <2>2, DescFacts
  <2>4. i \in 1..n[l]
    BY <2>1, <2>2, <2>3
  <2> QED
    BY <1>1, <2>1, <2>4
<1>0. PICK n2, c2 : Longer(n, c, d, t, n2, c2)
  BY <1>1, LongerExists
<1>3. Holds(ListAppend(k, d, t), n2, c2)
  BY <1>0, <1>1, <1>2, AppendHolds
<1>4. /\ n2[d] = n[d] + 1 /\ \A l \in Descs \ {d} : n2[l] = n[l] /\ c2[l] = c[l]
      /\ \A i \in 0..n[d] : c2[d][i] = c[d][i]
      /\ c2[d][n[d] + 1] = t
  BY <1>0 DEF Longer
<1>5. n[d] \in Nat
  BY <1>1, HoldsFacts
<1>6. \A l \in Descs : free2[l] = {c2[l][i] : i \in 1..n2[l]}
  <2> TAKE l \in Descs
  <2>1. CASE l # d
    BY <1>1, <1>4, <2>1
  <2>2. CASE l = d
    <3>1. free2[l] = {c[d][i] : i \in 1..n[d]} \cup {t}
      BY <1>1, <2>2
    <3>2. \A i : i \in 1..n2[d] <=> i \in 1..n[d] \/ i = n[d] + 1
      BY <1>4, <1>5
    <3>3. \A i \in 1..n[d] : c2[d][i] = c[d][i]
      BY <1>4, <1>5
    <3> HIDE DEF free2
    <3> QED
      BY <1>4, <2>2, <3>1, <3>2, <3>3
  <2> QED
    BY <2>1, <2>2
<1>7. free2 = [l \in Descs |-> {c2[l][i] : i \in 1..n2[l]}]
  <2>1. free2 = [l \in Descs |-> free2[l]]
    BY <1>1
  <2> HIDE DEF free2
  <2> QED
    BY <1>6, <2>1
<1> HIDE DEF free2
<1>8. Listing(ListAppend(k, d, t), free2)
  BY <1>3, <1>7 DEF Listing
<1> QED
  BY <1>8 DEF free2


\* n2 and c2 are n and c without what list d has in place j.
Shorter(n, c, d, j, n2, c2) ==
    /\ n2 \in [Descs -> Nat]
    /\ n2[d] = n[d] - 1 /\ \A l \in Descs \ {d} : n2[l] = n[l] /\ c2[l] = c[l]
    /\ \A i \in 0..j - 1 : c2[d][i] = c[d][i]
    /\ \A i \in j..n[d] : c2[d][i] = c[d][i + 1]

LEMMA ShorterExists ==
    ASSUME NEW n \in [Descs -> Nat], NEW c, NEW d \in Descs, NEW j \in 1..n[d]
    PROVE  \E n2, c2 : Shorter(n, c, d, j, n2, c2)
<1> DEFINE n2 == [n EXCEPT ![d] = @ - 1]
           cd == [i \in 0..n[d] |-> IF i < j THEN c[d][i] ELSE c[d][i + 1]]
           c2 == [l \in Descs |-> IF l = d THEN cd ELSE c[l]]
<1>1. n[d] \in Nat /\ n[d] - 1 \in Nat /\ j \in Nat /\ j <= n[d]
  OBVIOUS
<1>2. n2 \in [Descs -> Nat] /\ n2[d] = n[d] - 1 /\ \A l \in Descs \ {d} : n2[l] = n[l]
  BY <1>1
<1>3. c2[d] = cd /\ \A l \in Descs \ {d} : c2[l] = c[l]
  OBVIOUS
<1>4. /\ \A i \in 0..j - 1 : cd[i] = c[d][i]
      /\ \A i \in j..n[d] : cd[i] = c[d][i + 1]
  BY <1>1
<1> HIDE DEF n2, cd, c2
<1>5. Shorter(n, c, d, j, n2, c2)
  BY <1>2, <1>3, <1>4 DEF Shorter
<1> QED
  BY <1>5

LEMMA DetachHolds ==
    ASSUME NEW k, NEW n, NEW c, Holds(k, n, c), NEW d \in Descs, NEW j \in 1..n[d],
           NEW n2, NEW c2, Shorter(n, c, d, j, n2, c2)
    PROVE  Holds(Detach(k, c[d][j]), n2, c2)
<1> DEFINE t == c[d][j]
           new == Detach(k, t)
           p == c[d][j - 1]
           b == c[d][j + 1]
           Old(l, i) == IF l = d /\ i >= j THEN i + 1 ELSE i
<1>1. /\ \A l \in Descs :
            /\ n[l] \in Nat
            /\ \A i \in 0..n[l] + 1 : c[l][i] \in DOMAIN k /\ c[l][i] \in Int
            /\ \A i \in 1..n[l] : c[l][i] \in Nat
            /\ c[l][0] = ListHead(l) /\ c[l][n[l] + 1] = ListTail(l)
      /\ \A e \in DOMAIN k : k[e] \in [prev : Int, next : Int]
  BY HoldsFacts
<1>2. /\ n2 \in [Descs -> Nat]
      /\ n2[d] = n[d] - 1 /\ \A l \in Descs \ {d} : n2[l] = n[l] /\ c2[l] = c[l]
      /\ \A i \in 0..j - 1 : c2[d][i] = c[d][i]
      /\ \A i \in j..n[d] : c2[d][i] = c[d][i + 1]
  BY DEF Shorter
<1>3. \A l, m \in Descs : \A i \in 0..n[l] + 1, x \in 0..n[m] + 1 :
          c[l][i] = c[m][x] => l = m /\ i = x
  BY DEF Holds
<1>4. \A l \in Descs : \A i \in 0..n[l] :
          k[c[l][i]].next = c[l][i + 1] /\ k[c[l][i + 1]].prev = c[l][i]
  BY DEF Holds
<1>5. /\ n[d] \in Nat /\ j \in Nat /\ j >= 1 /\ j <= n[d]
      /\ j - 1 \in 0..n[d] + 1 /\ j \in 0..n[d] + 1 /\ j + 1 \in 0..n[d] + 1
      /\ j - 1 \in 0..n[d] /\ j \in 0..n[d] /\ (j - 1) + 1 = j
      /\ j - 1 # j /\ j - 1 # j + 1 /\ j # j + 1
  BY <1>1
<1>6. /\ p \in DOMAIN k /\ b \in DOMAIN k /\ t \in DOMAIN k /\ p \in Int /\ b \in Int
      /\ p # b /\ t # p /\ t # b
  BY <1>1, <1>3, <1>5
<1>7. p = k[t].prev /\ b = k[t].next
  BY <1>4, <1>5
<1> HIDE DEF new
<1>8. Bypassed(k, new, t, p, b)
  <2>1. k \in [DOMAIN k -> [prev : Int, next : Int]] /\ new = Detach(k, t)
    BY DEF Holds, new
  <2> HIDE DEF p, b, t
  <2> QED
    BY <1>6, <1>7, <2>1, DetachFields
<1>9. /\ DOMAIN new = DOMAIN k \ {t}
      /\ new \in [DOMAIN new -> [prev : Int, next : Int]]
      /\ new[p].prev = k[p].prev /\ new[p].next = b
      /\ new[b].prev = p /\ new[b].next = k[b].next
      /\ \A e \in DOMAIN k \ {t, p, b} : new[e] = k[e]
  BY <1>8 DEF Bypassed
<1>10. ASSUME NEW l \in Descs, NEW i \in 0..n2[l] + 1
       PROVE  /\ Old(l, i) \in 0..n[l] + 1 /\ ~(l = d /\ Old(l, i) = j)
              /\ c2[l][i] = c[l][Old(l, i)]
  <2>1. CASE l # d
    BY <1>2, <2>1
  <2>2. CASE l = d /\ i < j
    <3>1. i \in 0..j - 1 /\ i \in 0..n[d] + 1 /\ ~(i >= j) /\ i # j
      BY <1>2, <1>5, <2>2
    <3> QED
      BY <1>2, <2>2, <3>1
  <2>3. CASE l = d /\ i >= j
    <3>1. i \in j..n[d] /\ i + 1 \in 0..n[d] + 1 /\ i + 1 # j
      BY <1>2, <1>5, <2>3
    <3> QED
      BY <1>2, <2>3, <3>1
  <2>4. l = d => i < j \/ i >= j
    BY <1>2, <1>5
  <2> QED
    BY <2>1, <2>2, <2>3, <2>4
<1>11. ASSUME NEW l \in Descs, NEW m \in Descs,
              NEW i \in 0..n2[l] + 1, NEW x \in 0..n2[m] + 1, c2[l][i] = c2[m][x]
       PROVE  l = m /\ i = x
  <2>1. l = m /\ Old(l, i) = Old(m, x)
    <3> HIDE DEF Old
    <3> QED
      BY <1>3, <1>10, <1>11
  <2>2. i \in Int /\ x \in Int
    OBVIOUS
  <2> QED
    BY <1>5, <2>1, <2>2
<1>12. ASSUME NEW l \in Descs, NEW i \in 0..n2[l]
       PROVE  new[c2[l][i]].next = c2[l][i + 1] /\ new[c2[l][i + 1]].prev = c2[l][i]
  <2>1. CASE l # d
    <3>1. /\ c2[l] = c[l] /\ i \in 0..n[l] /\ i \in 0..n[l] + 1 /\ i + 1 \in 0..n[l] + 1
      BY <1>1, <1>2, <2>1
    <3>2. /\ c[l][i] \in DOMAIN k \ {t, p, b}
          /\ c[l][i + 1] \in DOMAIN k \ {t, p, b}
      BY <1>1, <1>3, <1>5, <2>1, <3>1
    <3> QED
      BY <1>4, <1>9, <3>1, <3>2
  <2>2. CASE l = d /\ i + 1 < j
    <3>1. /\ i \in 0..j - 1 /\ i + 1 \in 0..j - 1
          /\ i # j - 1 /\ i # j /\ i # j + 1 /\ i + 1 # j /\ i + 1 # j + 1
          /\ i \in 0..n[d] + 1 /\ i + 1 \in 0..n[d] + 1 /\ i \in 0..n[d]
      BY <1>2, <1>5, <2>2
    <3>2. c2[l][i] = c[d][i] /\ c2[l][i + 1] = c[d][i + 1]
      BY <1>2, <2>2, <3>1
    <3>3. c[d][i] \in DOMAIN k \ {t, p, b} /\ c[d][i + 1] \in DOMAIN k \ {t, b}
      BY <1>1, <1>3, <1>5, <3>1
    <3>4. new[c[d][i]] = k[c[d][i]] /\ new[c[d][i + 1]].prev = k[c[d][i + 1]].prev
      <4>1. CASE c[d][i + 1] = p
        BY <1>9, <3>3, <4>1
      <4>2. CASE c[d][i + 1] # p
        BY <1>9, <3>3, <4>2
      <4> QED
        BY <4>1, <4>2
    <3> QED
      BY <1>4, <3>1, <3>2, <3>4
  <2>3. CASE l = d /\ i + 1 = j
    <3>1. i = j - 1 /\ i \in 0..j - 1 /\ j \in j..n[d]
      BY <1>2, <1>5, <2>3
    <3>2. c2[l][i] = p /\ c2[l][i + 1] = b
      BY <1>2, <2>3, <3>1
    <3> QED
      BY <1>9, <3>2
  <2>4. CASE l = d /\ i >= j
    <3>1. /\ i \in j..n[d] /\ i + 1 \in j..n[d]
          /\ i + 1 \in 0..n[d] + 1 /\ (i + 1) + 1 \in 0..n[d] + 1 /\ i + 1 \in 0..n[d]
          /\ i + 1 # j - 1 /\ i + 1 # j
          /\ (i + 1) + 1 # j - 1 /\ (i + 1) + 1 # j /\ (i + 1) + 1 # j + 1
      BY <1>2, <1>5, <2>4
    <3>2. c2[l][i] = c[d][i + 1] /\ c2[l][i + 1] = c[d][(i + 1) + 1]
      BY <1>2, <2>4, <3>1
    <3>3. /\ c[d][i + 1] \in DOMAIN k \ {t, p}
          /\ c[d][(i + 1) + 1] \in DOMAIN k \ {t, p, b}
      BY <1>1, <1>3, <1>5, <3>1
    <3>4. /\ new[c[d][i + 1]].next = k[c[d][i + 1]].next
          /\ new[c[d][(i + 1) + 1]] = k[c[d][(i + 1) + 1]]
      <4>1. CASE c[d][i + 1] = b
        BY <1>9, <3>3, <4>1
      <4>2. CASE c[d][i + 1] # b
        BY <1>9, <3>3, <4>2
      <4> QED
        BY <4>1, <4>2
    <3> QED
      BY <1>4, <3>1, <3>2, <3>4
  <2>5. i \in Int
    OBVIOUS
  <2> QED
    BY <1>5, <2>1, <2>2, <2>3, <2>4, <2>5
<1>13. ASSUME NEW l \in Descs
       PROVE  /\ c2[l][0] = ListHead(l) /\ c2[l][n2[l] + 1] = ListTail(l)
              /\ \A i \in 1..n2[l] : c2[l][i] \in Nat
  <2>1. CASE l # d
    BY <1>1, <1>2, <2>1
  <2>2. CASE l = d
    <3>1. 0 \in 0..j - 1 /\ n2[d] + 1 = n[d] /\ n[d] \in j..n[d]
      BY <1>2, <1>5
    <3>2. c2[d][0] = ListHead(d) /\ c2[d][n2[d] + 1] = ListTail(d)
      BY <1>1, <1>2, <3>1
    <3>3. ASSUME NEW i \in 1..n2[d]
          PROVE  c2[d][i] \in Nat
      <4>1. CASE i < j
        <5>1. i \in 0..j - 1 /\ i \in 1..n[d]
          BY <1>2, <1>5, <4>1
        <5> QED
          BY <1>1, <1>2, <5>1
      <4>2. CASE ~(i < j)
        <5>1. i \in j..n[d] /\ i + 1 \in 1..n[d]
          BY <1>2, <1>5, <4>2
        <5> QED
          BY <1>1, <1>2, <5>1
      <4> QED
        BY <4>1, <4>2
    <3> QED
      BY <2>2, <3>2, <3>3
  <2> QED
    BY <2>1, <2>2
<1>14. ASSUME NEW e \in DOMAIN new
       PROVE  \E l \in Descs : \E i \in 0..n2[l] + 1 : c2[l][i] = e
  <2>1. PICK l \in Descs : \E i \in 0..n[l] + 1 : c[l][i] = e
    BY <1>9 DEF Holds
  <2>2. PICK i \in 0..n[l] + 1 : c[l][i] = e
    BY <2>1
  <2>3. CASE l # d
    BY <1>2, <2>2, <2>3
  <2>4. CASE l = d /\ i < j
    <3>1. i \in 0..j - 1 /\ i \in 0..n2[d] + 1
      BY <1>2, <1>5, <2>4
    <3> QED
      BY <1>2, <2>2, <2>4, <3>1
  <2>5. CASE l = d /\ i > j
    <3>1. i - 1 \in j..n[d] /\ i - 1 \in 0..n2[d] + 1 /\ (i - 1) + 1 = i
      BY <1>2, <1>5, <2>5
    <3> QED
      BY <1>2, <2>2, <2>5, <3>1
  <2>6. ~(l = d /\ i = j)
    BY <1>9, <2>2
  <2>7. i \in Int
    OBVIOUS
  <2> QED
    BY <1>5, <2>3, <2>4, <2>5, <2>6, <2>7
<1>15. ASSUME NEW l \in Descs, NEW i \in 0..n2[l] + 1
       PROVE  c2[l][i] \in DOMAIN new
  <2>1. c2[l][i] # t
    <3> HIDE DEF Old
    <3> QED
      BY <1>3, <1>5, <1>10
  <2> HIDE DEF Old
  <2> QED
    BY <1>1, <1>9, <1>10, <2>1
<1>16. IsFiniteSet(DOMAIN new)
  BY <1>9, FS_Subset DEF Holds
<1>17. \A e : e \in DOMAIN new <=> \E l \in Descs : \E i \in 0..n2[l] + 1 : c2[l][i] = e
  BY <1>14, <1>15
<1>18. new \in [DOMAIN new -> [prev : Int, next : Int]] /\ n2 \in [Descs -> Nat]
  BY <1>2, <1>9
<1> HIDE DEF p, b, Old
<1>19. Holds(new, n2, c2)
  BY <1>11, <1>12, <1>13, <1>16, <1>17, <1>18 DEF Holds
<1> QED
  BY <1>19 DEF new, t

LEMMA ListingDetach ==
    ASSUME NEW k, NEW free, Listing(k, free), NEW d \in Descs, NEW t \in free[d]
    PROVE  Listing(Detach(k, t), [free EXCEPT ![d] = @ \ {t}])
<1>1. PICK n, c : Holds(k, n, c) /\ free = [l \in Descs |-> {c[l][i] : i \in 1..n[l]}]
  BY DEF Listing
<1>2. PICK j \in 1..n[d] : c[d][j] = t
  BY <1>1
<1> DEFINE free2 == [free EXCEPT ![d] = @ \ {t}]
<1>3. n \in [Descs -> Nat] /\ n[d] \in Nat
  BY <1>1 DEF Holds
<1>4. PICK n2, c2 : Shorter(n, c, d, j, n2, c2)
  BY <1>3, ShorterExists
<1>5. Holds(Detach(k, t), n2, c2)
  BY <1>1, <1>2, <1>4, DetachHolds
<1>6. /\ n2[d] = n[d] - 1 /\ \A l \in Descs \ {d} : n2[l] = n[l] /\ c2[l] = c[l]
      /\ \A i \in 0..j - 1 : c2[d][i] = c[d][i]
      /\ \A i \in j..n[d] : c2[d][i] = c[d][i + 1]
  BY <1>4 DEF Shorter
<1>7. free2[d] = {c2[d][i] : i \in 1..n2[d]}
  <2>1. free2[d] = {c[d][i] : i \in 1..n[d]} \ {t}
    BY <1>1
  <2>2. \A i \in 1..n[d] : c[d][i] = t => i = j
    <3>1. \A i \in 1..n[d] : i \in 0..n[d] + 1
      BY <1>3
    <3> QED
      BY <1>1, <1>2, <3>1 DEF Holds
  <2>3. ASSUME NEW i \in 1..n2[d]
        PROVE  c2[d][i] \in free2[d]
    <3>1. CASE i < j
      <4>1. i \in 0..j - 1 /\ i \in 1..n[d] /\ i # j
        BY <1>3, <1>6, <3>1
      <4> QED
        BY <1>6, <2>1, <2>2, <4>1
    <3>2. CASE ~(i < j)
      <4>1. i \in j..n[d] /\ i + 1 \in 1..n[d] /\ i + 1 # j
        BY <1>3, <1>6, <3>2
      <4> QED
        BY <1>6, <2>1, <2>2, <4>1
    <3> QED
      BY <3>1, <3>2
  <2>4. ASSUME NEW i \in 1..n[d], c[d][i] # t
        PROVE  \E x \in 1..n2[d] : c2[d][x] = c[d][i]
    <3>1. i # j /\ j \in Int
      BY <1>2, <2>4
    <3>2. CASE i < j
      <4>1. i \in 0..j - 1 /\ i \in 1..n2[d]
        BY <1>3, <1>6, <3>2
      <4> QED
        BY <1>6, <4>1
    <3>3. CASE i > j
      <4>1. i - 1 \in j..n[d] /\ i - 1 \in 1..n2[d] /\ (i - 1) + 1 = i
        BY <1>3, <1>6, <3>3
      <4> QED
        BY <1>6, <4>1
    <3> QED
      BY <1>3, <3>1, <3>2, <3>3
  <2> HIDE DEF free2
  <2> QED
    BY <2>1, <2>3, <2>4
<1>8. \A l \in Descs : free2[l] = {c2[l][i] : i \in 1..n2[l]}
  <2> TAKE l \in Descs
  <2>1. CASE l # d
    BY <1>1, <1>6, <2>1
  <2>2. CASE l = d
    BY <1>7, <2>2
  <2> QED
    BY <2>1, <2>2
<1>9. free2 = [l \in Descs |-> {c2[l][i] : i \in 1..n2[l]}]
  <2>1. free2 = [l \in Descs |-> free2[l]]
    BY <1>1
  <2> HIDE DEF free2
  <2> QED
    BY <1>8, <2>1
<1> HIDE DEF free2
<1>10. Listing(Detach(k, t), free2)
  BY <1>5, <1>9 DEF Listing
<1> QED
  BY <1>10 DEF free2


LEMMA ListingFirst ==
    ASSUME NEW k, NEW free, Listing(k, free), NEW d \in Descs
    PROVE  /\ ListEmpty(k, d) <=> free[d] = {}
           /\ free[d] # {} => First(k, d) \in free[d]
<1>1. PICK n, c : Holds(k, n, c) /\ free = [l \in Descs |-> {c[l][i] : i \in 1..n[l]}]
  BY DEF Listing
<1>2. n[d] \in Nat /\ c[d][0] = ListHead(d) /\ c[d][n[d] + 1] = ListTail(d)
  BY <1>1, HoldsFacts
<1>3. 0 \in 0..n[d] /\ 0 + 1 = 1 /\ 1 \in 0..n[d] + 1 /\ n[d] + 1 \in 0..n[d] + 1
  BY <1>2
<1>4. k[c[d][0]].next = c[d][1]
  <2>1. \A i \in 0..n[d] : k[c[d][i]].next = c[d][i + 1]
    BY <1>1 DEF Holds
  <2> QED
    BY <1>3, <2>1
<1>5. First(k, d) = c[d][1]
  BY <1>2, <1>4 DEF First
<1>6. ListEmpty(k, d) <=> n[d] = 0
  <2>1. c[d][1] = c[d][n[d] + 1] <=> 1 = n[d] + 1
    BY <1>1, <1>3 DEF Holds
  <2>2. ListEmpty(k, d) <=> c[d][1] = ListTail(d)
    BY <1>2, <1>4 DEF ListEmpty
  <2> QED
    BY <1>2, <2>1, <2>2
<1>7. free[d] = {c[d][i] : i \in 1..n[d]}
  BY <1>1
<1>8. CASE n[d] = 0
  BY <1>6, <1>7, <1>8
<1>9. CASE n[d] # 0
  <2>1. 1 \in 1..n[d]
    BY <1>2, <1>9
  <2> QED
    BY <1>5, <1>6, <1>7, <1>9, <2>1
<1> QED
  BY <1>8, <1>9

LEMMA ListFits ==
    ASSUME NEW k, NEW n, NEW c, Holds(k, n, c), NEW d \in Descs
    PROVE  /\ Cardinality(DOMAIN k) \in Nat
           /\ n[d] \in Nat
           /\ n[d] <= Cardinality(DOMAIN k)
<1> DEFINE f == [i \in 1..n[d] |-> c[d][i]]
<1>1. n[d] \in Nat /\ \A i \in 1..n[d] : c[d][i] \in DOMAIN k /\ i \in 0..n[d] + 1
  <2>1. n[d] \in Nat /\ \A i \in 0..n[d] + 1 : c[d][i] \in DOMAIN k
    BY HoldsFacts
  <2> QED
    BY <2>1
<1>2. \A i, j \in 1..n[d] : c[d][i] = c[d][j] => i = j
  BY <1>1 DEF Holds
<1>3. f \in Injection(1..n[d], DOMAIN k)
  <2>1. f \in [1..n[d] -> DOMAIN k]
    BY <1>1
  <2>2. \A i, j \in 1..n[d] : f[i] = f[j] => i = j
    BY <1>2
  <2> QED
    BY <2>1, <2>2 DEF Injection, IsInjective
<1> HIDE DEF f
<1>4. IsFiniteSet(DOMAIN k)
  BY DEF Holds
<1>5. Cardinality(1..n[d]) <= Cardinality(DOMAIN k)
  BY <1>3, <1>4, FS_Injection
<1>6. Cardinality(1..n[d]) = n[d]
  BY <1>1, FS_Interval
<1>7. Cardinality(DOMAIN k) \in Nat
  BY <1>4, FS_CardinalityType
<1> QED
  BY <1>1, <1>5, <1>6, <1>7

\* After x steps a walk stands on the block behind, or for ever on the tail.
LEMMA WalkIs ==
    ASSUME NEW k, NEW n, NEW c, Holds(k, n, c), NEW d \in Descs
    PROVE  /\ DOMAIN Walk(k, d) = 0..Cardinality(DOMAIN k)
           /\ \A x \in 0..Cardinality(DOMAIN k) :
                 Walk(k, d)[x] = IF x <= n[d] THEN c[d][x + 1] ELSE ListTail(d)
<1> DEFINE N == Cardinality(DOMAIN k)
           K == n[d]
           place == [x \in 0..N |-> IF x <= K THEN c[d][x + 1] ELSE ListTail(d)]
           Step(at) == [x \in 0..N |->
                          IF x = 0 THEN First(k, d)
                          ELSE IF at[x - 1] = ListTail(d) THEN at[x - 1]
                          ELSE k[at[x - 1]].next]
           w == Walk(k, d)
<1>1. N \in Nat /\ K \in Nat
  BY ListFits
<1>2. c[d][0] = ListHead(d) /\ c[d][K + 1] = ListTail(d)
  BY HoldsFacts
<1>3. \A x \in 0..K : k[c[d][x]].next = c[d][x + 1]
  BY DEF Holds
<1>4. ASSUME NEW x \in 0..K
      PROVE  c[d][x] # ListTail(d)
  <2>1. x \in 0..K + 1 /\ K + 1 \in 0..K + 1 /\ x # K + 1
    BY <1>1
  <2> QED
    BY <1>2, <2>1 DEF Holds
<1>5. First(k, d) = c[d][1]
  <2>1. 0 \in 0..K /\ 0 + 1 = 1
    BY <1>1
  <2> QED
    BY <1>2, <1>3, <2>1 DEF First
<1>6. w = CHOOSE at : at = Step(at)
  BY DEF Walk
<1> HIDE DEF N, K, w
<1>7. ASSUME NEW x \in 0..N, NEW at, x > 0 => at[x - 1] = place[x - 1]
      PROVE  Step(at)[x] = place[x]
  <2>1. CASE x = 0
    <3>1. 0 <= K /\ 0 + 1 = 1
      BY <1>1
    <3> QED
      BY <1>5, <2>1, <3>1
  <2>2. CASE x # 0 /\ x <= K
    <3>1. x - 1 \in 0..N /\ x - 1 <= K /\ (x - 1) + 1 = x /\ x \in 0..K /\ x > 0
      BY <1>1, <2>2
    <3>2. at[x - 1] = c[d][x] /\ place[x] = c[d][x + 1]
      BY <1>7, <2>2, <3>1
    <3>3. Step(at)[x] = IF at[x - 1] = ListTail(d) THEN at[x - 1] ELSE k[at[x - 1]].next
      BY <2>2
    <3> HIDE DEF place, Step
    <3> QED
      BY <1>3, <1>4, <3>1, <3>2, <3>3
  <2>3. CASE x # 0 /\ ~(x <= K)
    <3>1. x - 1 \in 0..N /\ (x - 1 <= K => (x - 1) + 1 = K + 1) /\ x > 0
      BY <1>1, <2>3
    <3>2. at[x - 1] = ListTail(d) /\ place[x] = ListTail(d)
      BY <1>2, <1>7, <2>3, <3>1
    <3> QED
      BY <2>3, <3>2
  <2> QED
    BY <2>1, <2>2, <2>3
<1>8. place = Step(place)
  <2>1. ASSUME NEW x \in 0..N
        PROVE  place[x] = Step(place)[x]
    <3> HIDE DEF place, Step
    <3> QED
      BY <1>7
  <2> QED
    BY <2>1
<1>9. w = Step(w)
  <2> HIDE DEF place, Step
  <2> QED
    BY <1>6, <1>8
<1>10. DOMAIN w = 0..N
  BY <1>9
<1> HIDE DEF place, Step
<1>11. \A x \in 0..N : w[x] = place[x]
  <2> DEFINE T == {x \in 0..N : w[x] # place[x]}
  <2>1. SUFFICES ASSUME T # {} PROVE FALSE
    OBVIOUS
  <2>2. T \subseteq Nat
    OBVIOUS
  <2>3. PICK x \in T : \A m \in T : x <= m
    BY <2>1, <2>2, LeastNat
  <2>4. x \in 0..N /\ w[x] # place[x]
    BY <2>3
  <2>5. x > 0 => w[x - 1] = place[x - 1]
    <3>1. SUFFICES ASSUME x > 0 PROVE x - 1 \in 0..N /\ ~(x <= x - 1)
      BY <2>3
    <3> QED
      BY <1>1, <2>4, <3>1
  <2> QED
    BY <1>7, <1>9, <2>4, <2>5
<1> QED
  BY <1>10, <1>11 DEF place, N, K, w

LEMMA ListingFinds ==
    ASSUME NEW k, NEW free, Listing(k, free), NEW d \in Descs, NEW t \in Nat
    PROVE  ElemFind(k, d, t) <=> t \in free[d]
<1>1. PICK n, c : Holds(k, n, c) /\ free = [l \in Descs |-> {c[l][i] : i \in 1..n[l]}]
  BY DEF Listing
<1> DEFINE N == Cardinality(DOMAIN k)
           K == n[d]
<1>2. N \in Nat /\ K \in Nat /\ K <= N
  BY <1>1, ListFits
<1>3. /\ DOMAIN Walk(k, d) = 0..N
      /\ \A x \in 0..N : Walk(k, d)[x] = IF x <= K THEN c[d][x + 1] ELSE ListTail(d)
  BY <1>1, WalkIs
<1>4. c[d][K + 1] = ListTail(d) /\ t # ListTail(d)
  <2>1. c[d][K + 1] = ListTail(d)
    BY <1>1, HoldsFacts
  <2> QED
    BY <2>1, DescFacts
<1> HIDE DEF N, K
<1>5. ASSUME NEW x \in 0..N, Walk(k, d)[x] = t
      PROVE  \E i \in 1..K : c[d][i] = t
  <2>1. x <= K /\ c[d][x + 1] = t
    BY <1>3, <1>4, <1>5
  <2>2. x # K
    BY <1>4, <2>1
  <2>3. x + 1 \in 1..K
    BY <1>2, <2>1, <2>2
  <2> QED
    BY <2>1, <2>3
<1>6. ASSUME NEW i \in 1..K, c[d][i] = t
      PROVE  \E x \in 0..N : Walk(k, d)[x] = t
  <2>1. i - 1 \in 0..N /\ i - 1 <= K /\ (i - 1) + 1 = i
    BY <1>2
  <2> QED
    BY <1>3, <1>6, <2>1
<1>7. free[d] = {c[d][i] : i \in 1..K}
  BY <1>1 DEF K
<1> QED
  BY <1>3, <1>5, <1>6, <1>7 DEF ElemFind

\* What a whole walk meets.
LEMMA ListedIs ==
    ASSUME NEW k, NEW n, NEW c, Holds(k, n, c), NEW d \in Descs
    PROVE  Listed(k, d) = [i \in 1..n[d] |-> c[d][i]]
<1> DEFINE N == Cardinality(DOMAIN k)
           K == n[d]
           at == Walk(k, d)
           met == {x \in DOMAIN at : at[x] # ListTail(d)}
<1>1. N \in Nat /\ K \in Nat /\ K <= N
  BY ListFits
<1>2. /\ DOMAIN at = 0..N
      /\ \A x \in 0..N : at[x] = IF x <= K THEN c[d][x + 1] ELSE ListTail(d)
  BY WalkIs
<1>3. Listed(k, d) = [i \in 1..Cardinality(met) |-> at[i - 1]]
  BY DEF Listed
<1>4. c[d][K + 1] = ListTail(d)
  BY HoldsFacts
<1>5. ASSUME NEW i \in 1..K
      PROVE  c[d][i] # ListTail(d)
  <2>1. i \in 0..K + 1 /\ K + 1 \in 0..K + 1 /\ i # K + 1
    BY <1>1
  <2> QED
    BY <1>4, <2>1 DEF Holds
<1> HIDE DEF N, K, at
<1>6. met = 0..K - 1
  <2>1. ASSUME NEW x \in 0..N
        PROVE  at[x] # ListTail(d) <=> x < K
    <3>1. CASE x < K
      <4>1. x + 1 \in 1..K /\ x <= K
        BY <1>1, <3>1
      <4> QED
        BY <1>2, <1>5, <3>1, <4>1
    <3>2. CASE ~(x < K)
      <4>1. x <= K => x + 1 = K + 1
        BY <1>1, <3>2
      <4> QED
        BY <1>2, <1>4, <3>2, <4>1
    <3> QED
      BY <3>1, <3>2
  <2> QED
    BY <1>1, <1>2, <2>1
<1>7. Cardinality(met) = K
  <2>1. Cardinality(0..K - 1) = K
    BY <1>1, FS_Interval
  <2> QED
    BY <1>6, <2>1
<1>8. \A i \in 1..K : at[i - 1] = c[d][i]
  <2> TAKE i \in 1..K
  <2>1. i - 1 \in 0..N /\ i - 1 <= K /\ (i - 1) + 1 = i
    BY <1>1
  <2> QED
    BY <1>2, <2>1
<1> HIDE DEF met
<1> QED
  BY <1>3, <1>7, <1>8 DEF K

LEMMA ListingListed ==
    ASSUME NEW k, NEW free, Listing(k, free)
    PROVE  /\ \A d \in Descs : /\ Range(Listed(k, d)) = free[d]
                               /\ IsInjective(Listed(k, d))
                               /\ IsFiniteSet(free[d]) /\ free[d] \subseteq Nat
           /\ Linked(k, Descs)
<1>1. PICK n, c : Holds(k, n, c) /\ free = [l \in Descs |-> {c[l][i] : i \in 1..n[l]}]
  BY DEF Listing
<1>2. ASSUME NEW d \in Descs
      PROVE  /\ n[d] \in Nat
             /\ Listed(k, d) = [i \in 1..n[d] |-> c[d][i]]
             /\ c[d][0] = ListHead(d) /\ c[d][n[d] + 1] = ListTail(d)
             /\ \A i \in 1..n[d] : c[d][i] \in Nat /\ c[d][i] \in DOMAIN k /\ i \in 0..n[d] + 1
  <2>1. /\ n[d] \in Nat
        /\ \A i \in 0..n[d] + 1 : c[d][i] \in DOMAIN k
        /\ \A i \in 1..n[d] : c[d][i] \in Nat
        /\ c[d][0] = ListHead(d) /\ c[d][n[d] + 1] = ListTail(d)
    BY <1>1, HoldsFacts
  <2>2. Listed(k, d) = [i \in 1..n[d] |-> c[d][i]]
    BY <1>1, ListedIs
  <2> QED
    BY <2>1, <2>2
<1>3. ASSUME NEW d \in Descs
      PROVE  /\ Range(Listed(k, d)) = free[d]
             /\ IsInjective(Listed(k, d))
             /\ IsFiniteSet(free[d]) /\ free[d] \subseteq Nat
  <2>1. free[d] = {c[d][i] : i \in 1..n[d]}
    BY <1>1
  <2>2. Range(Listed(k, d)) = free[d]
    BY <1>2, <2>1 DEF Range
  <2>3. \A i, j \in 1..n[d] : c[d][i] = c[d][j] => i = j
    <3>1. \A i, j \in 0..n[d] + 1 : c[d][i] = c[d][j] => i = j
      <4>1. \A l, m \in Descs : \A i \in 0..n[l] + 1, j \in 0..n[m] + 1 :
               c[l][i] = c[m][j] => l = m /\ i = j
        BY <1>1 DEF Holds
      <4>2. \A i \in 0..n[d] + 1, j \in 0..n[d] + 1 : c[d][i] = c[d][j] => d = d /\ i = j
        BY <4>1
      <4> QED
        BY <4>2
    <3>2. \A i \in 1..n[d] : i \in 0..n[d] + 1
      BY <1>2
    <3> QED
      BY <3>1, <3>2, Zenon
  <2>4. IsInjective(Listed(k, d))
    BY <1>2, <2>3 DEF IsInjective
  <2>5. free[d] \subseteq DOMAIN k /\ free[d] \subseteq Nat
    BY <1>2, <2>1
  <2>6. IsFiniteSet(free[d])
    BY <1>1, <2>5, FS_Subset DEF Holds
  <2> QED
    BY <2>2, <2>4, <2>5, <2>6
<1>4. ASSUME NEW d \in Descs,
             NEW all, all = <<ListHead(d)>> \o Listed(k, d) \o <<ListTail(d)>>,
             NEW x \in 1..Len(all) - 1
      PROVE  k[all[x]].next = all[x + 1] /\ k[all[x + 1]].prev = all[x]
  <2> DEFINE s == Listed(k, d)
             K == n[d]
  <2>1. K \in Nat /\ s \in Seq(Nat) /\ Len(s) = K /\ \A i \in 1..K : s[i] = c[d][i]
    <3>1. s = [i \in 1..K |-> c[d][i]] /\ K \in Nat /\ \A i \in 1..K : c[d][i] \in Nat
      BY <1>2
    <3> HIDE DEF s, K
    <3>2. s \in [1..K -> Nat]
      BY <3>1
    <3>3. s \in Seq(Nat) /\ Len(s) = K
      BY <3>1, <3>2
    <3> QED
      BY <3>1, <3>3
  <2> HIDE DEF s
  <2>2. Len(all) = K + 2 /\ \A y \in 1..K + 2 : all[y] = c[d][y - 1]
    <3>1. all = <<ListHead(d)>> \o s \o <<ListTail(d)>>
      BY <1>4 DEF s
    <3>2. ListHead(d) \in Int /\ ListTail(d) \in Int /\ s \in Seq(Int)
      BY <2>1, DescFacts
    <3>3. c[d][0] = ListHead(d) /\ c[d][K + 1] = ListTail(d)
      BY <1>2
    <3> HIDE DEF K
    <3>4. Len(all) = K + 2
      BY <2>1, <3>1, <3>2
    <3>5. ASSUME NEW y \in 1..K + 2
          PROVE  all[y] = c[d][y - 1]
      <4>1. CASE y = 1
        BY <2>1, <3>1, <3>2, <3>3, <4>1
      <4>2. CASE y = K + 2
        BY <2>1, <3>1, <3>2, <3>3, <4>2
      <4>3. CASE y # 1 /\ y # K + 2
        <5>1. y - 1 \in 1..K
          BY <2>1, <4>3
        <5>2. all[y] = s[y - 1]
          BY <2>1, <3>1, <3>2, <4>3, <5>1
        <5> QED
          BY <2>1, <5>1, <5>2
      <4> QED
        BY <4>1, <4>2, <4>3
    <3> QED
      BY <3>4, <3>5
  <2>3. /\ x - 1 \in 0..K /\ x \in 1..K + 2 /\ x + 1 \in 1..K + 2
        /\ (x + 1) - 1 = x /\ (x - 1) + 1 = x
    BY <2>1, <2>2
  <2>4. k[c[d][x - 1]].next = c[d][x] /\ k[c[d][x]].prev = c[d][x - 1]
    <3>1. \A i \in 0..K : k[c[d][i]].next = c[d][i + 1] /\ k[c[d][i + 1]].prev = c[d][i]
      BY <1>1 DEF Holds
    <3> HIDE DEF K
    <3>2. /\ k[c[d][x - 1]].next = c[d][(x - 1) + 1]
          /\ k[c[d][(x - 1) + 1]].prev = c[d][x - 1]
      BY <2>3, <3>1
    <3> QED
      BY <2>3, <3>2
  <2> QED
    BY <2>2, <2>3, <2>4
<1>5. ASSUME NEW e \in DOMAIN k, e >= 0
      PROVE  \E d \in Descs : ElemFind(k, d, e)
  <2>1. PICK d \in Descs : \E i \in 0..n[d] + 1 : c[d][i] = e
    BY <1>1 DEF Holds
  <2>2. PICK i \in 0..n[d] + 1 : c[d][i] = e
    BY <2>1
  <2>3. n[d] \in Nat /\ c[d][0] = ListHead(d) /\ c[d][n[d] + 1] = ListTail(d)
    BY <1>2
  <2>4. i # 0 /\ i # n[d] + 1
    BY <1>5, <2>2, <2>3, DescFacts
  <2>5. i \in 1..n[d]
    BY <2>3, <2>4
  <2>6. e \in Nat /\ e \in free[d]
    BY <1>1, <1>2, <2>2, <2>5
  <2> QED
    BY <2>6, ListingFinds
<1>6. Linked(k, Descs)
  <2>1. ASSUME NEW d \in Descs
        PROVE  LET all == <<ListHead(d)>> \o Listed(k, d) \o <<ListTail(d)>>
               IN  \A x \in 1..Len(all) - 1 :
                      k[all[x]].next = all[x + 1] /\ k[all[x + 1]].prev = all[x]
    BY <1>4, Zenon
  <2> QED
    BY <1>5, <2>1, Zenon DEF Linked
<1> QED
  BY <1>3, <1>6, Zenon


\* list_init
LEMMA ListingInit == Listing(ListInit(Descs), [d \in Descs |-> {}])
<1> DEFINE k == ListInit(Descs)
           n == [d \in Descs |-> 0]
           c == [d \in Descs |-> [i \in 0..1 |-> IF i = 0 THEN ListHead(d) ELSE ListTail(d)]]
           D == UNION {{ListHead(d), ListTail(d)} : d \in Descs}
           K == Len(BlockSizes)
<1>1. \A d \in Descs : n[d] = 0 /\ c[d][0] = ListHead(d) /\ c[d][1] = ListTail(d)
  OBVIOUS
<1>2. k = [e \in D |-> IF \E d \in Descs : e = ListHead(d)
                       THEN [prev |-> Nil, next |-> e - 1]
                       ELSE [prev |-> e + 1, next |-> Nil]]
  BY DEF ListInit
<1>3. \A e : e \in D <=> \E d \in Descs : e = ListHead(d) \/ e = ListTail(d)
  OBVIOUS
<1>4. D \subseteq Int
  BY <1>3, DescFacts
<1>5. IsFiniteSet(D)
  <2>1. K \in Nat /\ Descs = 1..K
    BY DescFacts DEF Descs
  <2>2. ASSUME NEW e \in D
        PROVE  e \in (-2 * K) - 1..-1
    BY <1>3, <2>1 DEF ListHead, ListTail
  <2>3. IsFiniteSet((-2 * K) - 1..-1)
    BY <2>1, FS_Interval
  <2> QED
    BY <2>2, <2>3, FS_Subset
<1> HIDE DEF k, n, c, D
<1>6. k \in [D -> [prev : Int, next : Int]] /\ DOMAIN k = D
  <2>1. ASSUME NEW e \in D
        PROVE  /\ [prev |-> Nil, next |-> e - 1] \in [prev : Int, next : Int]
               /\ [prev |-> e + 1, next |-> Nil] \in [prev : Int, next : Int]
    BY <1>4 DEF Nil
  <2> QED
    BY <1>2, <2>1
<1>7. ASSUME NEW d \in Descs
      PROVE  k[ListHead(d)].next = ListTail(d) /\ k[ListTail(d)].prev = ListHead(d)
  <2>1. ListHead(d) \in D /\ ListTail(d) \in D
    BY <1>3
  <2>2. k[ListHead(d)] = [prev |-> Nil, next |-> ListHead(d) - 1]
    BY <1>2, <2>1
  <2>3. k[ListTail(d)] = [prev |-> ListTail(d) + 1, next |-> Nil]
    BY <1>2, <2>1, DescFacts
  <2>4. ListHead(d) - 1 = ListTail(d) /\ ListTail(d) + 1 = ListHead(d)
    BY DescFacts DEF ListHead, ListTail
  <2> QED
    BY <2>2, <2>3, <2>4
<1>8. \A d \in Descs :
          /\ c[d][0] = ListHead(d) /\ c[d][n[d] + 1] = ListTail(d)
          /\ \A i \in 1..n[d] : c[d][i] \in Nat
          /\ \A i \in 0..n[d] :
                k[c[d][i]].next = c[d][i + 1] /\ k[c[d][i + 1]].prev = c[d][i]
  BY <1>1, <1>7
<1>9. \A l, m \in Descs : \A i \in 0..n[l] + 1, j \in 0..n[m] + 1 :
          c[l][i] = c[m][j] => l = m /\ i = j
  <2> TAKE l, m \in Descs
  <2> TAKE i \in 0..n[l] + 1, j \in 0..n[m] + 1
  <2>1. (i = 0 \/ i = 1) /\ (j = 0 \/ j = 1)
    BY <1>1
  <2> QED
    BY <1>1, <2>1, DescFacts
<1>10. \A e : e \in DOMAIN k <=> \E d \in Descs : \E i \in 0..n[d] + 1 : c[d][i] = e
  <2>1. ASSUME NEW d \in Descs
        PROVE  \A i : i \in 0..n[d] + 1 <=> i = 0 \/ i = 1
    BY <1>1
  <2>2. ASSUME NEW d \in Descs, NEW e
        PROVE  (\E i \in 0..n[d] + 1 : c[d][i] = e) <=> e = ListHead(d) \/ e = ListTail(d)
    BY <1>1, <2>1
  <2>3. \A e : (\E d \in Descs : \E i \in 0..n[d] + 1 : c[d][i] = e)
               <=> \E d \in Descs : e = ListHead(d) \/ e = ListTail(d)
    <3> HIDE DEF n, c
    <3> QED
      BY <2>2
  <2> QED
    BY <1>3, <1>6, <2>3
<1>11. n \in [Descs -> Nat]
  BY DEF n
<1>12. Holds(k, n, c)
  BY <1>5, <1>6, <1>8, <1>9, <1>10, <1>11 DEF Holds
<1>13. [d \in Descs |-> {}] = [d \in Descs |-> {c[d][i] : i \in 1..n[d]}]
  <2>1. \A d \in Descs : 1..n[d] = {}
    BY <1>1
  <2> QED
    BY <2>1
<1> QED
  BY <1>12, <1>13 DEF Listing, k

-----------------------------------------------------------------------------
(* Blocks, pages and extents.                                              *)

LEMMA SizeFacts ==
    /\ PageUnits \in Nat /\ PageUnits > 0 /\ HeaderUnits \in Nat /\ HeaderUnits > 0
    /\ PageCount \in Nat /\ PageCount > 0
    /\ \A d \in Descs : /\ BlockSizes[d] \in Nat /\ BlockSizes[d] > 0
                        /\ BlockSizes[d] <= PageUnits - HeaderUnits
                        /\ BlockSizes[d] <= LargestBlock
    /\ LargestBlock \in Nat
    /\ Requests \subseteq Nat \ {0}
    /\ Len(BlockSizes) \in Descs
<1>1. /\ Len(BlockSizes) \in Nat \ {0}
      /\ \A d \in Descs : BlockSizes[d] \in Nat \ {0}
  BY ArenaAssumption DEF Descs
<1>2. Len(BlockSizes) \in Descs
  BY <1>1 DEF Descs
<1>3. \A d \in Descs : d # Len(BlockSizes) => d < Len(BlockSizes)
  BY <1>1 DEF Descs
<1>4. \A d \in Descs : BlockSizes[d] <= LargestBlock
  BY <1>1, <1>2, <1>3, ArenaAssumption DEF LargestBlock
<1>5. PageUnits > 0
  BY <1>1, <1>2, ArenaAssumption
<1> QED
  BY <1>1, <1>2, <1>4, <1>5, ArenaAssumption DEF LargestBlock

\* The page of an address in it.
LEMMA PageIs ==
    ASSUME NEW a \in Nat, NEW u \in Int, a * PageUnits <= u, u < (a + 1) * PageUnits
    PROVE  PageOf(u) = a
<1> DEFINE r == u - a * PageUnits
<1>1. PageUnits \in Nat /\ PageUnits > 0 /\ a * PageUnits \in Nat
      /\ (a + 1) * PageUnits = a * PageUnits + PageUnits
  BY SizeFacts
<1>2. r \in 0..PageUnits - 1 /\ u = a * PageUnits + r
  BY <1>1
<1> HIDE DEF r
<1>3. (a * PageUnits + r) \div PageUnits = a
  BY <1>1, <1>2, DivUnique
<1> QED
  BY <1>2, <1>3 DEF PageOf

\* The B blocks of arena a, of z units each, are in s.
BlockPlaces(a, s, B, z) ==
    /\ B \in Nat \ {0} /\ z \in Nat \ {0}
    /\ a * PageUnits \in Nat
    /\ DOMAIN s = 1..B
    /\ \A i \in 1..B :
          /\ s[i] = a * PageUnits + HeaderUnits + (i - 1) * z
          /\ s[i] \in Nat
          /\ s[i] >= a * PageUnits + HeaderUnits
          /\ s[i] + z <= (a + 1) * PageUnits
    /\ \A i, j \in 1..B : i < j => s[i] + z <= s[j]

LEMMA BlockIs ==
    ASSUME NEW a \in Nat, NEW d \in Descs
    PROVE  BlockPlaces(a, Blocks(a, d), BlocksPerArena(d), BlockSizes[d])
<1> DEFINE B == BlocksPerArena(d)
           z == BlockSizes[d]
           m == PageUnits - HeaderUnits
<1>1. /\ PageUnits \in Nat /\ HeaderUnits \in Nat /\ z \in Nat /\ z > 0 /\ z <= m /\ m \in Nat
      /\ a * PageUnits \in Nat
      /\ (a + 1) * PageUnits = a * PageUnits + PageUnits
  BY SizeFacts
<1>2. B = m \div z
  BY DEF BlocksPerArena
<1>0. z = BlockSizes[d] /\ B = BlocksPerArena(d)
  OBVIOUS
<1> HIDE DEF m, B, z
<1>3. B \in Nat /\ m = z * B + (m % z) /\ m % z \in 0..z - 1
  BY <1>1, <1>2, DivMod
<1>4. B # 0
  BY <1>1, <1>2, DivBounds
<1>5. z * B <= m
  <2> DEFINE r == m % z
  <2>1. r \in Nat /\ m = z * B + r /\ z * B \in Nat
    BY <1>1, <1>3
  <2> HIDE DEF r
  <2> QED
    BY <1>1, <2>1
<1>6. ASSUME NEW i \in Nat, NEW j \in Nat, i <= j
      PROVE  i * z <= j * z /\ i * z \in Nat /\ j * z \in Nat
  BY <1>1, <1>6
<1>7. DOMAIN Blocks(a, d) = 1..B /\ \A i \in 1..B :
          Blocks(a, d)[i] = a * PageUnits + HeaderUnits + (i - 1) * z
  BY <1>0 DEF Blocks
<1>8. ASSUME NEW i \in 1..B
      PROVE  /\ Blocks(a, d)[i] \in Nat
             /\ Blocks(a, d)[i] >= a * PageUnits + HeaderUnits
             /\ Blocks(a, d)[i] + z <= (a + 1) * PageUnits
  <2>1. i \in Nat /\ i <= B /\ i - 1 \in Nat /\ i - 1 <= i
    BY <1>3
  <2>2. (i - 1) * z \in Nat /\ i * z <= B * z /\ i * z \in Nat /\ B * z \in Nat
    BY <1>3, <1>6, <2>1
  <2>3. i * z = (i - 1) * z + z /\ B * z = z * B
    BY <1>1, <1>3, <2>1
  <2>4. m = PageUnits - HeaderUnits
    BY DEF m
  <2> DEFINE x == (i - 1) * z
             b == Blocks(a, d)[i]
             w == a * PageUnits
  <2>5. b = w + HeaderUnits + x /\ x \in Nat /\ x + z <= m
    <3>1. x \in Nat /\ x + z <= z * B /\ z * B \in Nat
      BY <1>1, <2>2, <2>3
    <3>2. b = w + HeaderUnits + x
      BY <1>7
    <3> HIDE DEF x, b, w
    <3>3. x + z <= m
      BY <1>1, <1>5, <3>1
    <3> QED
      BY <3>1, <3>2, <3>3
  <2>6. w \in Nat /\ (a + 1) * PageUnits = w + PageUnits
    BY <1>1
  <2> HIDE DEF x, b, w
  <2>7. b \in Nat /\ b >= w + HeaderUnits /\ b + z <= (a + 1) * PageUnits
    BY <1>1, <2>4, <2>5, <2>6
  <2> QED
    BY <2>7 DEF b, w
<1>9. ASSUME NEW i \in 1..B, NEW j \in 1..B, i < j
      PROVE  Blocks(a, d)[i] + z <= Blocks(a, d)[j]
  <2>1. i \in Nat /\ i - 1 \in Nat /\ j - 1 \in Nat /\ i <= j - 1
    BY <1>3, <1>9
  <2>2. i * z <= (j - 1) * z /\ i * z = (i - 1) * z + z
    BY <1>1, <1>6, <2>1
  <2>3. (i - 1) * z \in Nat /\ (j - 1) * z \in Nat
    BY <1>1, <2>1
  <2> DEFINE x == (i - 1) * z
             y == (j - 1) * z
  <2>4. x \in Nat /\ y \in Nat /\ x + z <= y
    BY <2>2, <2>3
  <2>5. /\ Blocks(a, d)[i] = a * PageUnits + HeaderUnits + x
        /\ Blocks(a, d)[j] = a * PageUnits + HeaderUnits + y
    BY <1>7
  <2> HIDE DEF x, y
  <2> QED
    BY <1>1, <2>4, <2>5
<1>10. \A i \in 1..B :
          /\ Blocks(a, d)[i] = a * PageUnits + HeaderUnits + (i - 1) * z
          /\ Blocks(a, d)[i] \in Nat
          /\ Blocks(a, d)[i] >= a * PageUnits + HeaderUnits
          /\ Blocks(a, d)[i] + z <= (a + 1) * PageUnits
  BY <1>7, <1>8
<1>11. \A i, j \in 1..B : i < j => Blocks(a, d)[i] + z <= Blocks(a, d)[j]
  BY <1>9
<1>12. B \in Nat \ {0} /\ z \in Nat \ {0} /\ a * PageUnits \in Nat /\ DOMAIN Blocks(a, d) = 1..B
  BY <1>1, <1>3, <1>4, <1>7
<1> QED
  BY <1>10, <1>11, <1>12 DEF BlockPlaces, B, z


\* The units of a block.
Units(b, d) == b..b + BlockSizes[d] - 1

LEMMA BlockSetFacts ==
    ASSUME NEW a \in Nat, NEW d \in Descs
    PROVE  /\ BlocksPerArena(d) \in Nat \ {0}
           /\ IsFiniteSet(Range(Blocks(a, d)))
           /\ Cardinality(Range(Blocks(a, d))) = BlocksPerArena(d)
           /\ \A b \in Range(Blocks(a, d)) :
                 /\ b \in Nat /\ b >= a * PageUnits + HeaderUnits
                 /\ PageOf(b) = a
                 /\ \A u \in Units(b, d) : PageOf(u) = a
           /\ \A b, e \in Range(Blocks(a, d)) : b # e => Units(b, d) \cap Units(e, d) = {}
<1> DEFINE s == Blocks(a, d)
           B == BlocksPerArena(d)
           z == BlockSizes[d]
<1>1. /\ B \in Nat \ {0} /\ z \in Nat \ {0}
      /\ a * PageUnits \in Nat
      /\ DOMAIN s = 1..B
      /\ \A i \in 1..B :
            /\ s[i] = a * PageUnits + HeaderUnits + (i - 1) * z
            /\ s[i] \in Nat
            /\ s[i] >= a * PageUnits + HeaderUnits
            /\ s[i] + z <= (a + 1) * PageUnits
      /\ \A i, j \in 1..B : i < j => s[i] + z <= s[j]
  BY BlockIs DEF BlockPlaces
<1>2. \A b : Units(b, d) = b..b + z - 1
  BY DEF Units
<1>3. PageUnits \in Nat /\ HeaderUnits \in Nat /\ (a + 1) * PageUnits = a * PageUnits + PageUnits
  BY SizeFacts
<1>4. s = [i \in 1..B |-> s[i]]
  BY <1>1 DEF Blocks
<1> HIDE DEF s, B, z
<1>5. \A b : b \in Range(s) <=> \E i \in 1..B : b = s[i]
  BY <1>1 DEF Range
<1>6. ASSUME NEW b \in Range(s)
      PROVE  /\ b \in Nat /\ b >= a * PageUnits + HeaderUnits
             /\ \A u \in Units(b, d) : PageOf(u) = a
             /\ b \in Units(b, d)
  <2>1. PICK i \in 1..B : b = s[i]
    BY <1>5
  <2>2. b \in Nat /\ b >= a * PageUnits + HeaderUnits /\ b + z <= (a + 1) * PageUnits
    BY <1>1, <2>1
  <2>3. ASSUME NEW u \in Units(b, d)
        PROVE  PageOf(u) = a
    <3>1. u \in Int /\ a * PageUnits <= u /\ u < (a + 1) * PageUnits
      BY <1>1, <1>2, <1>3, <2>2
    <3> QED
      BY <3>1, PageIs
  <2>4. b \in Units(b, d)
    BY <1>1, <1>2, <2>2
  <2> QED
    BY <2>2, <2>3, <2>4
<1>7. ASSUME NEW i \in 1..B, NEW j \in 1..B, i # j
      PROVE  (s[i]..s[i] + z - 1) \cap (s[j]..s[j] + z - 1) = {} /\ s[i] # s[j]
  <2>1. s[i] \in Nat /\ s[j] \in Nat /\ (i < j \/ j < i) /\ z \in Nat \ {0}
    BY <1>1, <1>7
  <2>2. s[i] + z <= s[j] \/ s[j] + z <= s[i]
    BY <1>1, <2>1
  <2> QED
    BY <2>1, <2>2
<1>8. ASSUME NEW b \in Range(s), NEW e \in Range(s), b # e
      PROVE  Units(b, d) \cap Units(e, d) = {}
  <2>1. PICK i \in 1..B : b = s[i]
    BY <1>5
  <2>2. PICK j \in 1..B : e = s[j]
    BY <1>5
  <2> QED
    BY <1>2, <1>7, <1>8, <2>1, <2>2
<1>9. IsFiniteSet(Range(s)) /\ Cardinality(Range(s)) = B
  <2>1. s \in [1..B -> Range(s)]
    BY <1>1, <1>4, <1>5
  <2>2. s \in Bijection(1..B, Range(s))
    <3>1. \A i, j \in 1..B : s[i] = s[j] => i = j
      BY <1>7
    <3>2. \A b \in Range(s) : \E i \in 1..B : s[i] = b
      BY <1>5
    <3> QED
      BY <2>1, <3>1, <3>2 DEF Bijection, Injection, Surjection, IsInjective
  <2>3. IsFiniteSet(1..B) /\ Cardinality(1..B) = B
    BY <1>1, FS_Interval
  <2>4. \E f : f \in Bijection(1..B, Range(s))
    BY <2>2
  <2>5. ExistsBijection(1..B, Range(s))
    BY <2>4 DEF ExistsBijection
  <2> QED
    BY <2>3, <2>5, FS_Bijection
<1> QED
  BY <1>1, <1>6, <1>8, <1>9 DEF s, B

\* Where what lies in whole pages is.
LEMMA LargeIs ==
    ASSUME NEW a \in Nat, NEW n \in Nat, NEW size \in Nat \ {0},
           HeaderUnits + size <= n * PageUnits,
           NEW u \in a * PageUnits + HeaderUnits..a * PageUnits + HeaderUnits + size - 1
    PROVE  PageOf(u) \in a..a + n - 1
<1>1. /\ PageUnits \in Nat /\ PageUnits > 0 /\ HeaderUnits \in Nat
      /\ a * PageUnits \in Nat /\ n * PageUnits \in Nat
      /\ (a + n) * PageUnits = a * PageUnits + n * PageUnits
  BY SizeFacts
<1>2. u \in Nat /\ u >= a * PageUnits /\ u < (a + n) * PageUnits
  BY <1>1
<1>3. u \div PageUnits >= a /\ u \div PageUnits < a + n /\ u \div PageUnits \in Nat
  <2>1. a + n \in Nat
    OBVIOUS
  <2> QED
    BY <1>1, <1>2, <2>1, DivBounds, DivMod
<1> QED
  BY <1>3 DEF PageOf

\* The pages that a large request takes.
LEMMA PagesFor ==
    ASSUME NEW size \in Nat \ {0}, NEW n, n = (size + HeaderUnits + PageUnits - 1) \div PageUnits
    PROVE  n \in Nat \ {0} /\ HeaderUnits + size <= n * PageUnits
<1> DEFINE m == size + HeaderUnits + PageUnits - 1
           r == m % PageUnits
<1>1. PageUnits \in Nat /\ PageUnits > 0 /\ HeaderUnits \in Nat
  BY SizeFacts
<1>2. m \in Nat /\ m >= 1 * PageUnits
  BY <1>1
<1>3. n \in Nat /\ m = PageUnits * n + r /\ r \in 0..PageUnits - 1
  BY <1>1, <1>2, DivMod
<1>4. n >= 1
  BY <1>1, <1>2, DivBounds
<1> HIDE DEF r
<1>5. PageUnits * n = n * PageUnits /\ n * PageUnits \in Nat
  BY <1>1, <1>3
<1> DEFINE x == n * PageUnits
<1>6. x \in Nat /\ size + HeaderUnits + PageUnits - 1 = x + r
  BY <1>3, <1>5
<1> HIDE DEF x
<1>7. HeaderUnits + size <= x
  BY <1>1, <1>3, <1>6
<1> QED
  BY <1>3, <1>4, <1>7 DEF x


\* The links after each of N appends of s to list d.
Appended(at, k, d, s, N) ==
    /\ at = [i \in 0..N |-> at[i]]
    /\ \A i \in 0..N : at[i] = IF i = 0 THEN k ELSE ListAppend(at[i - 1], d, s[i])

LEMMA AppendsExist ==
    ASSUME NEW k, NEW d, NEW s, NEW N \in Nat
    PROVE  \E at : Appended(at, k, d, s, N)
<1> DEFINE Step(at, i) == IF i = 0 THEN k ELSE ListAppend(at[i - 1], d, s[i])
           Upto(n, at) == \A i \in 0..n : at[i] = Step(at, i)
           T == {n \in 0..N : ~ \E at : Upto(n, at)}
<1>1. T = {}
  <2>1. SUFFICES ASSUME T # {} PROVE FALSE
    OBVIOUS
  <2>2. T \subseteq Nat
    OBVIOUS
  <2>3. PICK n \in T : \A m \in T : n <= m
    BY <2>1, <2>2, LeastNat
  <2>4. n \in 0..N /\ n \in Nat /\ ~ \E at : Upto(n, at)
    <3> HIDE DEF Upto
    <3> QED
      BY <2>3
  <2>5. n # 0
    <3>1. ASSUME n = 0
          PROVE  Upto(n, [i \in 0..0 |-> k])
      BY <3>1
    <3> QED
      BY <2>4, <3>1
  <2>6. n - 1 \in 0..N /\ ~(n <= n - 1)
    BY <2>4, <2>5
  <2> HIDE DEF Upto
  <2>7. PICK at : Upto(n - 1, at)
    BY <2>3, <2>6
  <2> DEFINE x == at[n - 1]
             more == [i \in 0..n |-> IF i = n THEN Step(at, n) ELSE at[i]]
  <2>8. \A i \in 0..n : more[i] = Step(more, i)
    <3> TAKE i \in 0..n
    <3>1. CASE i = n
      <4>1. more[n] = Step(at, n) /\ more[n - 1] = at[n - 1]
        BY <2>4, <2>5
      <4> HIDE DEF more
      <4> QED
        BY <2>5, <3>1, <4>1
    <3>2. CASE i # n
      <4>1. i \in 0..n - 1 /\ (i # 0 => i - 1 \in 0..n /\ i - 1 # n)
        BY <2>4, <3>2
      <4>2. more[i] = at[i] /\ (i # 0 => more[i - 1] = at[i - 1])
        BY <3>2, <4>1
      <4>3. at[i] = Step(at, i)
        BY <2>7, <4>1 DEF Upto
      <4> HIDE DEF more
      <4> QED
        BY <4>2, <4>3
    <3> QED
      BY <3>1, <3>2
  <2>9. Upto(n, more)
    <3> HIDE DEF more, Step
    <3> QED
      BY <2>8 DEF Upto
  <2> QED
    BY <2>4, <2>9
<1>2. PICK at : Upto(N, at)
  <2>1. N \in 0..N
    OBVIOUS
  <2> HIDE DEF Upto
  <2> QED
    BY <1>1, <2>1
<1> DEFINE all == [i \in 0..N |-> at[i]]
<1>3. \A i \in 0..N : all[i] = Step(all, i)
  <2> TAKE i \in 0..N
  <2>1. all[i] = at[i] /\ at[i] = Step(at, i)
    BY <1>2
  <2>2. i # 0 => i - 1 \in 0..N
    OBVIOUS
  <2>3. i # 0 => all[i - 1] = at[i - 1]
    BY <2>2
  <2> HIDE DEF all
  <2> QED
    BY <2>1, <2>3
<1>4. all = [i \in 0..N |-> all[i]]
  OBVIOUS
<1> HIDE DEF all
<1> QED
  BY <1>3, <1>4 DEF Appended


\* The links after each of N removals of s.
Detached(at, k, s, N) ==
    /\ at = [i \in 0..N |-> at[i]]
    /\ \A i \in 0..N : at[i] = IF i = 0 THEN k ELSE Detach(at[i - 1], s[i])

LEMMA DetachesExist ==
    ASSUME NEW k, NEW s, NEW N \in Nat
    PROVE  \E at : Detached(at, k, s, N)
<1> DEFINE Step(at, i) == IF i = 0 THEN k ELSE Detach(at[i - 1], s[i])
           Upto(n, at) == \A i \in 0..n : at[i] = Step(at, i)
           T == {n \in 0..N : ~ \E at : Upto(n, at)}
<1>1. T = {}
  <2>1. SUFFICES ASSUME T # {} PROVE FALSE
    OBVIOUS
  <2>2. T \subseteq Nat
    OBVIOUS
  <2>3. PICK n \in T : \A m \in T : n <= m
    BY <2>1, <2>2, LeastNat
  <2>4. n \in 0..N /\ n \in Nat /\ ~ \E at : Upto(n, at)
    <3> HIDE DEF Upto
    <3> QED
      BY <2>3
  <2>5. n # 0
    <3>1. ASSUME n = 0
          PROVE  Upto(n, [i \in 0..0 |-> k])
      BY <3>1
    <3> QED
      BY <2>4, <3>1
  <2>6. n - 1 \in 0..N /\ ~(n <= n - 1)
    BY <2>4, <2>5
  <2> HIDE DEF Upto
  <2>7. PICK at : Upto(n - 1, at)
    BY <2>3, <2>6
  <2> DEFINE x == at[n - 1]
             more == [i \in 0..n |-> IF i = n THEN Step(at, n) ELSE at[i]]
  <2>8. \A i \in 0..n : more[i] = Step(more, i)
    <3> TAKE i \in 0..n
    <3>1. CASE i = n
      <4>1. more[n] = Step(at, n) /\ more[n - 1] = at[n - 1]
        BY <2>4, <2>5
      <4> HIDE DEF more
      <4> QED
        BY <2>5, <3>1, <4>1
    <3>2. CASE i # n
      <4>1. i \in 0..n - 1 /\ (i # 0 => i - 1 \in 0..n /\ i - 1 # n)
        BY <2>4, <3>2
      <4>2. more[i] = at[i] /\ (i # 0 => more[i - 1] = at[i - 1])
        BY <3>2, <4>1
      <4>3. at[i] = Step(at, i)
        BY <2>7, <4>1 DEF Upto
      <4> HIDE DEF more
      <4> QED
        BY <4>2, <4>3
    <3> QED
      BY <3>1, <3>2
  <2>9. Upto(n, more)
    <3> HIDE DEF more, Step
    <3> QED
      BY <2>8 DEF Upto
  <2> QED
    BY <2>4, <2>9
<1>2. PICK at : Upto(N, at)
  <2>1. N \in 0..N
    OBVIOUS
  <2> HIDE DEF Upto
  <2> QED
    BY <1>1, <2>1
<1> DEFINE all == [i \in 0..N |-> at[i]]
<1>3. \A i \in 0..N : all[i] = Step(all, i)
  <2> TAKE i \in 0..N
  <2>1. all[i] = at[i] /\ at[i] = Step(at, i)
    BY <1>2
  <2>2. i # 0 => i - 1 \in 0..N
    OBVIOUS
  <2>3. i # 0 => all[i - 1] = at[i - 1]
    BY <2>2
  <2> HIDE DEF all
  <2> QED
    BY <2>1, <2>3
<1>4. all = [i \in 0..N |-> all[i]]
  OBVIOUS
<1> HIDE DEF all
<1> QED
  BY <1>3, <1>4 DEF Detached


\* The blocks of a new arena are appended to its list.
LEMMA SplitListing ==
    ASSUME NEW k, NEW free, Listing(k, free), NEW a \in Nat, NEW d \in Descs,
           \A l \in Descs : Range(Blocks(a, d)) \cap free[l] = {}, k = links
    PROVE  Listing(Split(a, d), [free EXCEPT ![d] = @ \cup Range(Blocks(a, d))])
<1> DEFINE s == Blocks(a, d)
           N == BlocksPerArena(d)
           After(n) == [free EXCEPT ![d] = @ \cup {s[j] : j \in 1..n}]
           Step(at) == [i \in 0..N |-> IF i = 0 THEN k ELSE ListAppend(at[i - 1], d, s[i])]
           at == CHOOSE x : x = Step(x)
<1>1. N \in Nat \ {0} /\ DOMAIN s = 1..N /\ \A i, j \in 1..N : s[i] = s[j] => i = j
  <2>1. BlockPlaces(a, s, N, BlockSizes[d])
    BY BlockIs
  <2> HIDE DEF s, N
  <2>2. ASSUME NEW i \in 1..N, NEW j \in 1..N, i < j
        PROVE  s[i] # s[j]
    BY <2>1, <2>2 DEF BlockPlaces
  <2> QED
    BY <2>1, <2>2 DEF BlockPlaces
<1>2. \A b : b \in Range(s) <=> \E i \in 1..N : b = s[i]
  BY <1>1 DEF Range
<1>3. at = Step(at)
  <2>1. \E x : x = Step(x)
    <3>1. N \in Nat
      BY <1>1
    <3> HIDE DEF s, N, at
    <3>2. PICK x : Appended(x, k, d, s, N)
      BY <3>1, AppendsExist
    <3>3. x = Step(x)
      BY <3>2 DEF Appended
    <3> QED
      BY <3>3
  <2> HIDE DEF Step
  <2> QED
    BY <2>1
<1>4. Split(a, d) = at[N]
  BY DEF Split
<1> HIDE DEF at
<1>5. at[0] = k /\ \A i \in 1..N : at[i] = ListAppend(at[i - 1], d, s[i])
  BY <1>1, <1>3
<1>6. free = [l \in Descs |-> free[l]] /\ (\A b \in Range(s) : b \in Nat)
  <2>1. \A l \in Descs : free[l] \subseteq Nat
    BY ListingListed
  <2>2. free = [l \in Descs |-> free[l]]
    BY DEF Listing
  <2>3. \A b \in Range(s) : b \in Nat
    BY BlockSetFacts
  <2> QED
    BY <2>1, <2>2, <2>3
<1>11. \A l \in Descs : Range(s) \cap free[l] = {}
  OBVIOUS
<1> HIDE DEF s, N, Step
<1>7. ASSUME NEW n \in 1..N, Listing(at[n - 1], After(n - 1))
      PROVE  Listing(at[n], After(n))
  <2>1. at[n] = ListAppend(at[n - 1], d, s[n])
    BY <1>5
  <2>2. \A j : j \in 1..n <=> j \in 1..n - 1 \/ j = n
    BY <1>1
  <2>3. \A l \in Descs : After(n - 1)[l] = IF l = d THEN free[d] \cup {s[j] : j \in 1..n - 1}
                                         ELSE free[l]
    BY <1>6
  <2>4. DOMAIN After(n - 1) = Descs /\ After(n - 1)[d] = free[d] \cup {s[j] : j \in 1..n - 1}
    BY <1>6
  <2>5. [After(n - 1) EXCEPT ![d] = @ \cup {s[n]}] = After(n)
    <3>1. (free[d] \cup {s[j] : j \in 1..n - 1}) \cup {s[n]} = free[d] \cup {s[j] : j \in 1..n}
      BY <2>2
    <3>2. [After(n - 1) EXCEPT ![d] = @ \cup {s[n]}]
            = [free EXCEPT ![d] = (free[d] \cup {s[j] : j \in 1..n - 1}) \cup {s[n]}]
      BY <1>6
    <3> QED
      BY <3>1, <3>2
  <2>6. s[n] \in Range(s)
    BY <1>2
  <2>7. \A l \in Descs : s[n] \notin After(n - 1)[l]
    <3>1. \A j \in 1..n - 1 : j \in 1..N /\ j # n
      BY <1>1
    <3>2. s[n] \notin {s[j] : j \in 1..n - 1}
      BY <1>1, <3>1
    <3> QED
      BY <1>11, <2>3, <2>6, <3>2
  <2> HIDE DEF After
  <2>8. Listing(ListAppend(at[n - 1], d, s[n]), [After(n - 1) EXCEPT ![d] = @ \cup {s[n]}])
    BY <1>6, <1>7, <2>6, <2>7, ListingAppend
  <2> QED
    BY <2>1, <2>5, <2>8
<1>8. Listing(at[0], After(0))
  <2>1. 1..0 = {}
    OBVIOUS
  <2>2. {s[j] : j \in 1..0} = {}
    BY <2>1
  <2>3. After(0) = free
    BY <1>6, <2>2
  <2> QED
    BY <1>5, <2>3
<1>9. Listing(at[N], After(N))
  <2> DEFINE T == {n \in 0..N : ~Listing(at[n], After(n))}
  <2> HIDE DEF After
  <2>1. T = {}
    <3>1. SUFFICES ASSUME T # {} PROVE FALSE
      OBVIOUS
    <3>2. T \subseteq Nat
      OBVIOUS
    <3>3. PICK n \in T : \A m \in T : n <= m
      BY <3>1, <3>2, LeastNat
    <3>4. n \in 1..N /\ n - 1 \in 0..N /\ ~(n <= n - 1)
      BY <1>1, <1>8, <3>3
    <3>5. Listing(at[n - 1], After(n - 1))
      BY <3>3, <3>4
    <3> QED
      BY <1>7, <3>3, <3>4, <3>5
  <2>2. N \in 0..N
    BY <1>1
  <2> QED
    BY <2>1, <2>2
<1>10. {s[j] : j \in 1..N} = Range(s)
  BY <1>2
<1> QED
  BY <1>4, <1>9, <1>10 DEF s


\* The blocks of an arena leave its list.
LEMMA WithoutListing ==
    ASSUME NEW k, NEW free, Listing(k, free), NEW a \in Nat, NEW d \in Descs,
           Range(Blocks(a, d)) \subseteq free[d]
    PROVE  Listing(WithoutBlocks(k, a, d), [free EXCEPT ![d] = @ \ Range(Blocks(a, d))])
<1> DEFINE s == Blocks(a, d)
           N == BlocksPerArena(d)
           After(n) == [free EXCEPT ![d] = @ \ {s[j] : j \in 1..n}]
           Step(at) == [i \in 0..N |-> IF i = 0 THEN k ELSE Detach(at[i - 1], s[i])]
           at == CHOOSE x : x = Step(x)
<1>1. N \in Nat \ {0} /\ DOMAIN s = 1..N /\ \A i, j \in 1..N : s[i] = s[j] => i = j
  <2>1. BlockPlaces(a, s, N, BlockSizes[d])
    BY BlockIs
  <2> HIDE DEF s, N
  <2>2. ASSUME NEW i \in 1..N, NEW j \in 1..N, i < j
        PROVE  s[i] # s[j]
    BY <2>1, <2>2 DEF BlockPlaces
  <2> QED
    BY <2>1, <2>2 DEF BlockPlaces
<1>2. \A b : b \in Range(s) <=> \E i \in 1..N : b = s[i]
  BY <1>1 DEF Range
<1>3. at = Step(at)
  <2>1. \E x : x = Step(x)
    <3>1. N \in Nat
      BY <1>1
    <3> HIDE DEF s, N, at
    <3>2. PICK x : Detached(x, k, s, N)
      BY <3>1, DetachesExist
    <3>3. x = Step(x)
      BY <3>2 DEF Detached
    <3> QED
      BY <3>3
  <2> HIDE DEF Step
  <2> QED
    BY <2>1
<1>4. WithoutBlocks(k, a, d) = at[N]
  BY DEF WithoutBlocks
<1> HIDE DEF at
<1>5. at[0] = k /\ \A i \in 1..N : at[i] = Detach(at[i - 1], s[i])
  BY <1>1, <1>3
<1>6. free = [l \in Descs |-> free[l]] /\ (\A b \in Range(s) : b \in Nat)
  <2>1. \A l \in Descs : free[l] \subseteq Nat
    BY ListingListed
  <2>2. free = [l \in Descs |-> free[l]]
    BY DEF Listing
  <2>3. \A b \in Range(s) : b \in Nat
    BY BlockSetFacts
  <2> QED
    BY <2>1, <2>2, <2>3
<1>11. Range(s) \subseteq free[d]
  OBVIOUS
<1> HIDE DEF s, N, Step
<1>7. ASSUME NEW n \in 1..N, Listing(at[n - 1], After(n - 1))
      PROVE  Listing(at[n], After(n))
  <2>1. at[n] = Detach(at[n - 1], s[n])
    BY <1>5
  <2>2. \A j : j \in 1..n <=> j \in 1..n - 1 \/ j = n
    BY <1>1
  <2>3. \A l \in Descs : After(n - 1)[l] = IF l = d THEN free[d] \ {s[j] : j \in 1..n - 1}
                                         ELSE free[l]
    BY <1>6
  <2>4. DOMAIN After(n - 1) = Descs /\ After(n - 1)[d] = free[d] \ {s[j] : j \in 1..n - 1}
    BY <1>6
  <2>5. [After(n - 1) EXCEPT ![d] = @ \ {s[n]}] = After(n)
    <3>1. (free[d] \ {s[j] : j \in 1..n - 1}) \ {s[n]} = free[d] \ {s[j] : j \in 1..n}
      BY <2>2
    <3>2. [After(n - 1) EXCEPT ![d] = @ \ {s[n]}]
            = [free EXCEPT ![d] = (free[d] \ {s[j] : j \in 1..n - 1}) \ {s[n]}]
      BY <1>6
    <3> QED
      BY <3>1, <3>2
  <2>6. s[n] \in Range(s)
    BY <1>2
  <2>7. s[n] \in After(n - 1)[d]
    <3>1. \A j \in 1..n - 1 : j \in 1..N /\ j # n
      BY <1>1
    <3>2. s[n] \notin {s[j] : j \in 1..n - 1}
      BY <1>1, <3>1
    <3> QED
      BY <1>11, <2>3, <2>6, <3>2
  <2> HIDE DEF After
  <2>8. Listing(Detach(at[n - 1], s[n]), [After(n - 1) EXCEPT ![d] = @ \ {s[n]}])
    BY <1>6, <1>7, <2>6, <2>7, ListingDetach
  <2> QED
    BY <2>1, <2>5, <2>8
<1>8. Listing(at[0], After(0))
  <2>1. 1..0 = {}
    OBVIOUS
  <2>2. {s[j] : j \in 1..0} = {}
    BY <2>1
  <2>3. After(0) = free
    BY <1>6, <2>2
  <2> QED
    BY <1>5, <2>3
<1>9. Listing(at[N], After(N))
  <2> DEFINE T == {n \in 0..N : ~Listing(at[n], After(n))}
  <2> HIDE DEF After
  <2>1. T = {}
    <3>1. SUFFICES ASSUME T # {} PROVE FALSE
      OBVIOUS
    <3>2. T \subseteq Nat
      OBVIOUS
    <3>3. PICK n \in T : \A m \in T : n <= m
      BY <3>1, <3>2, LeastNat
    <3>4. n \in 1..N /\ n - 1 \in 0..N /\ ~(n <= n - 1)
      BY <1>1, <1>8, <3>3
    <3>5. Listing(at[n - 1], After(n - 1))
      BY <3>3, <3>4
    <3> QED
      BY <1>7, <3>3, <3>4, <3>5
  <2>2. N \in 0..N
    BY <1>1
  <2> QED
    BY <2>1, <2>2
<1>10. {s[j] : j \in 1..N} = Range(s)
  BY <1>2
<1> QED
  BY <1>4, <1>9, <1>10 DEF s

-----------------------------------------------------------------------------
(* What the heap keeps true of its pages T, arenas A, held regions H and    *)
(* free blocks F: F[d] in the free list of descriptor d.  *)

ArenaRecords == [desc : Descs \cup {0}, cnt : Nat]
IsFcn(f) == f = [x \in DOMAIN f |-> f[x]]

\* The pages of an arena.
PagesOf(a, desc, cnt) == IF desc = 0 THEN a..a + cnt - 1 ELSE {a}
ExtentIn(A, a) == PagesOf(a, A[a].desc, A[a].cnt)

\* Arenas have the pages that are taken, each its own.
PagesSound(T, A) ==
    /\ T \subseteq 0..PageCount
    /\ IsFcn(A)
    /\ \A a \in DOMAIN A :
          /\ a \in Pages
          /\ A[a] \in ArenaRecords
          /\ A[a].desc = 0 => A[a].cnt >= 1
          /\ ExtentIn(A, a) \subseteq T
    /\ \A p \in T \cap Pages : \E a \in DOMAIN A : p \in ExtentIn(A, a)
    /\ \A a, b \in DOMAIN A : a # b => ExtentIn(A, a) \cap ExtentIn(A, b) = {}

Regions == [addr : Nat, size : Nat \ {0}]

\* A held region is what is behind the header of a large arena, or a block.
FitsIn(h, A) ==
    LET a == PageOf(h.addr)
    IN  /\ h \in Regions
        /\ a \in DOMAIN A
        /\ A[a].desc = 0 => /\ h.addr = a * PageUnits + HeaderUnits
                            /\ HeaderUnits + h.size <= A[a].cnt * PageUnits
        /\ A[a].desc # 0 => /\ h.addr \in Range(Blocks(a, A[a].desc))
                            /\ h.size <= BlockSizes[A[a].desc]

HeldSound(A, H) ==
    /\ \A h \in H : FitsIn(h, A)
    /\ \A g, h \in H : g.addr = h.addr => g = h

FreeIn(F, d, a) == {b \in F[d] : PageOf(b) = a}

\* A listed block belongs to an arena of its descriptor and is not held; the
\* other blocks of the arena are held.
IsFree(b, d, A, H) ==
    /\ PageOf(b) \in DOMAIN A
    /\ A[PageOf(b)].desc = d
    /\ b \in Range(Blocks(PageOf(b), d))
    /\ \A h \in H : h.addr # b

CountsFree(a, A, H, F) ==
    /\ \A b \in Range(Blocks(a, A[a].desc)) :
          b \in F[A[a].desc] \/ \E h \in H : h.addr = b
    /\ A[a].cnt = Cardinality(FreeIn(F, A[a].desc, a))

FreeSound(A, H, F) ==
    /\ IsFcn(F) /\ DOMAIN F = Descs
    /\ \A d \in Descs : IsFiniteSet(F[d]) /\ \A b \in F[d] : IsFree(b, d, A, H)
    /\ \A a \in DOMAIN A : A[a].desc # 0 => CountsFree(a, A, H, F)

Sound(T, A, H, F) == PagesSound(T, A) /\ HeldSound(A, H) /\ FreeSound(A, H, F)

\* No arena is kept of which nothing is held.
NoneIdle(A, H) == \A a \in DOMAIN A : \E h \in H : PageOf(h.addr) = a

HeapInv ==
    /\ panic \notin {"linked", "unlinked"}
    /\ NoneIdle(arenas, held)
    /\ \E F : Listing(links, F) /\ Sound(taken, arenas, held, F)

Added(A, a, desc, cnt) ==
    [p \in DOMAIN A \cup {a} |-> IF p = a THEN [desc |-> desc, cnt |-> cnt] ELSE A[p]]
Dropped(A, a) == [p \in DOMAIN A \ {a} |-> A[p]]
Counted(A, a, cnt) == [A EXCEPT ![a].cnt = cnt]

Gained(F, d, S) == [F EXCEPT ![d] = @ \cup S]
Lost(F, d, S) == [F EXCEPT ![d] = @ \ S]

-----------------------------------------------------------------------------
(* Each change of the heap keeps it sound.                                  *)

\* What the changed arenas B have to do with A.
IsAdded(B, A, a, d, n) ==
    /\ IsFcn(B)
    /\ DOMAIN B = DOMAIN A \cup {a}
    /\ B[a] \in ArenaRecords
    /\ B[a].desc = d /\ B[a].cnt = n
    /\ \A p \in DOMAIN A : p # a => B[p] = A[p]
IsDropped(B, A, a) ==
    /\ IsFcn(B)
    /\ DOMAIN B = DOMAIN A \ {a}
    /\ \A p \in DOMAIN A : p # a => B[p] = A[p]
IsCounted(B, A, a, n) ==
    /\ IsFcn(B)
    /\ DOMAIN B = DOMAIN A
    /\ B[a] \in ArenaRecords
    /\ B[a].desc = A[a].desc /\ B[a].cnt = n
    /\ \A p \in DOMAIN A : p # a => B[p] = A[p]

LEMMA AddedIs ==
    ASSUME NEW A, NEW a, NEW d \in Descs \cup {0}, NEW n \in Nat
    PROVE  IsAdded(Added(A, a, d, n), A, a, d, n)
  BY DEF IsAdded, Added, IsFcn, ArenaRecords

LEMMA DroppedIs ==
    ASSUME NEW A, NEW a
    PROVE  IsDropped(Dropped(A, a), A, a)
  BY DEF IsDropped, Dropped, IsFcn

LEMMA CountedIs ==
    ASSUME NEW A, IsFcn(A), NEW a \in DOMAIN A,
           A[a] \in ArenaRecords, NEW n \in Nat
    PROVE  IsCounted(Counted(A, a, n), A, a, n)
  BY DEF IsCounted, Counted, IsFcn, ArenaRecords

\* A new arena on pages that are not taken.
LEMMA AddedPages ==
    ASSUME NEW T, NEW A, PagesSound(T, A), NEW a \in Pages,
           NEW d \in Descs \cup {0}, NEW n \in Nat \ {0},
           PagesOf(a, d, n) \cap T = {}, PagesOf(a, d, n) \subseteq 0..PageCount
    PROVE  /\ PagesSound(T \cup PagesOf(a, d, n), Added(A, a, d, n))
           /\ a \notin DOMAIN A
<1> DEFINE E == PagesOf(a, d, n)
           B == Added(A, a, d, n)
<1>1. /\ DOMAIN B = DOMAIN A \cup {a} /\ IsFcn(B)
      /\ B[a] \in ArenaRecords /\ B[a].desc = d /\ B[a].cnt = n
      /\ \A p \in DOMAIN A : p # a => B[p] = A[p]
  <2>1. IsAdded(B, A, a, d, n)
    BY AddedIs
  <2> QED
    BY <2>1 DEF IsAdded
<1>2. a \in Nat /\ PageCount \in Nat
  BY SizeFacts DEF Pages
<1>3. ASSUME NEW p \in DOMAIN A
      PROVE  p \in ExtentIn(A, p)
  <2>1. p \in Nat /\ A[p].cnt \in Nat /\ (A[p].desc = 0 => A[p].cnt >= 1)
    BY SizeFacts DEF PagesSound, Pages, ArenaRecords
  <2> QED
    BY <2>1 DEF ExtentIn, PagesOf
<1>4. a \in E
  BY <1>2 DEF PagesOf
<1>5. a \notin DOMAIN A
  BY <1>3, <1>4 DEF PagesSound
<1>6. ExtentIn(B, a) = E
  BY <1>1 DEF ExtentIn
<1>7. \A p \in DOMAIN A : ExtentIn(B, p) = ExtentIn(A, p) /\ B[p] = A[p] /\ p # a
  BY <1>1, <1>5 DEF ExtentIn
<1>8. B[a] \in ArenaRecords /\ B[a].cnt >= 1
  BY <1>1
<1> HIDE DEF E, B
<1>9. PagesSound(T \cup E, B)
  <2>1. T \cup E \subseteq 0..PageCount
    BY DEF PagesSound, E
  <2>2. ASSUME NEW p \in DOMAIN B
        PROVE  /\ p \in Pages
               /\ B[p] \in ArenaRecords
               /\ B[p].desc = 0 => B[p].cnt >= 1
               /\ ExtentIn(B, p) \subseteq T \cup E
    BY <1>1, <1>6, <1>7, <1>8 DEF PagesSound
  <2>3. ASSUME NEW p \in (T \cup E) \cap Pages
        PROVE  \E x \in DOMAIN B : p \in ExtentIn(B, x)
    BY <1>1, <1>6, <1>7 DEF PagesSound
  <2>4. ASSUME NEW x \in DOMAIN B, NEW y \in DOMAIN B, x # y
        PROVE  ExtentIn(B, x) \cap ExtentIn(B, y) = {}
    BY <1>1, <1>6, <1>7, <2>4 DEF PagesSound, E
  <2> QED
    BY <1>1, <2>1, <2>2, <2>3, <2>4 DEF PagesSound
<1> QED
  BY <1>5, <1>9 DEF E, B


\* A region fits as long as its arena does not change what fits.
LEMMA FitsKept ==
    ASSUME NEW A, NEW B, NEW h, FitsIn(h, A), PageOf(h.addr) \in DOMAIN B,
           B[PageOf(h.addr)].desc = A[PageOf(h.addr)].desc,
           A[PageOf(h.addr)].desc = 0 => B[PageOf(h.addr)].cnt = A[PageOf(h.addr)].cnt
    PROVE  FitsIn(h, B)
  BY DEF FitsIn

\* What is behind the header of a page is in this page.
LEMMA HeaderPage ==
    ASSUME NEW a \in Pages
    PROVE  /\ a * PageUnits + HeaderUnits \in Nat
           /\ PageOf(a * PageUnits + HeaderUnits) = a
<1>1. /\ a \in Nat /\ PageUnits \in Nat /\ HeaderUnits \in Nat
      /\ HeaderUnits < PageUnits
  <2>1. \E d \in Descs : BlockSizes[d] > 0 /\ BlockSizes[d] <= PageUnits - HeaderUnits
                         /\ BlockSizes[d] \in Nat
    BY SizeFacts
  <2> QED
    BY <2>1, SizeFacts DEF Pages
<1> DEFINE x == a * PageUnits
<1>2. x \in Nat /\ (a + 1) * PageUnits = x + PageUnits
  BY <1>1
<1>3. a * PageUnits <= x + HeaderUnits /\ x + HeaderUnits < (a + 1) * PageUnits
  BY <1>1, <1>2
<1>4. x + HeaderUnits \in Nat
  BY <1>1, <1>2
<1>5. x + HeaderUnits \in Int
  BY <1>4
<1> QED
  BY <1>1, <1>3, <1>4, <1>5, PageIs

\* sys_malloc of whole pages.
LEMMA LargeAdded ==
    ASSUME NEW T, NEW A, NEW H, NEW F, Sound(T, A, H, F), NEW a \in Pages,
           NEW n \in Nat \ {0},
           PagesOf(a, 0, n) \cap T = {}, PagesOf(a, 0, n) \subseteq 0..PageCount,
           NEW h \in Regions, h.addr = a * PageUnits + HeaderUnits,
           HeaderUnits + h.size <= n * PageUnits
    PROVE  /\ Sound(T \cup PagesOf(a, 0, n), Added(A, a, 0, n), H \cup {h}, F)
           /\ PageOf(h.addr) = a
           /\ \A g \in H : g.addr # h.addr
<1> DEFINE B == Added(A, a, 0, n)
<1>1. IsAdded(B, A, a, 0, n)
  BY AddedIs
<1>2. PagesSound(T \cup PagesOf(a, 0, n), B) /\ a \notin DOMAIN A
  BY AddedPages DEF Sound
<1> HIDE DEF B
<1>3. PageOf(h.addr) = a
  BY HeaderPage
<1>4. \A g \in H : PageOf(g.addr) \in DOMAIN A /\ PageOf(g.addr) # a
  BY <1>2 DEF Sound, HeldSound, FitsIn
<1>5. \A g \in H : g.addr # h.addr
  BY <1>3, <1>4
<1>6. \A p \in DOMAIN A : p \in DOMAIN B /\ B[p] = A[p] /\ p # a
  BY <1>1, <1>2 DEF IsAdded
<1>7. HeldSound(B, H \cup {h})
  <2>1. FitsIn(h, B)
    BY <1>1, <1>3 DEF FitsIn, IsAdded
  <2>2. \A g \in H : FitsIn(g, B)
    BY <1>4, <1>6, FitsKept DEF Sound, HeldSound
  <2> QED
    BY <1>5, <2>1, <2>2 DEF Sound, HeldSound
<1>8. FreeSound(B, H \cup {h}, F)
  <2>1. ASSUME NEW d \in Descs, NEW b \in F[d]
        PROVE  IsFree(b, d, B, H \cup {h})
    <3>1. IsFree(b, d, A, H)
      BY DEF Sound, FreeSound
    <3>2. PageOf(b) # a
      BY <1>2, <3>1 DEF IsFree
    <3> QED
      BY <1>3, <1>6, <3>1, <3>2 DEF IsFree
  <2>2. ASSUME NEW p \in DOMAIN B, B[p].desc # 0
        PROVE  CountsFree(p, B, H \cup {h}, F)
    <3>1. p \in DOMAIN A /\ B[p] = A[p] /\ A[p].desc # 0
      BY <1>1, <1>6, <2>2 DEF IsAdded
    <3>2. CountsFree(p, A, H, F)
      BY <3>1 DEF Sound, FreeSound
    <3> QED
      BY <3>1, <3>2 DEF CountsFree
  <2> QED
    BY <2>1, <2>2 DEF Sound, FreeSound
<1> QED
  BY <1>2, <1>3, <1>5, <1>7, <1>8 DEF Sound, B


LEMMA GainedIs ==
    ASSUME NEW F, IsFcn(F), NEW d \in DOMAIN F, NEW S
    PROVE  /\ IsFcn(Gained(F, d, S)) /\ DOMAIN Gained(F, d, S) = DOMAIN F
           /\ Gained(F, d, S)[d] = F[d] \cup S
           /\ \A l \in DOMAIN F : l # d => Gained(F, d, S)[l] = F[l]
  BY DEF IsFcn, Gained

LEMMA LostIs ==
    ASSUME NEW F, IsFcn(F), NEW d \in DOMAIN F, NEW S
    PROVE  /\ IsFcn(Lost(F, d, S)) /\ DOMAIN Lost(F, d, S) = DOMAIN F
           /\ Lost(F, d, S)[d] = F[d] \ S
           /\ \A l \in DOMAIN F : l # d => Lost(F, d, S)[l] = F[l]
  BY DEF IsFcn, Lost

\* A new arena of blocks, all of them free.
LEMMA SmallAdded ==
    ASSUME NEW T, NEW A, NEW H, NEW F, Sound(T, A, H, F), NEW a \in Pages, a \notin T,
           NEW d \in Descs
    PROVE  /\ Sound(T \cup {a}, Added(A, a, d, BlocksPerArena(d)), H,
                    Gained(F, d, Range(Blocks(a, d))))
           /\ \A l \in Descs : Range(Blocks(a, d)) \cap F[l] = {}
           /\ F[d] = {} => \A b \in Gained(F, d, Range(Blocks(a, d)))[d] : PageOf(b) = a
<1> DEFINE N == BlocksPerArena(d)
           S == Range(Blocks(a, d))
           B == Added(A, a, d, N)
           G == Gained(F, d, S)
<1>1. a \in Nat /\ a \in 0..PageCount /\ d # 0 /\ 0 \notin Descs
  BY SizeFacts, DescFacts DEF Pages
<1>2. /\ N \in Nat \ {0} /\ IsFiniteSet(S) /\ Cardinality(S) = N
      /\ \A b \in S : PageOf(b) = a
  BY <1>1, BlockSetFacts
<1>3. IsAdded(B, A, a, d, N)
  BY <1>2, AddedIs
<1>4. PagesOf(a, d, N) = {a}
  BY <1>1 DEF PagesOf
<1>5. PagesSound(T \cup {a}, B) /\ a \notin DOMAIN A
  BY <1>1, <1>2, <1>4, AddedPages DEF Sound
<1>6. IsFcn(F) /\ DOMAIN F = Descs
  BY DEF Sound, FreeSound
<1>7. /\ IsFcn(G) /\ DOMAIN G = Descs /\ G[d] = F[d] \cup S
      /\ \A l \in Descs : l # d => G[l] = F[l]
  BY <1>6, GainedIs
<1> HIDE DEF B, G, N
<1>8. \A g \in H : PageOf(g.addr) \in DOMAIN A /\ PageOf(g.addr) # a
  BY <1>5 DEF Sound, HeldSound, FitsIn
<1>9. \A l \in Descs : \A b \in F[l] : IsFree(b, l, A, H) /\ PageOf(b) # a
  BY <1>5 DEF Sound, FreeSound, IsFree
<1>10. \A p \in DOMAIN A : p \in DOMAIN B /\ B[p] = A[p] /\ p # a
  BY <1>3, <1>5 DEF IsAdded
<1>11. HeldSound(B, H)
  <2>1. \A g \in H : FitsIn(g, B)
    BY <1>8, <1>10, FitsKept DEF Sound, HeldSound
  <2> QED
    BY <2>1 DEF Sound, HeldSound
<1>12. ASSUME NEW l \in Descs, NEW b \in G[l]
       PROVE  IsFree(b, l, B, H)
  <2>1. CASE b \in F[l]
    BY <1>9, <1>10, <2>1 DEF IsFree
  <2>2. CASE l = d /\ b \in S
    BY <1>2, <1>3, <1>8, <2>2 DEF IsFree, IsAdded
  <2> QED
    BY <1>7, <2>1, <2>2
<1>13. ASSUME NEW p \in DOMAIN B, B[p].desc # 0
       PROVE  CountsFree(p, B, H, G)
  <2>1. CASE p = a
    <3>1. FreeIn(G, d, a) = S
      BY <1>2, <1>7, <1>9 DEF FreeIn
    <3>2. B[a].desc = d /\ B[a].cnt = N
      BY <1>3 DEF IsAdded
    <3>3. \A b \in S : b \in G[d]
      BY <1>7
    <3> QED
      BY <1>2, <2>1, <3>1, <3>2, <3>3 DEF CountsFree
  <2>2. CASE p # a
    <3>1. p \in DOMAIN A /\ B[p] = A[p] /\ A[p].desc # 0
      BY <1>3, <1>10, <1>13, <2>2 DEF IsAdded
    <3>2. CountsFree(p, A, H, F)
      BY <3>1 DEF Sound, FreeSound
    <3>3. A[p].desc \in Descs
      BY <3>1 DEF Sound, PagesSound, ArenaRecords
    <3>4. F[A[p].desc] \subseteq G[A[p].desc]
      BY <1>7, <3>3
    <3>5. FreeIn(G, A[p].desc, p) = FreeIn(F, A[p].desc, p)
      BY <1>2, <1>7, <2>2, <3>3 DEF FreeIn
    <3> QED
      BY <3>1, <3>2, <3>4, <3>5 DEF CountsFree
  <2> QED
    BY <2>1, <2>2
<1>14. FreeSound(B, H, G)
  <2>1. \A l \in Descs : IsFiniteSet(G[l])
    <3>1. \A l \in Descs : IsFiniteSet(F[l])
      BY DEF Sound, FreeSound
    <3>2. IsFiniteSet(F[d] \cup S)
      BY <1>2, <3>1, FS_Union
    <3> QED
      BY <1>7, <3>1, <3>2
  <2> QED
    BY <1>7, <1>12, <1>13, <2>1 DEF FreeSound
<1>15. \A l \in Descs : S \cap F[l] = {}
  BY <1>2, <1>9
<1>16. F[d] = {} => \A b \in G[d] : PageOf(b) = a
  BY <1>2, <1>7
<1>17. Sound(T \cup {a}, B, H, G)
  BY <1>5, <1>11, <1>14 DEF Sound
<1> QED
  BY <1>15, <1>16, <1>17 DEF B, G, N


\* A free block is handed out.
LEMMA BlockTaken ==
    ASSUME NEW T, NEW A, NEW H, NEW F, Sound(T, A, H, F), NEW d \in Descs,
           NEW b \in F[d], NEW h \in Regions, h.addr = b, h.size <= BlockSizes[d]
    PROVE  /\ Sound(T, Counted(A, PageOf(b), A[PageOf(b)].cnt - 1), H \cup {h},
                    Lost(F, d, {b}))
           /\ PageOf(b) \in DOMAIN A
           /\ \A g \in H : g.addr # h.addr
<1> DEFINE a == PageOf(b)
           n == A[a].cnt - 1
           B == Counted(A, a, n)
           G == Lost(F, d, {b})
<1>1. d # 0 /\ 0 \notin Descs
  BY DescFacts
<1>2. IsFcn(F) /\ DOMAIN F = Descs /\ IsFiniteSet(F[d])
  BY DEF Sound, FreeSound
<1>3. /\ IsFcn(G) /\ DOMAIN G = Descs /\ G[d] = F[d] \ {b}
      /\ \A l \in Descs : l # d => G[l] = F[l]
  BY <1>2, LostIs
<1>4. \A l \in Descs : \A x \in F[l] : IsFree(x, l, A, H)
  BY DEF Sound, FreeSound
<1>5. a \in DOMAIN A /\ A[a].desc = d /\ b \in Range(Blocks(a, d)) /\ \A g \in H : g.addr # b
  BY <1>4 DEF IsFree
<1>6. IsFcn(A) /\ A[a] \in ArenaRecords /\ A[a].cnt \in Nat
  BY <1>5 DEF Sound, PagesSound, ArenaRecords
<1> DEFINE X == FreeIn(F, d, a)
<1>7. b \in X /\ IsFiniteSet(X) /\ A[a].cnt = Cardinality(X)
  <2>1. IsFiniteSet(X)
    BY <1>2, FS_Subset DEF FreeIn
  <2>2. CountsFree(a, A, H, F)
    BY <1>1, <1>5 DEF Sound, FreeSound
  <2>3. b \in X
    BY DEF FreeIn
  <2> QED
    BY <1>5, <2>1, <2>2, <2>3 DEF CountsFree
<1>8. n \in Nat /\ Cardinality(X \ {b}) = n
  <2>1. /\ Cardinality(X \ {b}) = Cardinality(X) - 1 /\ Cardinality(X \ {b}) \in Nat
    BY <1>7, FS_RemoveElement, FS_CardinalityType
  <2> QED
    BY <1>7, <2>1
<1>9. IsCounted(B, A, a, n)
  BY <1>5, <1>6, <1>8, CountedIs
<1> HIDE DEF a, B, G, X, n
<1>10. \A p \in DOMAIN A : /\ p \in DOMAIN B /\ B[p].desc = A[p].desc
                           /\ A[p].desc = 0 => B[p].cnt = A[p].cnt
                           /\ p # a => B[p] = A[p]
  BY <1>1, <1>5, <1>9 DEF IsCounted
<1>11. PagesSound(T, B)
  <2>1. \A p \in DOMAIN A : ExtentIn(B, p) = ExtentIn(A, p)
    BY <1>10 DEF ExtentIn, PagesOf
  <2>2. DOMAIN B = DOMAIN A /\ IsFcn(B)
    BY <1>9 DEF IsCounted
  <2>3. \A p \in DOMAIN A : B[p] \in ArenaRecords
    BY <1>9, <1>10 DEF IsCounted, Sound, PagesSound
  <2> QED
    BY <1>10, <2>1, <2>2, <2>3 DEF Sound, PagesSound
<1>12. HeldSound(B, H \cup {h})
  <2>1. FitsIn(h, B)
    BY <1>1, <1>5, <1>10 DEF FitsIn, a
  <2>2. \A g \in H : FitsIn(g, B)
    <3>1. \A g \in H : FitsIn(g, A) /\ PageOf(g.addr) \in DOMAIN A
      BY DEF Sound, HeldSound, FitsIn
    <3> QED
      BY <1>10, <3>1, FitsKept
  <2> QED
    BY <1>5, <2>1, <2>2 DEF Sound, HeldSound
<1>13. ASSUME NEW l \in Descs, NEW x \in G[l]
       PROVE  IsFree(x, l, B, H \cup {h})
  <2>1. x \in F[l] /\ IsFree(x, l, A, H)
    BY <1>3, <1>4
  <2>2. x # b
    <3>1. CASE l = d
      BY <1>3, <3>1
    <3>2. CASE l # d
      BY <1>5, <2>1, <3>2 DEF IsFree, a
    <3> QED
      BY <3>1, <3>2
  <2> QED
    BY <1>10, <2>1, <2>2 DEF IsFree
<1>14. ASSUME NEW p \in DOMAIN B, B[p].desc # 0
       PROVE  CountsFree(p, B, H \cup {h}, G)
  <2>1. p \in DOMAIN A /\ B[p].desc = A[p].desc /\ A[p].desc # 0
    BY <1>9, <1>10, <1>14 DEF IsCounted
  <2>2. CountsFree(p, A, H, F) /\ A[p].desc \in Descs
    BY <2>1 DEF Sound, FreeSound, PagesSound, ArenaRecords
  <2>3. ASSUME NEW x \in Range(Blocks(p, A[p].desc))
        PROVE  x \in G[A[p].desc] \/ \E g \in H \cup {h} : g.addr = x
    <3>1. x = b => h \in H \cup {h} /\ h.addr = x
      OBVIOUS
    <3>2. x # b /\ x \in F[A[p].desc] => x \in G[A[p].desc]
      BY <1>3, <2>2
    <3> QED
      BY <2>2, <3>1, <3>2 DEF CountsFree
  <2>4. B[p].cnt = Cardinality(FreeIn(G, A[p].desc, p))
    <3>1. CASE p = a
      <4>1. FreeIn(G, d, a) = X \ {b}
        BY <1>3 DEF FreeIn, X
      <4>2. B[a].cnt = n
        BY <1>9 DEF IsCounted
      <4> QED
        BY <1>5, <1>8, <3>1, <4>1, <4>2
    <3>2. CASE p # a
      <4>1. FreeIn(G, A[p].desc, p) = FreeIn(F, A[p].desc, p)
        BY <1>3, <2>2, <3>2 DEF FreeIn, a
      <4> QED
        BY <1>10, <2>1, <2>2, <3>2, <4>1 DEF CountsFree
    <3> QED
      BY <3>1, <3>2
  <2> QED
    BY <2>1, <2>3, <2>4 DEF CountsFree
<1>15. FreeSound(B, H \cup {h}, G)
  <2>1. \A l \in Descs : IsFiniteSet(G[l])
    <3>1. \A l \in Descs : IsFiniteSet(F[l])
      BY DEF Sound, FreeSound
    <3>2. IsFiniteSet(F[d] \ {b})
      BY <3>1, FS_Difference
    <3> QED
      BY <1>3, <3>1, <3>2
  <2> QED
    BY <1>3, <1>13, <1>14, <2>1 DEF FreeSound
<1>16. Sound(T, B, H \cup {h}, G)
  BY <1>11, <1>12, <1>15 DEF Sound
<1> QED
  BY <1>5, <1>16 DEF a, B, G, n


\* A held block is given back to its list.
LEMMA BlockGiven ==
    ASSUME NEW T, NEW A, NEW H, NEW F, Sound(T, A, H, F), NEW h \in H,
           A[PageOf(h.addr)].desc # 0
    PROVE  /\ Sound(T, Counted(A, PageOf(h.addr), A[PageOf(h.addr)].cnt + 1), H \ {h},
                    Gained(F, A[PageOf(h.addr)].desc, {h.addr}))
           /\ PageOf(h.addr) \in DOMAIN A /\ A[PageOf(h.addr)].desc \in Descs
           /\ h.addr \in Nat
           /\ \A l \in Descs : h.addr \notin F[l]
<1> DEFINE b == h.addr
           a == PageOf(b)
           d == A[a].desc
           n == A[a].cnt + 1
           B == Counted(A, a, n)
           G == Gained(F, d, {b})
<1>1. 0 \notin Descs
  BY DescFacts
<1>2. /\ a \in DOMAIN A /\ b \in Range(Blocks(a, d)) /\ b \in Nat
      /\ \A g \in H : g.addr = b => g = h
  BY DEF Sound, HeldSound, FitsIn, Regions
<1>3. IsFcn(A) /\ A[a] \in ArenaRecords /\ A[a].cnt \in Nat /\ d \in Descs /\ n \in Nat
  BY <1>2 DEF Sound, PagesSound, ArenaRecords
<1>4. IsFcn(F) /\ DOMAIN F = Descs /\ IsFiniteSet(F[d])
  BY <1>3 DEF Sound, FreeSound
<1>5. /\ IsFcn(G) /\ DOMAIN G = Descs /\ G[d] = F[d] \cup {b}
      /\ \A l \in Descs : l # d => G[l] = F[l]
  BY <1>3, <1>4, GainedIs
<1>6. \A l \in Descs : \A x \in F[l] : IsFree(x, l, A, H)
  BY DEF Sound, FreeSound
<1>7. \A l \in Descs : b \notin F[l]
  BY <1>6 DEF IsFree
<1> DEFINE X == FreeIn(F, d, a)
<1>8. b \notin X /\ IsFiniteSet(X) /\ A[a].cnt = Cardinality(X)
  <2>1. IsFiniteSet(X)
    BY <1>4, FS_Subset DEF FreeIn
  <2>2. CountsFree(a, A, H, F)
    BY <1>2 DEF Sound, FreeSound
  <2>3. b \notin X
    BY <1>3, <1>7 DEF FreeIn
  <2> QED
    BY <2>1, <2>2, <2>3 DEF CountsFree
<1>9. Cardinality(X \cup {b}) = n
  <2>1. Cardinality(X \cup {b}) = Cardinality(X) + 1
    BY <1>8, FS_AddElement
  <2> QED
    BY <1>8, <2>1
<1>10. IsCounted(B, A, a, n)
  BY <1>2, <1>3, CountedIs
<1>11. d # 0
  OBVIOUS
<1> HIDE DEF b, a, d, B, G, X, n
<1>12. \A p \in DOMAIN A : /\ p \in DOMAIN B /\ B[p].desc = A[p].desc
                           /\ A[p].desc = 0 => B[p].cnt = A[p].cnt
                           /\ p # a => B[p] = A[p]
  BY <1>2, <1>10, <1>11 DEF IsCounted, d
<1>13. PagesSound(T, B)
  <2>1. \A p \in DOMAIN A : ExtentIn(B, p) = ExtentIn(A, p)
    BY <1>12 DEF ExtentIn, PagesOf
  <2>2. DOMAIN B = DOMAIN A /\ IsFcn(B)
    BY <1>10 DEF IsCounted
  <2>3. \A p \in DOMAIN A : B[p] \in ArenaRecords
    BY <1>10, <1>12 DEF IsCounted, Sound, PagesSound
  <2> QED
    BY <1>12, <2>1, <2>2, <2>3 DEF Sound, PagesSound
<1>14. HeldSound(B, H \ {h})
  <2>1. \A g \in H : FitsIn(g, B)
    <3>1. \A g \in H : FitsIn(g, A) /\ PageOf(g.addr) \in DOMAIN A
      BY DEF Sound, HeldSound, FitsIn
    <3> QED
      BY <1>12, <3>1, FitsKept
  <2> QED
    BY <2>1 DEF Sound, HeldSound
<1>15. ASSUME NEW l \in Descs, NEW x \in G[l]
       PROVE  IsFree(x, l, B, H \ {h})
  <2>1. CASE x \in F[l]
    BY <1>6, <1>12, <2>1 DEF IsFree
  <2>2. CASE l = d /\ x = b
    <3>1. \A g \in H \ {h} : g.addr # b
      BY <1>2
    <3>2. PageOf(x) = a /\ B[a].desc = d /\ a \in DOMAIN B
      BY <1>2, <1>12, <2>2 DEF a, d
    <3> QED
      BY <1>2, <2>2, <3>1, <3>2 DEF IsFree
  <2> QED
    BY <1>5, <2>1, <2>2
<1>16. ASSUME NEW p \in DOMAIN B, B[p].desc # 0
       PROVE  CountsFree(p, B, H \ {h}, G)
  <2>1. p \in DOMAIN A /\ B[p].desc = A[p].desc /\ A[p].desc # 0
    BY <1>10, <1>12, <1>16 DEF IsCounted
  <2>2. CountsFree(p, A, H, F) /\ A[p].desc \in Descs
    BY <2>1 DEF Sound, FreeSound, PagesSound, ArenaRecords
  <2>3. ASSUME NEW x \in Range(Blocks(p, A[p].desc))
        PROVE  x \in G[A[p].desc] \/ \E g \in H \ {h} : g.addr = x
    <3>1. CASE x = b
      <4>1. PageOf(x) = p
        <5>1. p \in Nat
          BY <2>1 DEF Sound, PagesSound, Pages
        <5> QED
          BY <2>2, <5>1, BlockSetFacts
      <4>2. p = a /\ A[p].desc = d
        BY <3>1, <4>1 DEF a, d
      <4> QED
        BY <1>5, <3>1, <4>2
    <3>2. CASE x # b
      <4>1. x \in F[A[p].desc] \/ \E g \in H : g.addr = x
        BY <2>2 DEF CountsFree
      <4>2. F[A[p].desc] \subseteq G[A[p].desc]
        BY <1>5, <2>2
      <4>3. h.addr = b
        BY DEF b
      <4> QED
        BY <3>2, <4>1, <4>2, <4>3
    <3> QED
      BY <3>1, <3>2
  <2>4. B[p].cnt = Cardinality(FreeIn(G, A[p].desc, p))
    <3>1. CASE p = a
      <4>1. FreeIn(G, d, a) = X \cup {b}
        <5>1. PageOf(b) = a
          BY DEF a
        <5> QED
          BY <1>5, <5>1 DEF FreeIn, X
      <4>2. B[a].cnt = n
        BY <1>10 DEF IsCounted
      <4> QED
        BY <1>9, <3>1, <4>1, <4>2 DEF d
    <3>2. CASE p # a
      <4>1. FreeIn(G, A[p].desc, p) = FreeIn(F, A[p].desc, p)
        <5>1. PageOf(b) # p
          BY <3>2 DEF a
        <5> QED
          BY <1>5, <2>2, <5>1 DEF FreeIn
      <4> QED
        BY <1>12, <2>1, <2>2, <3>2, <4>1 DEF CountsFree
    <3> QED
      BY <3>1, <3>2
  <2> QED
    BY <2>1, <2>3, <2>4 DEF CountsFree
<1>17. FreeSound(B, H \ {h}, G)
  <2>1. \A l \in Descs : IsFiniteSet(G[l])
    <3>1. \A l \in Descs : IsFiniteSet(F[l])
      BY DEF Sound, FreeSound
    <3>2. IsFiniteSet(F[d] \cup {b})
      BY <1>4, FS_AddElement
    <3> QED
      BY <1>5, <3>1, <3>2
  <2> QED
    BY <1>5, <1>15, <1>16, <2>1 DEF FreeSound
<1>18. Sound(T, B, H \ {h}, G)
  BY <1>13, <1>14, <1>17 DEF Sound
<1> QED
  BY <1>2, <1>3, <1>7, <1>18 DEF b, a, d, B, G, n


LEMMA DroppedPages ==
    ASSUME NEW T, NEW A, PagesSound(T, A), NEW a \in DOMAIN A
    PROVE  PagesSound(T \ ExtentIn(A, a), Dropped(A, a))
<1> DEFINE B == Dropped(A, a)
           E == ExtentIn(A, a)
<1>1. IsDropped(B, A, a)
  BY DroppedIs
<1> HIDE DEF B, E
<1>2. \A p \in DOMAIN B : p \in DOMAIN A /\ p # a /\ B[p] = A[p] /\ ExtentIn(B, p) = ExtentIn(A, p)
  BY <1>1 DEF IsDropped, ExtentIn
<1>3. \A p \in DOMAIN A : p # a => p \in DOMAIN B
  BY <1>1 DEF IsDropped
<1>4. \A p \in DOMAIN B : ExtentIn(A, p) \cap E = {}
  BY <1>2 DEF PagesSound, E
<1>5. ASSUME NEW p \in (T \ E) \cap Pages
      PROVE  \E x \in DOMAIN B : p \in ExtentIn(B, x)
  <2>1. PICK x \in DOMAIN A : p \in ExtentIn(A, x)
    BY DEF PagesSound
  <2>2. x # a
    BY <2>1 DEF E
  <2> QED
    BY <1>2, <1>3, <2>1, <2>2
<1>6. \A p \in DOMAIN B : ExtentIn(B, p) \subseteq T \ E
  BY <1>2, <1>4 DEF PagesSound
<1>7. IsFcn(B)
  BY <1>1 DEF IsDropped
<1>8. PagesSound(T \ E, B)
  <2>1. T \ E \subseteq 0..PageCount
    BY DEF PagesSound
  <2>2. \A p \in DOMAIN B : /\ p \in Pages /\ B[p] \in ArenaRecords
                            /\ B[p].desc = 0 => B[p].cnt >= 1
    BY <1>2 DEF PagesSound
  <2>3. \A x, y \in DOMAIN B : x # y => ExtentIn(B, x) \cap ExtentIn(B, y) = {}
    BY <1>2 DEF PagesSound
  <2> QED
    BY <1>5, <1>6, <1>7, <2>1, <2>2, <2>3 DEF PagesSound
<1> QED
  BY <1>8 DEF B, E

\* The page of an arena whose blocks are all free is given back.
LEMMA SmallDropped ==
    ASSUME NEW T, NEW A, NEW H, NEW F, Sound(T, A, H, F), NEW a \in DOMAIN A,
           A[a].desc # 0, Range(Blocks(a, A[a].desc)) \subseteq F[A[a].desc]
    PROVE  /\ Sound(T \ {a}, Dropped(A, a), H,
                    Lost(F, A[a].desc, Range(Blocks(a, A[a].desc))))
           /\ \A g \in H : PageOf(g.addr) # a
<1> DEFINE d == A[a].desc
           S == Range(Blocks(a, d))
           B == Dropped(A, a)
           G == Lost(F, d, S)
<1>1. a \in Nat /\ d \in Descs /\ 0 \notin Descs
  BY DescFacts DEF Sound, PagesSound, ArenaRecords, Pages
<1>2. IsDropped(B, A, a)
  BY DroppedIs
<1>3. PagesSound(T \ {a}, B)
  <2>1. ExtentIn(A, a) = {a}
    BY DEF ExtentIn, PagesOf
  <2> QED
    BY <2>1, DroppedPages DEF Sound
<1>4. IsFcn(F) /\ DOMAIN F = Descs
  BY DEF Sound, FreeSound
<1>5. /\ IsFcn(G) /\ DOMAIN G = Descs /\ G[d] = F[d] \ S
      /\ \A l \in Descs : l # d => G[l] = F[l]
  BY <1>1, <1>4, LostIs
<1>6. \A l \in Descs : \A x \in F[l] : IsFree(x, l, A, H)
  BY DEF Sound, FreeSound
<1>7. \A x \in S : PageOf(x) = a
  BY <1>1, BlockSetFacts
<1>8. S \subseteq F[d] /\ d # 0 /\ A[a].desc = d
  OBVIOUS
<1> HIDE DEF d, S, B, G
<1>9. ASSUME NEW g \in H, PageOf(g.addr) = a
      PROVE  FALSE
  <2>1. g.addr \in S
    BY <1>8, <1>9 DEF Sound, HeldSound, FitsIn, S
  <2> QED
    BY <1>1, <1>6, <1>8, <2>1 DEF IsFree
<1>10. \A p \in DOMAIN B : p \in DOMAIN A /\ p # a /\ B[p] = A[p]
  BY <1>2 DEF IsDropped
<1>11. \A p \in DOMAIN A : p # a => p \in DOMAIN B /\ B[p] = A[p]
  BY <1>2 DEF IsDropped
<1>12. HeldSound(B, H)
  <2>1. \A g \in H : FitsIn(g, B)
    <3>1. \A g \in H : FitsIn(g, A) /\ PageOf(g.addr) \in DOMAIN A
      BY DEF Sound, HeldSound, FitsIn
    <3> QED
      BY <1>9, <1>11, <3>1, FitsKept
  <2> QED
    BY <2>1 DEF Sound, HeldSound
<1>13. ASSUME NEW l \in Descs, NEW x \in G[l]
       PROVE  IsFree(x, l, B, H)
  <2>1. x \in F[l] /\ IsFree(x, l, A, H)
    BY <1>5, <1>6
  <2>2. PageOf(x) # a
    <3>1. SUFFICES ASSUME PageOf(x) = a PROVE FALSE
      OBVIOUS
    <3>2. l = d /\ x \in S
      BY <1>8, <2>1, <3>1 DEF IsFree, S
    <3> QED
      BY <1>5, <3>2
  <2> QED
    BY <1>11, <2>1, <2>2 DEF IsFree
<1>14. ASSUME NEW p \in DOMAIN B, B[p].desc # 0
       PROVE  CountsFree(p, B, H, G)
  <2>1. p \in DOMAIN A /\ B[p] = A[p] /\ A[p].desc # 0 /\ p # a
    BY <1>10, <1>14
  <2>2. CountsFree(p, A, H, F) /\ A[p].desc \in Descs /\ p \in Nat
    BY <2>1 DEF Sound, FreeSound, PagesSound, ArenaRecords, Pages
  <2>3. ASSUME NEW x \in Range(Blocks(p, A[p].desc))
        PROVE  x \in G[A[p].desc] \/ \E g \in H : g.addr = x
    <3>1. PageOf(x) = p
      BY <2>2, BlockSetFacts
    <3>2. x \notin S
      BY <1>7, <2>1, <3>1
    <3>3. x \in F[A[p].desc] => x \in G[A[p].desc]
      BY <1>5, <2>2, <3>2
    <3> QED
      BY <2>2, <3>3 DEF CountsFree
  <2>4. FreeIn(G, A[p].desc, p) = FreeIn(F, A[p].desc, p)
    BY <1>5, <1>7, <2>1, <2>2 DEF FreeIn
  <2> QED
    BY <2>1, <2>2, <2>3, <2>4 DEF CountsFree
<1>15. FreeSound(B, H, G)
  <2>1. \A l \in Descs : IsFiniteSet(G[l])
    <3>1. \A l \in Descs : IsFiniteSet(F[l])
      BY DEF Sound, FreeSound
    <3>2. IsFiniteSet(F[d] \ S)
      BY <1>1, <3>1, FS_Difference
    <3> QED
      BY <1>5, <3>1, <3>2
  <2> QED
    BY <1>5, <1>13, <1>14, <2>1 DEF FreeSound
<1>16. Sound(T \ {a}, B, H, G)
  BY <1>3, <1>12, <1>15 DEF Sound
<1> QED
  BY <1>9, <1>16 DEF d, S, B, G

\* sys_free of whole pages.
LEMMA LargeDropped ==
    ASSUME NEW T, NEW A, NEW H, NEW F, Sound(T, A, H, F), NEW h \in H,
           A[PageOf(h.addr)].desc = 0
    PROVE  /\ Sound(T \ ExtentIn(A, PageOf(h.addr)), Dropped(A, PageOf(h.addr)), H \ {h}, F)
           /\ \A g \in H : PageOf(g.addr) = PageOf(h.addr) => g = h
<1> DEFINE a == PageOf(h.addr)
           B == Dropped(A, a)
<1>1. a \in DOMAIN A /\ 0 \notin Descs
  BY DescFacts DEF Sound, HeldSound, FitsIn
<1>2. IsDropped(B, A, a)
  BY DroppedIs
<1>3. PagesSound(T \ ExtentIn(A, a), B)
  BY <1>1, DroppedPages DEF Sound
<1>4. ASSUME NEW g \in H, PageOf(g.addr) = a
      PROVE  g = h
  <2>1. g.addr = a * PageUnits + HeaderUnits /\ h.addr = a * PageUnits + HeaderUnits
    BY <1>4 DEF Sound, HeldSound, FitsIn
  <2> QED
    BY <2>1 DEF Sound, HeldSound
<1>5. A[a].desc = 0
  OBVIOUS
<1> HIDE DEF a, B
<1>6. \A p \in DOMAIN B : p \in DOMAIN A /\ p # a /\ B[p] = A[p]
  BY <1>2 DEF IsDropped
<1>7. \A p \in DOMAIN A : p # a => p \in DOMAIN B /\ B[p] = A[p]
  BY <1>2 DEF IsDropped
<1>8. HeldSound(B, H \ {h})
  <2>1. \A g \in H \ {h} : FitsIn(g, B)
    <3>1. \A g \in H : FitsIn(g, A) /\ PageOf(g.addr) \in DOMAIN A
      BY DEF Sound, HeldSound, FitsIn
    <3> QED
      BY <1>4, <1>7, <3>1, FitsKept
  <2> QED
    BY <2>1 DEF Sound, HeldSound
<1>9. ASSUME NEW l \in Descs, NEW x \in F[l]
      PROVE  IsFree(x, l, B, H \ {h})
  <2>1. IsFree(x, l, A, H)
    BY DEF Sound, FreeSound
  <2>2. PageOf(x) # a
    BY <1>1, <1>5, <2>1 DEF IsFree
  <2> QED
    BY <1>7, <2>1, <2>2 DEF IsFree
<1>10. ASSUME NEW p \in DOMAIN B, B[p].desc # 0
       PROVE  CountsFree(p, B, H \ {h}, F)
  <2>1. p \in DOMAIN A /\ B[p] = A[p] /\ A[p].desc # 0 /\ p # a
    BY <1>6, <1>10
  <2>2. CountsFree(p, A, H, F) /\ A[p].desc \in Descs /\ p \in Nat
    BY <2>1 DEF Sound, FreeSound, PagesSound, ArenaRecords, Pages
  <2>3. ASSUME NEW x \in Range(Blocks(p, A[p].desc)), x \notin F[A[p].desc]
        PROVE  \E g \in H \ {h} : g.addr = x
    <3>1. PICK g \in H : g.addr = x
      BY <2>2, <2>3 DEF CountsFree
    <3>2. PageOf(x) = p
      BY <2>2, BlockSetFacts
    <3>3. g # h
      BY <2>1, <3>1, <3>2 DEF a
    <3> QED
      BY <3>1, <3>3
  <2> QED
    BY <2>1, <2>2, <2>3 DEF CountsFree
<1>11. FreeSound(B, H \ {h}, F)
  BY <1>9, <1>10 DEF Sound, FreeSound
<1>12. Sound(T \ ExtentIn(A, a), B, H \ {h}, F)
  BY <1>3, <1>8, <1>11 DEF Sound
<1> QED
  BY <1>4, <1>12 DEF a, B

-----------------------------------------------------------------------------
(* The steps of sys_malloc and sys_free.                                    *)

\* malloc_page yields pages that are not taken.
LEMMA RunFound ==
    ASSUME NEW n \in Nat \ {0}, NEW a \in Pages, MallocPage(n, a)
    PROVE  /\ PagesOf(a, 0, n) \cap taken = {}
           /\ PagesOf(a, 0, n) \subseteq 0..PageCount
           /\ taken' = taken \cup PagesOf(a, 0, n)
<1>1. ~Map!Full /\ a = Map!Scan(n) /\ taken' = taken \cup (a..a + n - 1)
  BY DEF MallocPage, PagesFound
<1>2. a \in Nat /\ PageCount \in Nat
  BY SizeFacts DEF Pages
<1>3. /\ Map!Runs(n) \subseteq Pages
      /\ a = IF Map!Runs(n) = {} THEN -1 ELSE Min(Map!Runs(n))
  BY <1>1, ScanIs
<1>4. Map!Runs(n) # {} /\ a = Min(Map!Runs(n))
  BY <1>2, <1>3
<1>5. Map!Runs(n) \subseteq Nat
  BY <1>3, SizeFacts DEF Pages
<1>6. a \in Map!Runs(n)
  BY <1>4, <1>5, MinLemma
<1>7. a + n <= PageCount + 1 /\ (a..a + n - 1) \cap taken = {}
  BY <1>2, <1>6 DEF Map!Runs
<1>8. PagesOf(a, 0, n) = a..a + n - 1
  BY DEF PagesOf
<1> QED
  BY <1>1, <1>2, <1>7, <1>8

\* The descriptor for a size has blocks that are large enough.
LEMMA DescFits ==
    ASSUME NEW size \in Nat, size <= LargestBlock
    PROVE  DescFor(size) \in Descs /\ size <= BlockSizes[DescFor(size)]
<1> DEFINE D == {d \in Descs : size <= BlockSizes[d]}
<1>1. Len(BlockSizes) \in D
  BY SizeFacts DEF LargestBlock
<1>2. D \subseteq Nat
  BY DescFacts
<1>3. Min(D) \in D
  BY <1>1, <1>2, MinLemma
<1> QED
  BY <1>3 DEF DescFor

\* The first block of a list leaves it and is handed out.
LEMMA TakeStep ==
    ASSUME NEW T, NEW A, NEW F, Sound(T, A, held, F), NEW k, Listing(k, F),
           NEW d \in Descs, F[d] # {}, NEW size \in Nat \ {0}, size <= BlockSizes[d],
           Take(d, k, A, size)
    PROVE  \E h : /\ h.addr \in F[d]
                  /\ Listing(links', Lost(F, d, {h.addr}))
                  /\ Sound(T, arenas', held', Lost(F, d, {h.addr}))
                  /\ DOMAIN arenas' = DOMAIN A
                  /\ held' = held \cup {h}
                  /\ \A g \in held : g.addr # h.addr
<1> DEFINE b == First(k, d)
           h == [addr |-> b, size |-> size]
<1>1. b \in F[d]
  BY ListingFirst
<1>2. links' = Detach(k, b) /\ held' = held \cup {h}
  BY DEF Take
<1>3. arenas' = Counted(A, PageOf(b), A[PageOf(b)].cnt - 1)
  BY DEF Take, Counted
<1>4. b \in Nat
  BY <1>1, ListingListed
<1>5. h \in Regions /\ h.addr = b /\ h.size = size
  BY <1>4 DEF Regions
<1>6. DOMAIN Counted(A, PageOf(b), A[PageOf(b)].cnt - 1) = DOMAIN A
  BY DEF Counted
<1> HIDE DEF b, h
<1>7. Listing(Detach(k, b), [F EXCEPT ![d] = @ \ {b}])
  BY <1>1, ListingDetach
<1>8. Listing(links', Lost(F, d, {b}))
  BY <1>2, <1>7 DEF Lost
<1>9. /\ Sound(T, arenas', held', Lost(F, d, {b}))
      /\ \A g \in held : g.addr # h.addr
  BY <1>1, <1>2, <1>3, <1>5, BlockTaken
<1> QED
  BY <1>1, <1>2, <1>3, <1>5, <1>6, <1>8, <1>9

\* What a step does to the regions that are held.
HeldStep ==
    \/ held' = held
    \/ \E h : (\A g \in held : g.addr # h.addr) /\ held' = held \cup {h}
    \/ \E h \in held : held' = held \ {h}

LEMMA NoPagesStep ==
    ASSUME HeapInv, NEW n, NoPages(n)
    PROVE  HeapInv' /\ HeldStep
<1>1. /\ UNCHANGED <<taken, arenas, links, held>>
      /\ panic' = panic \/ panic' = "full"
  BY DEF NoPages, vars
<1>2. panic' \notin {"linked", "unlinked"}
  BY <1>1 DEF HeapInv
<1> QED
  BY <1>1, <1>2 DEF HeapInv, NoneIdle, HeldStep

LEMMA MallocLargeStep ==
    ASSUME HeapInv, NEW size \in Requests, MallocLarge(size)
    PROVE  HeapInv' /\ HeldStep
<1> DEFINE n == (size + HeaderUnits + PageUnits - 1) \div PageUnits
<1>1. size \in Nat \ {0}
  BY SizeFacts
<1>2. n \in Nat \ {0} /\ HeaderUnits + size <= n * PageUnits
  BY <1>1, PagesFor
<1>3. CASE NoPages(n)
  BY <1>3, NoPagesStep
<1>4. CASE ~NoPages(n)
  <2>1. PICK a \in Pages :
           /\ MallocPage(n, a)
           /\ arenas' = WithArena(a, 0, n)
           /\ held' = held \cup {[addr |-> a * PageUnits + HeaderUnits, size |-> size]}
           /\ UNCHANGED <<links, panic>>
    BY <1>4 DEF MallocLarge
  <2> HIDE DEF n
  <2>2. PICK F : Listing(links, F) /\ Sound(taken, arenas, held, F)
    BY DEF HeapInv
  <2>3. /\ PagesOf(a, 0, n) \cap taken = {}
        /\ PagesOf(a, 0, n) \subseteq 0..PageCount
        /\ taken' = taken \cup PagesOf(a, 0, n)
    BY <1>2, <2>1, RunFound
  <2> DEFINE h == [addr |-> a * PageUnits + HeaderUnits, size |-> size]
  <2>4. /\ h \in Regions /\ h.addr = a * PageUnits + HeaderUnits /\ h.size = size
        /\ held' = held \cup {h}
    BY <1>1, <2>1, HeaderPage DEF Regions
  <2> HIDE DEF h
  <2>5. arenas' = Added(arenas, a, 0, n)
    BY <2>1 DEF WithArena, Added
  <2>6. HeaderUnits + h.size <= n * PageUnits
    BY <1>2, <2>4
  <2>7. /\ Sound(taken \cup PagesOf(a, 0, n), Added(arenas, a, 0, n), held \cup {h}, F)
        /\ PageOf(h.addr) = a
        /\ \A g \in held : g.addr # h.addr
    BY <1>2, <2>2, <2>3, <2>4, <2>6, LargeAdded
  <2>8. DOMAIN arenas' = DOMAIN arenas \cup {a}
    BY <2>5 DEF Added
  <2>9. NoneIdle(arenas', held')
    BY <2>4, <2>7, <2>8 DEF HeapInv, NoneIdle
  <2>10. Listing(links', F) /\ Sound(taken', arenas', held', F)
    BY <2>1, <2>2, <2>3, <2>4, <2>5, <2>7
  <2>11. panic' \notin {"linked", "unlinked"}
    BY <2>1 DEF HeapInv
  <2>12. HeldStep
    BY <2>4, <2>7 DEF HeldStep
  <2> QED
    BY <2>9, <2>10, <2>11, <2>12 DEF HeapInv
<1> QED
  BY <1>3, <1>4


\* The blocks of a new arena: none of them is in a list, all of them come into one.
LEMMA SplitStep ==
    ASSUME NEW F, Listing(links, F), Sound(taken, arenas, held, F), NEW a \in Pages,
           a \notin taken, NEW d \in Descs
    PROVE  /\ Listing(Split(a, d), Gained(F, d, Range(Blocks(a, d))))
           /\ \A b \in Range(Blocks(a, d)) : ~ElemFind(links, d, b)
           /\ Range(Blocks(a, d)) # {}
<1>1. a \in Nat
  BY SizeFacts DEF Pages
<1>2. \A l \in Descs : Range(Blocks(a, d)) \cap F[l] = {}
  BY SmallAdded
<1>3. Listing(Split(a, d), [F EXCEPT ![d] = @ \cup Range(Blocks(a, d))])
  BY <1>1, <1>2, SplitListing
<1>4. \A b \in Range(Blocks(a, d)) : b \in Nat /\ b \notin F[d]
  BY <1>1, <1>2, BlockSetFacts
<1>5. \A b \in Range(Blocks(a, d)) : ~ElemFind(links, d, b)
  BY <1>4, ListingFinds
<1>6. Range(Blocks(a, d)) # {}
  <2>1. Cardinality(Range(Blocks(a, d))) = BlocksPerArena(d) /\ BlocksPerArena(d) \in Nat \ {0}
    BY <1>1, BlockSetFacts
  <2>2. Cardinality(Range(Blocks(a, d))) # 0
    BY <2>1
  <2> QED
    BY <2>2, FS_EmptySet
<1> QED
  BY <1>3, <1>5, <1>6 DEF Gained

LEMMA MallocSmallStep ==
    ASSUME HeapInv, NEW size \in Requests, MallocSmall(size)
    PROVE  HeapInv' /\ HeldStep
<1> DEFINE d == DescFor(size)
<1>1. size \in Nat \ {0} /\ size \in Nat /\ size <= LargestBlock
  BY SizeFacts DEF MallocSmall
<1>2. d \in Descs /\ size <= BlockSizes[d]
  BY <1>1, DescFits
<1>3. PICK F : Listing(links, F) /\ Sound(taken, arenas, held, F)
  BY DEF HeapInv
<1>4. CASE NoPages(1)
  BY <1>4, NoPagesStep
<1>5. CASE ~ListEmpty(links, d) /\ Take(d, links, arenas, size) /\ UNCHANGED <<taken, panic>>
  <2> HIDE DEF d
  <2>1. F[d] # {}
    BY <1>2, <1>3, <1>5, ListingFirst
  <2>2. PICK h : /\ h.addr \in F[d]
                 /\ Listing(links', Lost(F, d, {h.addr}))
                 /\ Sound(taken, arenas', held', Lost(F, d, {h.addr}))
                 /\ DOMAIN arenas' = DOMAIN arenas
                 /\ held' = held \cup {h}
                 /\ \A g \in held : g.addr # h.addr
    BY <1>1, <1>2, <1>3, <1>5, <2>1, TakeStep
  <2>3. Listing(links', Lost(F, d, {h.addr})) /\ Sound(taken', arenas', held', Lost(F, d, {h.addr}))
    BY <1>5, <2>2
  <2>4. NoneIdle(arenas', held') /\ panic' \notin {"linked", "unlinked"}
    BY <1>5, <2>2 DEF HeapInv, NoneIdle
  <2>5. HeldStep
    BY <2>2 DEF HeldStep
  <2> QED
    BY <2>3, <2>4, <2>5 DEF HeapInv
<1>6. ASSUME NEW a \in Pages, ListEmpty(links, d), MallocPage(1, a), SplitAssert(a, d),
             Take(d, Split(a, d), WithArena(a, d, BlocksPerArena(d)), size)
      PROVE  HeapInv' /\ HeldStep
  <2> HIDE DEF d
  <2>1. F[d] = {}
    BY <1>2, <1>3, <1>6, ListingFirst
  <2>2. a \notin taken /\ taken' = taken \cup {a}
    <3>1. a \in Nat /\ 1 \in Nat \ {0}
      BY SizeFacts DEF Pages
    <3>2. PagesOf(a, 0, 1) = {a}
      BY <3>1 DEF PagesOf
    <3> QED
      BY <1>6, <3>1, <3>2, RunFound
  <2> DEFINE S == Range(Blocks(a, d))
             G == Gained(F, d, S)
             A == Added(arenas, a, d, BlocksPerArena(d))
             k == Split(a, d)
  <2>3. /\ Listing(k, G) /\ S # {}
        /\ \A b \in S : ~ElemFind(links, d, b)
    BY <1>2, <1>3, <2>2, SplitStep
  <2>4. Sound(taken \cup {a}, A, held, G) /\ \A b \in G[d] : PageOf(b) = a
    BY <1>2, <1>3, <2>1, <2>2, SmallAdded
  <2>5. G[d] # {}
    <3>1. IsFcn(F) /\ d \in DOMAIN F
      BY <1>2, <1>3 DEF Sound, FreeSound
    <3>2. G[d] = F[d] \cup S
      BY <3>1, GainedIs
    <3> QED
      BY <2>3, <3>2
  <2>6. Take(d, k, A, size)
    BY <1>6 DEF WithArena, Added
  <2>7. panic' = panic
    BY <1>6, <2>3 DEF SplitAssert
  <2>8. DOMAIN A = DOMAIN arenas \cup {a}
    BY DEF Added
  <2> HIDE DEF S, G, A, k
  <2>9. PICK h : /\ h.addr \in G[d]
                 /\ Listing(links', Lost(G, d, {h.addr}))
                 /\ Sound(taken \cup {a}, arenas', held', Lost(G, d, {h.addr}))
                 /\ DOMAIN arenas' = DOMAIN A
                 /\ held' = held \cup {h}
                 /\ \A g \in held : g.addr # h.addr
    BY <1>1, <1>2, <2>3, <2>4, <2>5, <2>6, TakeStep
  <2>10. Listing(links', Lost(G, d, {h.addr})) /\ Sound(taken', arenas', held', Lost(G, d, {h.addr}))
    BY <2>2, <2>9
  <2>11. PageOf(h.addr) = a
    BY <2>4, <2>9
  <2>12. NoneIdle(arenas', held') /\ panic' \notin {"linked", "unlinked"}
    BY <2>7, <2>8, <2>9, <2>11 DEF HeapInv, NoneIdle
  <2>13. HeldStep
    BY <2>9 DEF HeldStep
  <2> QED
    BY <2>10, <2>12, <2>13 DEF HeapInv
<1> QED
  BY <1>4, <1>5, <1>6 DEF MallocSmall

LEMMA FreeLargeStep ==
    ASSUME HeapInv, NEW h \in held, held' = held \ {h}, FreeLarge(PageOf(h.addr))
    PROVE  HeapInv'
<1> DEFINE a == PageOf(h.addr)
<1>1. PICK F : Listing(links, F) /\ Sound(taken, arenas, held, F)
  BY DEF HeapInv
<1>2. arenas[a].desc = 0 /\ UNCHANGED <<links, panic>>
  BY DEF FreeLarge
<1>3. arenas' = Dropped(arenas, a) /\ taken' = taken \ ExtentIn(arenas, a)
  BY <1>2 DEF FreeLarge, FreePages, Dropped, ExtentIn, PagesOf
<1>4. /\ Sound(taken', arenas', held', F)
      /\ \A g \in held : PageOf(g.addr) = a => g = h
  BY <1>1, <1>2, <1>3, LargeDropped
<1>5. DOMAIN arenas' = DOMAIN arenas \ {a}
  BY <1>3 DEF Dropped
<1> HIDE DEF a
<1>6. NoneIdle(arenas', held')
  <2>1. PageOf(h.addr) = a
    BY DEF a
  <2> QED
    BY <1>5, <2>1 DEF HeapInv, NoneIdle
<1>7. panic' \notin {"linked", "unlinked"}
  BY <1>2 DEF HeapInv
<1> QED
  BY <1>1, <1>2, <1>4, <1>6, <1>7 DEF HeapInv


\* An arena's count is the number of its blocks when all of them are free, and
\* only then.
LEMMA AllFree ==
    ASSUME NEW T, NEW A, NEW H, NEW F, Sound(T, A, H, F), NEW a \in DOMAIN A, A[a].desc # 0
    PROVE  A[a].cnt = BlocksPerArena(A[a].desc)
              <=> Range(Blocks(a, A[a].desc)) \subseteq F[A[a].desc]
<1> DEFINE d == A[a].desc
           S == Range(Blocks(a, d))
           X == FreeIn(F, d, a)
<1>1. a \in Nat /\ d \in Descs
  BY SizeFacts DEF Sound, PagesSound, ArenaRecords, Pages
<1>2. /\ IsFiniteSet(S) /\ Cardinality(S) = BlocksPerArena(d)
      /\ \A b \in S : PageOf(b) = a
  BY <1>1, BlockSetFacts
<1>3. A[a].cnt = Cardinality(X)
  BY DEF Sound, FreeSound, CountsFree
<1>4. X \subseteq S
  BY <1>1 DEF FreeIn, Sound, FreeSound, IsFree
<1> HIDE DEF d, S
<1>5. S \subseteq F[d] => X = S
  BY <1>2, <1>4 DEF FreeIn
<1>6. Cardinality(X) = Cardinality(S) => X = S
  BY <1>2, <1>4, FS_Subset
<1>7. X = S => S \subseteq F[d]
  BY DEF FreeIn
<1>8. A[a].cnt = BlocksPerArena(d) <=> S \subseteq F[d]
  BY <1>2, <1>3, <1>5, <1>6, <1>7
<1> QED
  BY <1>8 DEF d, S

LEMMA FreeSmallStep ==
    ASSUME HeapInv, NEW h \in held, held' = held \ {h}, FreeSmall(PageOf(h.addr), h.addr)
    PROVE  HeapInv'
<1> DEFINE t == h.addr
           a == PageOf(t)
           d == arenas[a].desc
           S == Range(Blocks(a, d))
           list == ListAppend(links, d, t)
           A == Counted(arenas, a, arenas[a].cnt + 1)
<1>1. PICK F : Listing(links, F) /\ Sound(taken, arenas, held, F)
  BY DEF HeapInv
<1> DEFINE G == Gained(F, d, {t})
<1>2. d # 0 /\ arenas[a].desc = d /\ PageOf(h.addr) = a
  BY DEF FreeSmall
<1>3. /\ Sound(taken, A, held', G)
      /\ a \in DOMAIN arenas /\ d \in Descs /\ t \in Nat
      /\ \A l \in Descs : t \notin F[l]
  BY <1>1, <1>2, BlockGiven
<1>4. Listing(list, G)
  <2> HIDE DEF t, d
  <2>1. Listing(ListAppend(links, d, t), [F EXCEPT ![d] = @ \cup {t}])
    BY <1>1, <1>3, ListingAppend
  <2> QED
    BY <2>1 DEF Gained
<1>5. IsFcn(arenas) /\ arenas[a] \in ArenaRecords /\ arenas[a].cnt + 1 \in Nat /\ a \in Nat
  BY <1>1, <1>3, SizeFacts DEF Sound, PagesSound, ArenaRecords, Pages
<1>6. IsCounted(A, arenas, a, arenas[a].cnt + 1)
  BY <1>3, <1>5, CountedIs
<1>7. A[a].desc = d /\ A[a].cnt = arenas[a].cnt + 1 /\ DOMAIN A = DOMAIN arenas
  BY <1>6 DEF IsCounted
<1>8. ASSUME NEW p \in DOMAIN arenas, p # a
      PROVE  \E g \in held' : PageOf(g.addr) = p
  BY <1>2, <1>8 DEF HeapInv, NoneIdle
<1>9. /\ arenas[a].cnt + 1 = BlocksPerArena(d) => Unsplit(list, a, d) /\ FreePages(a, 1)
      /\ arenas[a].cnt + 1 # BlocksPerArena(d) =>
            /\ links' = list
            /\ arenas' = [arenas EXCEPT ![a].cnt = @ + 1]
            /\ UNCHANGED <<taken, panic>>
  BY DEF FreeSmall
<1>10. A = [arenas EXCEPT ![a].cnt = @ + 1]
  BY DEF Counted
<1>11. Dropped(A, a) = Dropped(arenas, a)
  BY <1>6 DEF IsCounted, Dropped
<1> HIDE DEF t, a, d, S, list, A, G
<1>12. A[a].cnt = BlocksPerArena(d) <=> S \subseteq G[d]
  BY <1>2, <1>3, <1>7, AllFree DEF S
<1>13. CASE arenas[a].cnt + 1 = BlocksPerArena(d)
  <2>1. S \subseteq G[d]
    BY <1>7, <1>12, <1>13
  <2>2. \A b \in S : ElemFind(list, d, b)
    <3>1. \A b \in S : b \in Nat
      BY <1>3, <1>5, BlockSetFacts DEF S
    <3> QED
      BY <1>3, <1>4, <2>1, <3>1, ListingFinds
  <2>3. panic' = panic /\ panic' \notin {"linked", "unlinked"}
    BY <1>9, <1>13, <2>2 DEF Unsplit, S, HeapInv
  <2>4. links' = WithoutBlocks(list, a, d)
    BY <1>9, <1>13, <2>3 DEF Unsplit
  <2>5. Listing(links', Lost(G, d, S))
    <3>1. Range(Blocks(a, d)) \subseteq G[d]
      BY <2>1 DEF S
    <3>2. Listing(WithoutBlocks(list, a, d), [G EXCEPT ![d] = @ \ Range(Blocks(a, d))])
      BY <1>3, <1>4, <1>5, <3>1, WithoutListing
    <3> QED
      BY <2>4, <3>2 DEF Lost, S
  <2>6. arenas' = Dropped(A, a) /\ taken' = taken \ {a}
    <3>1. a..a + 1 - 1 = {a}
      BY <1>5
    <3> QED
      BY <1>9, <1>11, <1>13, <3>1 DEF FreePages, Dropped
  <2>7. Sound(taken', arenas', held', Lost(G, d, S))
    BY <1>2, <1>3, <1>7, <2>1, <2>6, SmallDropped DEF S
  <2>8. NoneIdle(arenas', held')
    <3>1. DOMAIN arenas' = DOMAIN arenas \ {a}
      BY <1>7, <2>6 DEF Dropped
    <3> QED
      BY <1>8, <3>1 DEF NoneIdle
  <2> QED
    BY <2>3, <2>5, <2>7, <2>8 DEF HeapInv
<1>14. CASE arenas[a].cnt + 1 # BlocksPerArena(d)
  <2>1. links' = list /\ arenas' = A /\ UNCHANGED <<taken, panic>>
    BY <1>9, <1>10, <1>14
  <2>2. \E g \in held' : PageOf(g.addr) = a
    <3>1. PICK b \in S : b \notin G[d]
      BY <1>7, <1>12, <1>14
    <3>2. CountsFree(a, A, held', G)
      BY <1>2, <1>3, <1>7 DEF Sound, FreeSound
    <3>3. PICK g \in held' : g.addr = b
      BY <1>7, <3>1, <3>2 DEF CountsFree, S
    <3>4. PageOf(b) = a
      BY <1>3, <1>5, <3>1, BlockSetFacts DEF S
    <3> QED
      BY <3>3, <3>4
  <2>3. NoneIdle(arenas', held')
    BY <1>7, <1>8, <2>1, <2>2 DEF NoneIdle
  <2>4. Listing(links', G) /\ Sound(taken', arenas', held', G)
    BY <1>3, <1>4, <2>1
  <2>5. panic' \notin {"linked", "unlinked"}
    BY <2>1 DEF HeapInv
  <2> QED
    BY <2>3, <2>4, <2>5 DEF HeapInv
<1> QED
  BY <1>13, <1>14

\* Whatever is asked for and given back, in whatever order.
LEMMA HeapStep ==
    ASSUME HeapInv, MemoryNext
    PROVE  HeapInv' /\ HeldStep
<1>1. CASE UNCHANGED vars
  BY <1>1 DEF vars, HeapInv, NoneIdle, HeldStep
<1>2. ASSUME NEW size \in Requests, Malloc(size)
      PROVE  HeapInv' /\ HeldStep
  BY <1>2, MallocLargeStep, MallocSmallStep DEF Malloc
<1>3. ASSUME NEW h \in held, Free(h)
      PROVE  HeapInv' /\ HeldStep
  <2>1. held' = held \ {h} /\ HeldStep
    BY <1>3 DEF Free, HeldStep
  <2> QED
    BY <1>3, <2>1, FreeLargeStep, FreeSmallStep DEF Free
<1> QED
  BY <1>1, <1>2, <1>3 DEF MemoryNext, Next


\* The heap's lists, arenas, pages and regions belong together in every state.
THEOREM HeapSpecInv == MemorySpec => []HeapInv
<1>1. MemoryInit => HeapInv
  <2> SUFFICES ASSUME MemoryInit PROVE HeapInv
    OBVIOUS
  <2> DEFINE F == [d \in Descs |-> {}]
  <2>1. /\ taken \subseteq {PageCount} /\ arenas = <<>> /\ DOMAIN arenas = {}
        /\ links = ListInit(Descs) /\ held = {} /\ panic = "none"
    BY DEF MemoryInit, Init
  <2>2. Listing(links, F)
    BY <2>1, ListingInit
  <2>3. PagesSound(taken, arenas)
    <3>1. IsFcn(arenas)
      BY <2>1 DEF IsFcn
    <3>2. taken \subseteq 0..PageCount /\ taken \cap Pages = {}
      BY <2>1, SizeFacts DEF Pages
    <3> QED
      BY <2>1, <3>1, <3>2 DEF PagesSound
  <2>4. HeldSound(arenas, held)
    BY <2>1 DEF HeldSound
  <2>5. FreeSound(arenas, held, F)
    <3>1. IsFcn(F) /\ DOMAIN F = Descs /\ \A d \in Descs : F[d] = {}
      BY DEF IsFcn
    <3> HIDE DEF F
    <3> QED
      BY <2>1, <3>1, FS_EmptySet DEF FreeSound
  <2>6. NoneIdle(arenas, held)
    BY <2>1 DEF NoneIdle
  <2> HIDE DEF F
  <2> QED
    BY <2>1, <2>2, <2>3, <2>4, <2>5, <2>6 DEF HeapInv, Sound
<1>2. HeapInv /\ [MemoryNext]_<<vars, bootVars>> => HeapInv'
  <2>1. HeapInv /\ UNCHANGED <<vars, bootVars>> => HeapInv'
    BY DEF vars, HeapInv, NoneIdle
  <2> QED
    BY <2>1, HeapStep
<1> QED
  BY <1>1, <1>2, PTL DEF MemorySpec

\* What a caller may write lies in the pages of its arena, and in its block.
LEMMA RegionIs ==
    ASSUME NEW T, NEW A, NEW H, NEW F, Sound(T, A, H, F), NEW h \in H,
           NEW u \in h.addr..h.addr + h.size - 1
    PROVE  /\ PageOf(h.addr) \in DOMAIN A
           /\ PageOf(u) \in ExtentIn(A, PageOf(h.addr))
           /\ A[PageOf(h.addr)].desc # 0 => u \in Units(h.addr, A[PageOf(h.addr)].desc)
           /\ u \in Nat
<1> DEFINE a == PageOf(h.addr)
<1>1. /\ h.addr \in Nat /\ h.size \in Nat \ {0} /\ a \in DOMAIN A
      /\ A[a].desc = 0 => /\ h.addr = a * PageUnits + HeaderUnits
                         /\ HeaderUnits + h.size <= A[a].cnt * PageUnits
      /\ A[a].desc # 0 => /\ h.addr \in Range(Blocks(a, A[a].desc))
                         /\ h.size <= BlockSizes[A[a].desc]
  BY DEF Sound, HeldSound, FitsIn, Regions
<1>2. a \in Nat /\ A[a].desc \in Descs \cup {0} /\ A[a].cnt \in Nat
  BY <1>1, SizeFacts DEF Sound, PagesSound, ArenaRecords, Pages
<1>3. u \in Nat
  BY <1>1
<1> HIDE DEF a
<1>4. CASE A[a].desc = 0
  <2>1. PageOf(u) \in a..a + A[a].cnt - 1
    BY <1>1, <1>2, <1>4, LargeIs
  <2> QED
    BY <1>1, <1>3, <1>4, <2>1 DEF ExtentIn, PagesOf, a
<1>5. CASE A[a].desc # 0
  <2> DEFINE d == A[a].desc
  <2>1. d \in Descs /\ BlockSizes[d] \in Nat
    BY <1>2, <1>5, SizeFacts
  <2>2. h.addr \in Range(Blocks(a, d)) /\ h.size <= BlockSizes[d]
    BY <1>1, <1>5
  <2> HIDE DEF d
  <2>3. u \in Units(h.addr, d)
    BY <1>1, <2>1, <2>2 DEF Units
  <2>4. PageOf(u) = a
    BY <1>2, <2>1, <2>2, <2>3, BlockSetFacts
  <2> QED
    BY <1>1, <1>3, <1>5, <2>3, <2>4 DEF ExtentIn, PagesOf, a, d
<1> QED
  BY <1>4, <1>5

\* Regions at different addresses share no unit.
LEMMA RegionsApart ==
    ASSUME NEW T, NEW A, NEW H, NEW F, Sound(T, A, H, F), NEW g \in H, NEW h \in H,
           g.addr # h.addr
    PROVE  (g.addr..g.addr + g.size - 1) \cap (h.addr..h.addr + h.size - 1) = {}
<1> SUFFICES ASSUME NEW u \in g.addr..g.addr + g.size - 1, u \in h.addr..h.addr + h.size - 1
             PROVE  FALSE
  OBVIOUS
<1> DEFINE a == PageOf(g.addr)
<1>1. /\ a \in DOMAIN A /\ PageOf(h.addr) \in DOMAIN A
      /\ PageOf(u) \in ExtentIn(A, a) /\ PageOf(u) \in ExtentIn(A, PageOf(h.addr))
      /\ A[a].desc # 0 => u \in Units(g.addr, A[a].desc)
      /\ A[PageOf(h.addr)].desc # 0 => u \in Units(h.addr, A[PageOf(h.addr)].desc)
  BY RegionIs
<1>2. PageOf(h.addr) = a
  BY <1>1 DEF Sound, PagesSound
<1>3. FitsIn(g, A) /\ FitsIn(h, A)
  BY DEF Sound, HeldSound
<1>4. A[a].desc # 0
  <2>1. SUFFICES ASSUME A[a].desc = 0 PROVE FALSE
    OBVIOUS
  <2>2. g.addr = a * PageUnits + HeaderUnits /\ h.addr = a * PageUnits + HeaderUnits
    BY <1>2, <1>3, <2>1 DEF FitsIn
  <2> QED
    BY <2>2
<1>5. a \in Nat /\ A[a].desc \in Descs
  BY <1>1, <1>4, SizeFacts DEF Sound, PagesSound, ArenaRecords, Pages
<1>6. g.addr \in Range(Blocks(a, A[a].desc)) /\ h.addr \in Range(Blocks(a, A[a].desc))
  BY <1>2, <1>3, <1>4 DEF FitsIn
<1>7. u \in Units(g.addr, A[a].desc) /\ u \in Units(h.addr, A[a].desc)
  BY <1>1, <1>2, <1>4
<1> QED
  BY <1>5, <1>6, <1>7, BlockSetFacts

\* A region ends before the space does.
LEMMA RegionEnds ==
    ASSUME NEW T, NEW A, NEW H, NEW F, Sound(T, A, H, F), NEW h \in H
    PROVE  /\ h.addr \in 0..Space - 1 /\ h.size \in 1..Space
           /\ h.addr + h.size <= Space
<1> DEFINE u == h.addr + h.size - 1
<1>1. /\ h.addr \in Nat /\ h.size \in Nat \ {0} /\ u \in Nat
      /\ u \in h.addr..h.addr + h.size - 1
  BY DEF Sound, HeldSound, FitsIn, Regions
<1>2. PageOf(u) \in 0..PageCount
  <2> HIDE DEF u
  <2>1. PageOf(h.addr) \in DOMAIN A /\ PageOf(u) \in ExtentIn(A, PageOf(h.addr))
    BY <1>1, RegionIs
  <2> QED
    BY <2>1 DEF Sound, PagesSound
<1>3. PageUnits \in Nat /\ PageUnits > 0 /\ PageCount \in Nat
  BY SizeFacts
<1>4. u < (PageCount + 1) * PageUnits
  <2> HIDE DEF u
  <2>1. SUFFICES ASSUME u >= (PageCount + 1) * PageUnits PROVE FALSE
    BY <1>1, <1>3
  <2>2. u \div PageUnits >= PageCount + 1
    <3>1. PageCount + 1 \in Nat
      BY <1>3
    <3> QED
      BY <1>1, <1>3, <2>1, <3>1, DivBounds
  <2> QED
    BY <1>2, <1>3, <2>2 DEF PageOf
<1> DEFINE x == (PageCount + 1) * PageUnits
<1>5. x \in Nat
  BY <1>3
<1>6. u < x
  BY <1>4
<1> HIDE DEF x
<1>7. h.addr \in 0..x - 1 /\ h.size \in 1..x /\ h.addr + h.size <= x
  BY <1>1, <1>5, <1>6
<1> QED
  BY <1>7 DEF x, Space


\* Regions handed out by sys_malloc overlap no region that is held, whatever has
\* been split, freed and reused before: the heap implements HeapSpec.
THEOREM ImplementsHeapHolds == MemorySpec => ImplementsHeap
<1>1. MemoryInit => Heap!Init
  BY DEF MemoryInit, Init, Heap!Init
<1>2. HeapInv /\ HeapInv' /\ [MemoryNext]_<<vars, bootVars>> => [Heap!Next]_held
  <2> SUFFICES ASSUME HeapInv, HeapInv', [MemoryNext]_<<vars, bootVars>>
               PROVE  [Heap!Next]_held
    OBVIOUS
  <2>1. held' = held \/ HeldStep
    BY HeapStep DEF vars
  <2>2. ASSUME NEW h \in held, held' = held \ {h}
        PROVE  Heap!Next
    BY <2>2 DEF Heap!Next, Heap!Release
  <2>3. ASSUME NEW h, \A g \in held : g.addr # h.addr, held' = held \cup {h}
        PROVE  Heap!Next
    <3>1. PICK F : Sound(taken', arenas', held', F)
      BY DEF HeapInv
    <3>2. h \in held' /\ \A g \in held : g \in held'
      BY <2>3
    <3>3. /\ h.addr \in 0..Space - 1 /\ h.size \in 1..Space
          /\ h.addr + h.size <= Space
      BY <3>1, <3>2, RegionEnds
    <3>4. \A g \in held : (g.addr..g.addr + g.size - 1) \cap (h.addr..h.addr + h.size - 1) = {}
      BY <2>3, <3>1, <3>2, RegionsApart
    <3>5. h = [addr |-> h.addr, size |-> h.size]
      BY <3>1, <3>2 DEF Sound, HeldSound, FitsIn, Regions
    <3>6. Heap!Alloc(h)
      BY <2>3, <3>3, <3>4 DEF Heap!Alloc, Heap!Region
    <3>7. Heap!Alloc([addr |-> h.addr, size |-> h.size])
      BY <3>5, <3>6
    <3> QED
      BY <3>3, <3>7 DEF Heap!Next
  <2> QED
    BY <2>1, <2>2, <2>3 DEF HeldStep
<1> QED
  BY <1>1, <1>2, HeapSpecInv, PTL DEF MemorySpec, ImplementsHeap, Heap!Spec

\* The free lists hold the free blocks and nothing else, each once and the same in
\* both directions; cnt counts those of an arena; none of the ASSERTs that
\* elem_find guards in sys_malloc and sys_free fails (memory.c:381, 470).
THEOREM ArenasAgreeHolds == MemorySpec => []ArenasAgree
<1>1. HeapInv => ArenasAgree
  <2> SUFFICES ASSUME HeapInv PROVE ArenasAgree
    OBVIOUS
  <2>1. PICK F : Listing(links, F) /\ Sound(taken, arenas, held, F)
    BY DEF HeapInv
  <2>2. /\ \A d \in Descs : /\ Range(Listed(links, d)) = F[d]
                            /\ IsInjective(Listed(links, d))
        /\ Linked(links, Descs)
    BY <2>1, ListingListed
  <2>3. \A d \in Descs : free_list[d] = Listed(links, d)
    BY DEF free_list
  <2>4. 0 \notin Descs
    BY DescFacts
  <2>5. ASSUME NEW a \in SmallArenas
        PROVE  LET d == arenas[a].desc
                   listed == {b \in Range(free_list[d]) : PageOf(b) = a}
               IN  /\ listed \cup {h.addr : h \in HeldIn(a)} = Range(Blocks(a, d))
                   /\ listed \cap {h.addr : h \in HeldIn(a)} = {}
                   /\ arenas[a].cnt = Cardinality(listed)
                   /\ HeldIn(a) # {}
    <3> DEFINE d == arenas[a].desc
               X == FreeIn(F, d, a)
               Y == {h.addr : h \in HeldIn(a)}
               S == Range(Blocks(a, d))
    <3>1. a \in DOMAIN arenas /\ d # 0 /\ d \in Descs /\ a \in Nat
      BY <2>1, SizeFacts DEF SmallArenas, Sound, PagesSound, ArenaRecords, Pages
    <3>2. {b \in Range(free_list[d]) : PageOf(b) = a} = X
      BY <2>2, <2>3, <3>1 DEF FreeIn
    <3>3. CountsFree(a, arenas, held, F)
      BY <2>1, <3>1 DEF Sound, FreeSound
    <3>4. \A b \in X : IsFree(b, d, arenas, held) /\ PageOf(b) = a
      BY <2>1, <3>1 DEF Sound, FreeSound, FreeIn
    <3>5. \A b \in S : PageOf(b) = a
      BY <3>1, BlockSetFacts
    <3>6. Y \subseteq S
      <4>1. \A h \in HeldIn(a) : h.addr \in S
        BY <2>1, <3>1 DEF HeldIn, Sound, HeldSound, FitsIn
      <4> QED
        BY <4>1
    <3>7. X \subseteq S
      BY <3>4 DEF IsFree
    <3>8. S \subseteq X \cup Y
      <4>1. ASSUME NEW b \in S, b \notin F[d] PROVE b \in Y
        <5>1. PICK h \in held : h.addr = b
          BY <3>3, <4>1 DEF CountsFree
        <5>2. h \in HeldIn(a)
          BY <3>5, <5>1 DEF HeldIn
        <5> QED
          BY <5>1, <5>2
      <4>2. ASSUME NEW b \in S, b \in F[d] PROVE b \in X
        BY <3>5, <4>2 DEF FreeIn
      <4> QED
        BY <4>1, <4>2
    <3>9. X \cap Y = {}
      BY <3>4 DEF IsFree, HeldIn
    <3>10. HeldIn(a) # {}
      BY <3>1 DEF HeapInv, NoneIdle, HeldIn
    <3>11. arenas[a].cnt = Cardinality(X)
      BY <3>3 DEF CountsFree
    <3> HIDE DEF X, Y, S
    <3>12. X \cup Y = S
      BY <3>6, <3>7, <3>8
    <3> QED
      BY <3>2, <3>9, <3>10, <3>11, <3>12 DEF Y, S
  <2>6. ASSUME NEW d \in Descs
        PROVE  /\ IsInjective(free_list[d])
               /\ \A b \in Range(free_list[d]) :
                     PageOf(b) \in SmallArenas /\ arenas[PageOf(b)].desc = d
    <3>1. \A b \in F[d] : IsFree(b, d, arenas, held)
      BY <2>1 DEF Sound, FreeSound
    <3>2. d # 0
      BY <2>4
    <3> QED
      BY <2>2, <2>3, <3>1, <3>2 DEF IsFree, SmallArenas
  <2> QED
    BY <2>2, <2>5, <2>6 DEF ArenasAgree, HeapInv
<1> QED
  BY <1>1, HeapSpecInv, PTL

\* The bitmap marks the pages of live arenas and no others, no page is in two of
\* them, and what a caller may write is in one of them, behind its header.
THEOREM PagesAgreeHolds == MemorySpec => []PagesAgree
<1>1. HeapInv => PagesAgree
  <2> SUFFICES ASSUME HeapInv PROVE PagesAgree
    OBVIOUS
  <2>1. PICK F : Sound(taken, arenas, held, F)
    BY DEF HeapInv
  <2>2. \A a \in DOMAIN arenas : Extent(a) = ExtentIn(arenas, a)
    BY DEF Extent, ExtentIn, PagesOf
  <2>3. taken \cap Pages = Pages \cap UNION {Extent(a) : a \in DOMAIN arenas}
    <3> DEFINE U == UNION {Extent(a) : a \in DOMAIN arenas}
    <3>1. \A p : p \in U <=> \E a \in DOMAIN arenas : p \in ExtentIn(arenas, a)
      BY <2>2
    <3> HIDE DEF U
    <3>2. \A a \in DOMAIN arenas : ExtentIn(arenas, a) \subseteq taken
      BY <2>1 DEF Sound, PagesSound
    <3>3. \A p \in taken \cap Pages : \E a \in DOMAIN arenas : p \in ExtentIn(arenas, a)
      BY <2>1 DEF Sound, PagesSound
    <3>4. taken \cap Pages = Pages \cap U
      BY <3>1, <3>2, <3>3
    <3> QED
      BY <3>4 DEF U
  <2>4. \A a, b \in DOMAIN arenas : a # b => Extent(a) \cap Extent(b) = {}
    BY <2>1, <2>2 DEF Sound, PagesSound
  <2>5. held = {} => taken \cap Pages = {}
    <3>1. held = {} => DOMAIN arenas = {}
      BY DEF HeapInv, NoneIdle
    <3> QED
      BY <2>3, <3>1
  <2>6. ASSUME NEW h \in held
        PROVE  \E a \in DOMAIN arenas :
                  /\ h.addr >= a * PageUnits + HeaderUnits
                  /\ \A u \in h.addr..h.addr + h.size - 1 : PageOf(u) \in Extent(a)
    <3> DEFINE a == PageOf(h.addr)
    <3>1. FitsIn(h, arenas) /\ a \in DOMAIN arenas
      BY <2>1 DEF Sound, HeldSound, FitsIn
    <3>2. h.addr >= a * PageUnits + HeaderUnits
      <4>1. a \in Nat /\ arenas[a].desc \in Descs \cup {0} /\ h.addr \in Nat
        BY <2>1, <3>1, SizeFacts DEF Sound, PagesSound, ArenaRecords, Pages, FitsIn, Regions
      <4>2. CASE arenas[a].desc = 0
        <5>1. h.addr = a * PageUnits + HeaderUnits
          BY <3>1, <4>2 DEF FitsIn
        <5> QED
          BY <4>1, <5>1
      <4>3. CASE arenas[a].desc # 0
        <5>1. arenas[a].desc \in Descs /\ h.addr \in Range(Blocks(a, arenas[a].desc))
          BY <3>1, <4>1, <4>3 DEF FitsIn
        <5> HIDE DEF a
        <5> QED
          BY <4>1, <5>1, BlockSetFacts
      <4> QED
        BY <4>2, <4>3
    <3>3. \A u \in h.addr..h.addr + h.size - 1 : PageOf(u) \in Extent(a)
      BY <2>1, <2>2, RegionIs
    <3> HIDE DEF a
    <3> QED
      BY <3>1, <3>2, <3>3
  <2> QED
    BY <2>3, <2>4, <2>5, <2>6 DEF PagesAgree
<1> QED
  BY <1>1, HeapSpecInv, PTL

=============================================================================
