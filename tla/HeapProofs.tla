----------------------------- MODULE HeapProofs -----------------------------
(***************************************************************************)
(* Proofs about module Heap, for every size of the heap, of headers and of *)
(* requests, and every alignment.                                          *)
(***************************************************************************)
EXTENDS Heap, NaturalsInduction, WellFoundedInduction, TLAPS

(***************************************************************************)
(* The remainder, a name the provers need not look behind.                 *)
(***************************************************************************)
Aligned(x) == x % ALIGN = 0

Blocks == [addr : Nat, size : Nat, is_free : BOOLEAN]

Sound(b) == b \in Blocks /\ b.size >= HEADER_SIZE + ALIGN /\ Aligned(b.addr) /\ Aligned(b.size)

(***************************************************************************)
(* Blocks that follow each other without a gap from the start of the heap  *)
(* to the address e.                                                       *)
(***************************************************************************)
Tiling(bs, e) ==
    /\ bs \in Seq(Blocks) /\ Len(bs) >= 1
    /\ bs[1].addr = HeapStart
    /\ \A i \in 1..(Len(bs) - 1) : EndOf(bs[i]) = bs[i + 1].addr
    /\ EndOf(bs[Len(bs)]) = e
    /\ \A i \in 1..Len(bs) : Sound(bs[i])

(***************************************************************************)
(* No two free blocks are neighbours.                                      *)
(***************************************************************************)
Merged(bs) == \A i \in 1..(Len(bs) - 1) : ~(bs[i].is_free /\ bs[i + 1].is_free)

UsedBlocks(bs) == {bs[i] : i \in {j \in 1..Len(bs) : ~bs[j].is_free}}

Numbers ==
    /\ HEAP_SIZE \in Nat \ {0} /\ HEADER_SIZE \in Nat \ {0} /\ ALIGN \in Nat \ {0} /\ SPLIT \in Nat \ {0}
    /\ HEADER_SIZE < HEAP_SIZE /\ Sizes \subseteq Nat
    /\ HeapStart = ALIGN /\ HeapEnd = HeapStart + HEAP_SIZE

-----------------------------------------------------------------------------
(***************************************************************************)
(* Induction, for the set of the numbers that have the property.           *)
(***************************************************************************)
LEMMA SetInduction ==
    ASSUME NEW S, 0 \in S, \A n \in Nat : n \in S => n + 1 \in S
    PROVE  Nat \subseteq S
<1> DEFINE R == {ss \in Nat \X Nat : ss[1] < ss[2]}
           T == Nat \ S
<1>1. IsWellFoundedOn(R, Nat)
  BY NatLessThanWellFounded, Zenon DEF OpToRel
<1>2. \A x, y \in Nat : x < y => <<x, y>> \in R
  OBVIOUS
<1> HIDE DEF R
<1>3. SUFFICES ASSUME T # {} PROVE FALSE
  OBVIOUS
<1>4. PICK x \in T : \A y \in T : ~ (<<y, x>> \in R)
  <2> HIDE DEF T
  <2>1. T \subseteq Nat
    BY DEF T
  <2> QED BY <1>1, <1>3, <2>1, WFMin
<1>5. x \in Nat /\ x # 0
  OBVIOUS
<1>6. x - 1 \in Nat /\ x - 1 < x /\ x - 1 + 1 = x
  BY <1>5
<1>7. x - 1 \notin T
  BY <1>2, <1>4, <1>5, <1>6
<1> QED BY <1>5, <1>6, <1>7

(***************************************************************************)
(* Multiples of ALIGN.                                                     *)
(***************************************************************************)
LEMMA NumbersHold == Numbers /\ Aligned(HEAP_SIZE) /\ Aligned(HEADER_SIZE)
  BY HeapAssumption DEF HeapAssumption, Numbers, Aligned, HeapStart, HeapEnd

LEMMA AlignedIs ==
    ASSUME NEW x \in Int
    PROVE  Aligned(x) <=> \E k \in Int : x = k * ALIGN
<1> ALIGN \in Nat \ {0}
  BY NumbersHold DEF Numbers
<1>1. x = (x \div ALIGN) * ALIGN + (x % ALIGN) /\ x \div ALIGN \in Int /\ x % ALIGN \in 0..(ALIGN - 1)
  OBVIOUS
<1>2. ASSUME NEW k \in Int, x = k * ALIGN
      PROVE  x % ALIGN = 0
  <2>1. PICK q \in Int, r \in 0..(ALIGN - 1) : x = q * ALIGN + r /\ r = x % ALIGN
    BY <1>1
  <2>2. r = (k - q) * ALIGN /\ k - q \in Int
    <3>1. (k - q) * ALIGN = k * ALIGN - q * ALIGN
      OBVIOUS
    <3>2. k * ALIGN \in Int /\ q * ALIGN \in Int
      OBVIOUS
    <3>3. k * ALIGN = q * ALIGN + r
      BY <1>2, <2>1
    <3>4. r = k * ALIGN - q * ALIGN
      BY <3>2, <3>3
    <3> QED BY <3>1, <3>4
  <2>3. \A d \in Int : (d >= 1 => d * ALIGN >= ALIGN) /\ (d <= -1 => d * ALIGN < 0)
    OBVIOUS
  <2>4. ~(k - q >= 1) /\ ~(k - q <= -1)
    <3>1. PICK d \in Int : d = k - q
      OBVIOUS
    <3>2. (d >= 1 => d * ALIGN >= ALIGN) /\ (d <= -1 => d * ALIGN < 0)
      BY <2>3
    <3>3. r = d * ALIGN
      BY <2>2, <3>1
    <3> QED BY <3>1, <3>2, <3>3
  <2>5. k - q = 0
    BY <2>2, <2>4
  <2>6. r = 0
    BY <2>2, <2>5
  <2> QED BY <2>1, <2>6
<1>3. Aligned(x) => \E k \in Int : x = k * ALIGN
  <2> SUFFICES ASSUME x % ALIGN = 0 PROVE x = (x \div ALIGN) * ALIGN
    BY <1>1 DEF Aligned
  <2> QED BY <1>1
<1> QED BY <1>2, <1>3 DEF Aligned

LEMMA AlignedSums ==
    /\ Aligned(ALIGN)
    /\ \A x, y \in Int : Aligned(x) /\ Aligned(y) => Aligned(x + y) /\ Aligned(x - y)
    /\ \A x \in Nat \ {0} : Aligned(x) => x >= ALIGN
<1>0. ALIGN \in Nat \ {0}
  BY NumbersHold DEF Numbers
<1>1. Aligned(ALIGN)
  <2>1. ALIGN = 1 * ALIGN
    BY <1>0
  <2> QED BY <1>0, <2>1, AlignedIs
<1>2. ASSUME NEW x \in Int, NEW y \in Int, Aligned(x), Aligned(y)
      PROVE  Aligned(x + y) /\ Aligned(x - y)
  <2>1. PICK k \in Int : x = k * ALIGN
    BY <1>2, AlignedIs
  <2>2. PICK m \in Int : y = m * ALIGN
    BY <1>2, AlignedIs
  <2>3. x + y = (k + m) * ALIGN /\ x - y = (k - m) * ALIGN
    BY <1>0, <2>1, <2>2
  <2> QED BY <2>3, AlignedIs
<1>3. ASSUME NEW x \in Nat \ {0}, Aligned(x)
      PROVE  x >= ALIGN
  <2>1. PICK k \in Int : x = k * ALIGN
    BY <1>3, AlignedIs
  <2>2. k >= 1
    BY <1>0, <2>1
  <2> QED BY <1>0, <2>1, <2>2
<1> QED BY <1>1, <1>2, <1>3

(***************************************************************************)
(* What kmalloc asks for is aligned and has room for header and payload.   *)
(***************************************************************************)
LEMMA NeedIs ==
    ASSUME NEW size \in Nat
    PROVE  /\ Need(size) \in Nat /\ Aligned(Need(size))
           /\ Need(size) >= HEADER_SIZE + ALIGN
           /\ Need(size) >= HEADER_SIZE + size
<1>0. HEADER_SIZE \in Nat /\ ALIGN \in Nat \ {0} /\ Aligned(HEADER_SIZE)
  BY NumbersHold DEF Numbers
<1>1. ASSUME NEW x \in Nat
      PROVE  AlignUp(x) \in Nat /\ AlignUp(x) >= x /\ Aligned(AlignUp(x))
  <2>1. PICK q \in Int : q = (x + ALIGN - 1) \div ALIGN
    BY <1>0
  <2>2. (x + ALIGN - 1) \div ALIGN \in Int
        /\ x + ALIGN - 1 = ((x + ALIGN - 1) \div ALIGN) * ALIGN + ((x + ALIGN - 1) % ALIGN)
        /\ (x + ALIGN - 1) % ALIGN \in 0..(ALIGN - 1)
    BY <1>0
  <2>3. AlignUp(x) = q * ALIGN
    BY <2>1 DEF AlignUp
  <2>4. q * ALIGN \in Int /\ q * ALIGN >= x
    BY <1>0, <2>1, <2>2
  <2> QED BY <2>3, <2>4, AlignedIs
<1>2. Aligned(HEADER_SIZE + ALIGN)
  BY <1>0, AlignedSums
<1> HIDE DEF AlignUp
<1>3. PICK n \in Nat : n = AlignUp(size + HEADER_SIZE) /\ n >= size + HEADER_SIZE /\ Aligned(n)
  BY <1>0, <1>1
<1> QED BY <1>0, <1>2, <1>3 DEF Need

-----------------------------------------------------------------------------
(***************************************************************************)
(* The blocks of a tiling, as the provers need to see them.                *)
(***************************************************************************)
LEMMA TilingFacts ==
    ASSUME NEW bs, NEW e, Tiling(bs, e)
    PROVE  /\ Len(bs) \in Nat /\ Len(bs) >= 1 /\ DOMAIN bs = 1..Len(bs) /\ bs \in Seq(Blocks)
           /\ \A i \in 1..Len(bs) : /\ bs[i] \in Blocks /\ Sound(bs[i])
                                    /\ bs[i].addr \in Nat /\ bs[i].size \in Nat
                                    /\ bs[i].is_free \in BOOLEAN
                                    /\ bs[i].size > 0
                                    /\ EndOf(bs[i]) \in Nat /\ EndOf(bs[i]) > bs[i].addr
<1>1. bs \in Seq(Blocks) /\ Len(bs) \in Nat /\ Len(bs) >= 1 /\ DOMAIN bs = 1..Len(bs)
  BY DEF Tiling
<1>2. ASSUME NEW i \in 1..Len(bs)
      PROVE  /\ bs[i] \in Blocks /\ Sound(bs[i])
             /\ bs[i].addr \in Nat /\ bs[i].size \in Nat /\ bs[i].is_free \in BOOLEAN
             /\ bs[i].size > 0 /\ EndOf(bs[i]) \in Nat /\ EndOf(bs[i]) > bs[i].addr
  <2>1. PICK b : b = bs[i]
    OBVIOUS
  <2>2. Sound(b) /\ b \in Blocks
    BY <2>1, <1>2 DEF Tiling, Sound
  <2>3. b.addr \in Nat /\ b.size \in Nat /\ b.is_free \in BOOLEAN
    BY <2>2 DEF Blocks
  <2>4. b.size > 0
    BY <2>2, <2>3, NumbersHold DEF Sound, Numbers
  <2>5. EndOf(b) \in Nat /\ EndOf(b) > b.addr
    BY <2>3, <2>4 DEF EndOf
  <2> QED BY <2>1, <2>2, <2>3, <2>4, <2>5
<1> QED BY <1>1, <1>2

(***************************************************************************)
(* Along the list the addresses grow, so a block is known by its address.  *)
(***************************************************************************)
LEMMA Ascending ==
    ASSUME NEW bs, NEW e, Tiling(bs, e)
    PROVE  \A j \in 1..Len(bs) : \A i \in 1..(j - 1) : EndOf(bs[i]) <= bs[j].addr
<1> DEFINE S == {j \in Nat : j \in 1..Len(bs) => \A i \in 1..(j - 1) : EndOf(bs[i]) <= bs[j].addr}
<1>0. /\ Len(bs) \in Nat
      /\ \A i \in 1..Len(bs) : /\ bs[i].addr \in Nat /\ EndOf(bs[i]) \in Nat
                               /\ EndOf(bs[i]) > bs[i].addr
  BY TilingFacts
<1>1. \A i \in 1..(Len(bs) - 1) : EndOf(bs[i]) = bs[i + 1].addr
  BY DEF Tiling
<1>2. 0 \in S
  OBVIOUS
<1>3. ASSUME NEW j \in Nat, j \in S
      PROVE  j + 1 \in S
  <2> SUFFICES ASSUME j + 1 \in 1..Len(bs), NEW i \in 1..j
               PROVE  EndOf(bs[i]) <= bs[j + 1].addr
    OBVIOUS
  <2>1. i \in 1..Len(bs) /\ j \in 1..Len(bs) /\ j \in 1..(Len(bs) - 1)
    BY <1>0
  <2>2. EndOf(bs[j]) = bs[j + 1].addr
    BY <1>1, <2>1
  <2>3. CASE i = j
    BY <1>0, <2>1, <2>2, <2>3
  <2>4. CASE i # j
    <3>1. i \in 1..(j - 1)
      BY <2>4
    <3>2. EndOf(bs[i]) <= bs[j].addr
      BY <1>3, <2>1, <3>1
    <3> QED BY <1>0, <2>1, <2>2, <3>2
  <2> QED BY <2>3, <2>4
<1>4. Nat \subseteq S
  <2> HIDE DEF S
  <2> QED BY <1>2, <1>3, SetInduction
<1> QED BY <1>0, <1>4

LEMMA ByAddress ==
    ASSUME NEW bs, NEW e, Tiling(bs, e), NEW i \in 1..Len(bs), NEW j \in 1..Len(bs)
    PROVE  /\ bs[i].addr = bs[j].addr => i = j
           /\ i = j \/ EndOf(bs[i]) <= bs[j].addr \/ EndOf(bs[j]) <= bs[i].addr
<1>0. /\ Len(bs) \in Nat
      /\ \A k \in 1..Len(bs) : /\ bs[k].addr \in Nat /\ EndOf(bs[k]) \in Nat
                               /\ EndOf(bs[k]) > bs[k].addr
  BY TilingFacts
<1>1. i < j => EndOf(bs[i]) <= bs[j].addr
  BY <1>0, Ascending
<1>2. j < i => EndOf(bs[j]) <= bs[i].addr
  BY <1>0, Ascending
<1> QED BY <1>0, <1>1, <1>2

-----------------------------------------------------------------------------
(***************************************************************************)
(* merge_all.  The walk is a recursive function; that there is one that    *)
(* satisfies its equation is shown by induction over its length.           *)
(***************************************************************************)
Walk(m, bs, n) == m = [k \in 0..n |-> IF k = 0 THEN << >> ELSE Absorb(m[k - 1], bs[k])]

LEMMA WalkExists ==
    ASSUME NEW bs, NEW n \in Nat
    PROVE  \E m : Walk(m, bs, n)
<1> DEFINE S == {k \in Nat : \E m : Walk(m, bs, k)}
<1>1. 0 \in S
  <2> DEFINE m == [k \in 0..0 |-> << >>]
  <2>1. m = [k \in 0..0 |-> IF k = 0 THEN << >> ELSE Absorb(m[k - 1], bs[k])]
    OBVIOUS
  <2>2. Walk(m, bs, 0)
    BY <2>1 DEF Walk
  <2> HIDE DEF m
  <2> QED BY <2>2
<1>2. ASSUME NEW k \in Nat, k \in S
      PROVE  k + 1 \in S
  <2>1. PICK m : Walk(m, bs, k)
    BY <1>2
  <2> DEFINE g == [j \in 0..(k + 1) |-> IF j <= k THEN m[j] ELSE Absorb(m[k], bs[k + 1])]
  <2>2. \A j \in 0..k : m[j] = IF j = 0 THEN << >> ELSE Absorb(m[j - 1], bs[j])
    BY <2>1 DEF Walk
  <2>3. ASSUME NEW j \in 0..(k + 1)
        PROVE  g[j] = IF j = 0 THEN << >> ELSE Absorb(g[j - 1], bs[j])
    <3>1. CASE j = 0
      BY <2>2, <3>1
    <3>2. CASE j # 0 /\ j <= k
      BY <2>2, <3>2
    <3>3. CASE j = k + 1
      BY <3>3
    <3> QED BY <3>1, <3>2, <3>3
  <2>4. Walk(g, bs, k + 1)
    <3>1. g = [j \in 0..(k + 1) |-> g[j]]
      OBVIOUS
    <3> HIDE DEF g
    <3> QED BY <2>3, <3>1 DEF Walk
  <2> HIDE DEF g
  <2> QED BY <2>4
<1>3. Nat \subseteq S
  <2> HIDE DEF S
  <2> QED BY <1>1, <1>2, SetInduction
<1> QED BY <1>3

LEMMA MergeWalk ==
    ASSUME NEW bs, Len(bs) \in Nat
    PROVE  \E m : /\ MergeAll(bs) = m[Len(bs)]
                  /\ m[0] = << >>
                  /\ \A k \in 1..Len(bs) : m[k] = Absorb(m[k - 1], bs[k])
<1> DEFINE merged == CHOOSE m : m = [k \in 0..Len(bs) |-> IF k = 0 THEN << >>
                                                       ELSE Absorb(m[k - 1], bs[k])]
<1>1. MergeAll(bs) = merged[Len(bs)]
  BY DEF MergeAll
<1>2. PICK m : Walk(m, bs, Len(bs))
  BY WalkExists
<1>3. merged = [k \in 0..Len(bs) |-> IF k = 0 THEN << >> ELSE Absorb(merged[k - 1], bs[k])]
  BY <1>2 DEF Walk
<1> HIDE DEF merged
<1>4. /\ merged[0] = << >>
      /\ \A k \in 1..Len(bs) : merged[k] = Absorb(merged[k - 1], bs[k])
  BY <1>3
<1> QED BY <1>1, <1>4

(***************************************************************************)
(* One step of the walk.  Left says what it has made of the blocks so far: *)
(* the same ground in the same order, every used block as it was, and no   *)
(* two free neighbours.                                                    *)
(***************************************************************************)
Left(s, e, f, used) ==
    /\ Tiling(s, e) /\ Merged(s)
    /\ s[Len(s)].is_free = f
    /\ UsedBlocks(s) = used

LEMMA AppendBlock ==
    ASSUME NEW s, NEW b, Tiling(s, b.addr), Merged(s), Sound(b), ~(s[Len(s)].is_free /\ b.is_free)
    PROVE  Left(Append(s, b), EndOf(b), b.is_free,
                UsedBlocks(s) \cup IF b.is_free THEN {} ELSE {b})
<1>0. /\ s \in Seq(Blocks) /\ Len(s) \in Nat /\ Len(s) >= 1
      /\ \A i \in 1..Len(s) : Sound(s[i])
      /\ s[1].addr = HeapStart /\ EndOf(s[Len(s)]) = b.addr
      /\ \A i \in 1..(Len(s) - 1) : EndOf(s[i]) = s[i + 1].addr
  BY TilingFacts DEF Tiling
<1>1. b \in Blocks
  BY DEF Sound
<1>2. PICK t : t = Append(s, b)
  OBVIOUS
<1>3. /\ t \in Seq(Blocks) /\ Len(t) = Len(s) + 1
      /\ t[Len(s) + 1] = b
      /\ \A i \in 1..Len(s) : t[i] = s[i]
  BY <1>0, <1>1, <1>2
<1>4. Tiling(t, EndOf(b))
  <2>1. ASSUME NEW i \in 1..(Len(t) - 1)
        PROVE  EndOf(t[i]) = t[i + 1].addr
    <3>1. CASE i = Len(s)
      BY <1>0, <1>3, <3>1
    <3>2. CASE i # Len(s)
      <4>1. i \in 1..(Len(s) - 1) /\ i \in 1..Len(s) /\ i + 1 \in 1..Len(s)
        BY <1>0, <1>3, <3>2
      <4> QED BY <1>0, <1>3, <4>1
    <3> QED BY <3>1, <3>2
  <2>2. ASSUME NEW i \in 1..Len(t)
        PROVE  Sound(t[i])
    <3>1. i = Len(s) + 1 \/ i \in 1..Len(s)
      BY <1>0, <1>3
    <3> QED BY <1>0, <1>3, <3>1
  <2>3. t[1].addr = HeapStart /\ EndOf(t[Len(t)]) = EndOf(b) /\ Len(t) >= 1
    BY <1>0, <1>3
  <2> QED BY <1>3, <2>1, <2>2, <2>3 DEF Tiling
<1>5. Merged(t)
  <2> SUFFICES ASSUME NEW i \in 1..(Len(t) - 1)
               PROVE  ~(t[i].is_free /\ t[i + 1].is_free)
    BY DEF Merged
  <2>1. CASE i = Len(s)
    BY <1>0, <1>3, <2>1
  <2>2. CASE i # Len(s)
    <3>1. i \in 1..(Len(s) - 1) /\ i \in 1..Len(s) /\ i + 1 \in 1..Len(s)
      BY <1>0, <1>3, <2>2
    <3> QED BY <1>3, <3>1 DEF Merged
  <2> QED BY <2>1, <2>2
<1>6. UsedBlocks(t) = UsedBlocks(s) \cup IF b.is_free THEN {} ELSE {b}
  <2>1. \A i : i \in 1..Len(t) <=> i \in 1..Len(s) \/ i = Len(s) + 1
    BY <1>0, <1>3
  <2>2. ASSUME NEW u
        PROVE  u \in UsedBlocks(t) <=> u \in UsedBlocks(s) \/ (u = b /\ ~b.is_free)
    BY <1>0, <1>3, <2>1 DEF UsedBlocks
  <2> QED BY <2>2
<1>7. t[Len(t)].is_free = b.is_free
  BY <1>3
<1> QED BY <1>2, <1>4, <1>5, <1>6, <1>7 DEF Left

LEMMA GrowLast ==
    ASSUME NEW s, NEW e, NEW c, Tiling(s, e), Merged(s), Sound(c),
           s[Len(s)].is_free, c.is_free, c.addr = s[Len(s)].addr
    PROVE  Left(Append(Front(s), c), EndOf(c), c.is_free, UsedBlocks(s))
<1>0. /\ s \in Seq(Blocks) /\ Len(s) \in Nat /\ Len(s) >= 1
      /\ \A i \in 1..Len(s) : Sound(s[i])
      /\ s[1].addr = HeapStart
      /\ \A i \in 1..(Len(s) - 1) : EndOf(s[i]) = s[i + 1].addr
  BY TilingFacts DEF Tiling
<1>1. c \in Blocks
  BY DEF Sound
<1>2. PICK t : t = Append(Front(s), c)
  OBVIOUS
<1>3. /\ t \in Seq(Blocks) /\ Len(t) = Len(s)
      /\ t[Len(s)] = c
      /\ \A i \in 1..(Len(s) - 1) : t[i] = s[i]
  <2>1. PICK r : r = SubSeq(s, 1, Len(s) - 1)
    OBVIOUS
  <2>2. /\ r \in Seq(Blocks) /\ Len(r) = Len(s) - 1
        /\ \A i \in 1..(Len(s) - 1) : r[i] = s[i]
    <3>1. PICK n \in Nat : n = Len(s) - 1 /\ n <= Len(s)
      <4>1. \A k \in Nat : k >= 1 => \E n \in Nat : n = k - 1 /\ n <= k
        OBVIOUS
      <4> QED BY ONLY <1>0, <4>1
    <3>2. r = SubSeq(s, 1, n)
      BY <2>1, <3>1
    <3>3. r \in Seq(Blocks) /\ Len(r) = n
      BY <1>0, <3>1, <3>2
    <3>4. \A i \in 1..n : r[i] = s[i]
      BY <1>0, <3>1, <3>2
    <3> QED BY <3>1, <3>3, <3>4
  <2>3. t = Append(r, c)
    BY <1>2, <2>1 DEF Front
  <2> QED BY <1>0, <1>1, <2>2, <2>3
<1>4. Tiling(t, EndOf(c))
  <2>1. ASSUME NEW i \in 1..(Len(t) - 1)
        PROVE  EndOf(t[i]) = t[i + 1].addr
    <3>1. CASE i = Len(s) - 1
      BY <1>0, <1>3, <3>1
    <3>2. CASE i # Len(s) - 1
      <4>1. i \in 1..(Len(s) - 1) /\ i + 1 \in 1..(Len(s) - 1)
        BY <1>0, <1>3, <3>2
      <4> QED BY <1>0, <1>3, <4>1
    <3> QED BY <3>1, <3>2
  <2>2. ASSUME NEW i \in 1..Len(t)
        PROVE  Sound(t[i])
    <3>1. i = Len(s) \/ i \in 1..(Len(s) - 1)
      BY <1>0, <1>3
    <3> QED BY <1>0, <1>3, <3>1
  <2>3. t[1].addr = HeapStart
    <3>1. CASE Len(s) = 1
      BY <1>0, <1>3, <3>1
    <3>2. CASE Len(s) # 1
      BY <1>0, <1>3, <3>2
    <3> QED BY <3>1, <3>2
  <2>4. EndOf(t[Len(t)]) = EndOf(c) /\ Len(t) >= 1
    BY <1>0, <1>3
  <2> QED BY <1>3, <2>1, <2>2, <2>3, <2>4 DEF Tiling
<1>5. Merged(t)
  <2> SUFFICES ASSUME NEW i \in 1..(Len(t) - 1)
               PROVE  ~(t[i].is_free /\ t[i + 1].is_free)
    BY DEF Merged
  <2>1. i \in 1..(Len(s) - 1) /\ ~(s[i].is_free /\ s[i + 1].is_free)
    BY <1>3 DEF Merged
  <2>2. CASE i = Len(s) - 1
    BY <1>0, <1>3, <2>1, <2>2
  <2>3. CASE i # Len(s) - 1
    <3>1. i + 1 \in 1..(Len(s) - 1)
      BY <1>0, <2>1, <2>3
    <3> QED BY <1>3, <2>1, <3>1
  <2> QED BY <2>2, <2>3
<1>6. UsedBlocks(t) = UsedBlocks(s)
  <2>1. \A i : i \in 1..Len(t) <=> i \in 1..(Len(s) - 1) \/ i = Len(s)
    BY <1>0, <1>3
  <2>2. \A i : i \in 1..Len(s) <=> i \in 1..(Len(s) - 1) \/ i = Len(s)
    BY <1>0
  <2>3. ASSUME NEW u
        PROVE  u \in UsedBlocks(t) <=> u \in UsedBlocks(s)
    BY <1>0, <1>3, <2>1, <2>2 DEF UsedBlocks
  <2> QED BY <2>3
<1>7. t[Len(t)].is_free = c.is_free
  BY <1>3
<1> QED BY <1>2, <1>4, <1>5, <1>6, <1>7 DEF Left

UsedUpTo(bs, n) == {bs[i] : i \in {j \in 1..n : ~bs[j].is_free}}

LEMMA MergeResult ==
    ASSUME NEW bs, NEW e, Tiling(bs, e)
    PROVE  Left(MergeAll(bs), e, bs[Len(bs)].is_free, UsedBlocks(bs))
<1>0. /\ bs \in Seq(Blocks) /\ Len(bs) \in Nat /\ Len(bs) >= 1
      /\ bs[1].addr = HeapStart /\ EndOf(bs[Len(bs)]) = e
      /\ \A i \in 1..(Len(bs) - 1) : EndOf(bs[i]) = bs[i + 1].addr
      /\ \A i \in 1..Len(bs) : Sound(bs[i]) /\ bs[i] \in Blocks
  BY TilingFacts DEF Tiling
<1>1. PICK m : /\ MergeAll(bs) = m[Len(bs)]
               /\ m[0] = << >>
               /\ \A k \in 1..Len(bs) : m[k] = Absorb(m[k - 1], bs[k])
  BY <1>0, MergeWalk
<1> DEFINE Done(n) == Left(m[n], EndOf(bs[n]), bs[n].is_free, UsedUpTo(bs, n))
           S == {n \in Nat : n \in 1..Len(bs) => Done(n)}
<1>2. Done(1)
  <2>1. PICK b : b = bs[1] /\ Sound(b) /\ b \in Blocks /\ b.addr = HeapStart
    BY <1>0
  <2>2. m[1] = << b >>
    <3>1. m[1] = Absorb(<< >>, b)
      BY <1>0, <1>1, <2>1
    <3>2. Absorb(<< >>, b) = Append(<< >>, b)
      BY DEF Absorb
    <3> QED BY <3>1, <3>2
  <2>3. Tiling(<< b >>, EndOf(b)) /\ Merged(<< b >>)
    BY <2>1 DEF Tiling, Merged
  <2>4. UsedBlocks(<< b >>) = IF b.is_free THEN {} ELSE {b}
    <3>1. ASSUME NEW u PROVE u \in UsedBlocks(<< b >>) <=> u = b /\ ~b.is_free
      BY DEF UsedBlocks
    <3> QED BY <3>1
  <2>5. UsedUpTo(bs, 1) = IF b.is_free THEN {} ELSE {b}
    <3>1. \A j \in 1..1 : j = 1
      OBVIOUS
    <3>2. ASSUME NEW u PROVE u \in UsedUpTo(bs, 1) <=> u = b /\ ~b.is_free
      BY <2>1, <3>1 DEF UsedUpTo
    <3> QED BY <3>2
  <2> QED BY <2>1, <2>2, <2>3, <2>4, <2>5 DEF Left
<1>3. ASSUME NEW n \in 1..(Len(bs) - 1), Done(n)
      PROVE  Done(n + 1)
  <2>1. n \in 1..Len(bs) /\ n + 1 \in 1..Len(bs) /\ n \in Nat
    BY <1>0
  <2>2. PICK s : s = m[n]
    OBVIOUS
  <2>3. PICK b : b = bs[n + 1] /\ Sound(b) /\ b \in Blocks /\ b.addr = EndOf(bs[n])
    BY <1>0, <2>1
  <2>4. /\ Tiling(s, b.addr) /\ Merged(s) /\ UsedBlocks(s) = UsedUpTo(bs, n)
    BY <1>3, <2>2, <2>3 DEF Left
  <2>5. m[n + 1] = Absorb(s, b)
    BY <1>1, <2>1, <2>2, <2>3
  <2>6. UsedUpTo(bs, n + 1) = UsedUpTo(bs, n) \cup IF b.is_free THEN {} ELSE {b}
    <3>1. \A i : i \in 1..(n + 1) <=> i \in 1..n \/ i = n + 1
      BY <2>1
    <3>2. ASSUME NEW u
          PROVE  u \in UsedUpTo(bs, n + 1) <=> u \in UsedUpTo(bs, n) \/ (u = b /\ ~b.is_free)
      BY <2>3, <3>1 DEF UsedUpTo
    <3> QED BY <3>2
  <2>7. PICK l : l = s[Len(s)] /\ Sound(l) /\ l \in Blocks /\ EndOf(l) = b.addr /\ Len(s) > 0
    BY <2>4, TilingFacts DEF Tiling
  <2>8. CASE l.is_free /\ b.is_free
    <3>1. PICK c : c = Block(l.addr, l.size + b.size, TRUE)
      OBVIOUS
    <3>2. m[n + 1] = Append(Front(s), c)
      BY <2>5, <2>7, <2>8, <3>1 DEF Absorb, Last
    <3>3. /\ l.addr \in Nat /\ l.size \in Nat /\ b.size \in Nat /\ b.addr \in Nat
      BY <2>3, <2>7 DEF Blocks
    <3>4. c.addr = l.addr /\ c.size = l.size + b.size /\ c.is_free = TRUE /\ c \in Blocks
      BY <3>1, <3>3 DEF Block, Blocks
    <3>5. Sound(c)
      <4>1. Aligned(l.size + b.size)
        <5>1. Aligned(l.size) /\ Aligned(b.size) /\ l.size \in Int /\ b.size \in Int
          BY <2>3, <2>7, <3>3 DEF Sound
        <5> QED BY <5>1, AlignedSums
      <4>2. l.size + b.size >= HEADER_SIZE + ALIGN
        BY <2>7, <3>3, NumbersHold DEF Sound, Numbers
      <4> QED BY <2>7, <3>4, <4>1, <4>2 DEF Sound
    <3>6. EndOf(c) = EndOf(b)
      BY <2>7, <3>3, <3>4 DEF EndOf
    <3>7. Left(Append(Front(s), c), EndOf(c), c.is_free, UsedBlocks(s))
      BY <2>4, <2>7, <2>8, <3>4, <3>5, GrowLast
    <3>8. c.is_free = b.is_free
      BY <2>3, <2>8, <3>4 DEF Blocks
    <3> QED BY <2>3, <2>4, <2>6, <2>8, <3>2, <3>6, <3>7, <3>8 DEF Left
  <2>9. CASE ~(l.is_free /\ b.is_free)
    <3>1. m[n + 1] = Append(s, b)
      BY <2>5, <2>7, <2>9 DEF Absorb, Last
    <3>2. Left(Append(s, b), EndOf(b), b.is_free, UsedBlocks(s) \cup IF b.is_free THEN {} ELSE {b})
      BY <2>3, <2>4, <2>7, <2>9, AppendBlock
    <3> QED BY <2>3, <2>4, <2>6, <3>1, <3>2
  <2> QED BY <2>8, <2>9
<1>4. \A n \in Nat : n \in S => n + 1 \in S
  <2> SUFFICES ASSUME NEW n \in Nat, n \in S, n + 1 \in 1..Len(bs)
               PROVE  Done(n + 1)
    OBVIOUS
  <2>1. CASE n = 0
    BY <1>2, <2>1
  <2>2. CASE n # 0
    <3>1. n \in 1..(Len(bs) - 1) /\ n \in 1..Len(bs)
      BY <1>0, <2>2
    <3>2. Done(n)
      BY <3>1
    <3> HIDE DEF Done
    <3> QED BY <1>3, <3>1, <3>2
  <2> QED BY <2>1, <2>2
<1>5. 0 \in S
  OBVIOUS
<1>6. Nat \subseteq S
  <2> HIDE DEF S
  <2> QED BY <1>4, <1>5, SetInduction
<1>7. Done(Len(bs))
  BY <1>0, <1>6
<1> QED BY <1>0, <1>1, <1>7 DEF UsedUpTo, UsedBlocks

-----------------------------------------------------------------------------
(***************************************************************************)
(* kmalloc puts the sequence t in the place of the i-th block.             *)
(***************************************************************************)
Spliced(r, bs, i, t) ==
    /\ r \in Seq(Blocks) /\ Len(r) = (Len(bs) - 1) + Len(t)
    /\ \A k \in 1..(i - 1) : r[k] = bs[k]
    /\ \A k \in 1..Len(t) : r[(i - 1) + k] = t[k]
    /\ \A k \in (i + 1)..Len(bs) : r[(k - 1) + Len(t)] = bs[k]

LEMMA Splice ==
    ASSUME NEW bs \in Seq(Blocks), NEW i \in 1..Len(bs), NEW t \in Seq(Blocks)
    PROVE  Spliced(SubSeq(bs, 1, i - 1) \o t \o SubSeq(bs, i + 1, Len(bs)), bs, i, t)
<1>0. Len(bs) \in Nat /\ Len(t) \in Nat /\ i \in Nat /\ 1 <= i /\ i <= Len(bs)
  OBVIOUS
<1>1. PICK x : x = SubSeq(bs, 1, i - 1)
  OBVIOUS
<1>2. x \in Seq(Blocks) /\ Len(x) = i - 1 /\ \A k \in 1..(i - 1) : x[k] = bs[k]
  BY <1>0, <1>1
<1>3. PICK z : z = SubSeq(bs, i + 1, Len(bs))
  OBVIOUS
<1>4. z \in Seq(Blocks) /\ Len(z) = Len(bs) - i
  BY <1>0, <1>3
<1>5. \A k \in 1..(Len(bs) - i) : z[k] = bs[i + k]
  BY <1>0, <1>3
<1>6. PICK y : y = x \o t
  OBVIOUS
<1>7. y \in Seq(Blocks) /\ Len(y) = (i - 1) + Len(t)
  BY <1>0, <1>2, <1>6
<1>8. \A k \in 1..(i - 1) : y[k] = bs[k]
  BY <1>0, <1>2, <1>6
<1>9. \A k \in 1..Len(t) : y[(i - 1) + k] = t[k]
  BY <1>0, <1>2, <1>6
<1>10. PICK r : r = y \o z
  OBVIOUS
<1>11. r \in Seq(Blocks) /\ Len(r) = (Len(bs) - 1) + Len(t)
  <2>1. r \in Seq(Blocks)
    BY <1>4, <1>7, <1>10
  <2>2. Len(y \o z) = Len(y) + Len(z)
    <3>1. \A p, q \in Seq(Blocks) : Len(p \o q) = Len(p) + Len(q)
      OBVIOUS
    <3> QED BY <1>4, <1>7, <3>1, Zenon
  <2> QED BY <1>0, <1>4, <1>7, <1>10, <2>1, <2>2
<1>12. \A k \in 1..Len(y) : r[k] = y[k]
  BY <1>4, <1>7, <1>10
<1>13. \A k \in 1..(i - 1) : r[k] = bs[k]
  BY <1>0, <1>7, <1>8, <1>12
<1>14. \A k \in 1..Len(t) : r[(i - 1) + k] = t[k]
  BY <1>0, <1>7, <1>9, <1>12
<1>15. ASSUME NEW k \in (i + 1)..Len(bs)
       PROVE  r[(k - 1) + Len(t)] = bs[k]
  <2>1. PICK j \in 1..(Len(bs) - i) : j = k - i
    BY <1>0
  <2>2. r[Len(y) + j] = z[j]
    <3>1. \A n \in 1..Len(z) : (y \o z)[Len(y) + n] = z[n]
      BY <1>4, <1>7
    <3>2. j \in 1..Len(z)
      BY <1>4, <2>1
    <3> QED BY <1>10, <3>1, <3>2
  <2>3. Len(y) + j = (k - 1) + Len(t) /\ i + j = k
    BY <1>0, <1>7, <2>1
  <2> QED BY <1>5, <2>1, <2>2, <2>3
<1> QED BY <1>1, <1>3, <1>6, <1>10, <1>11, <1>13, <1>14, <1>15 DEF Spliced

(***************************************************************************)
(* The list after kmalloc: the taken block b is used, all else is as       *)
(* before.  A rest that is split off is free, but the block after it is    *)
(* not, for the block it comes from was free and had no free neighbour.    *)
(***************************************************************************)
Taken(r, bs, e, b) ==
    Tiling(r, e) /\ Merged(r) /\ UsedBlocks(r) = UsedBlocks(bs) \cup {b}

LEMMA TakeWhole ==
    ASSUME NEW bs, NEW e, Tiling(bs, e), Merged(bs), NEW i \in 1..Len(bs), bs[i].is_free,
           NEW b, Sound(b), b.addr = bs[i].addr, b.size = bs[i].size, ~b.is_free,
           NEW r, Spliced(r, bs, i, << b >>)
    PROVE  Taken(r, bs, e, b)
<1>0. /\ Len(bs) \in Nat /\ Len(bs) >= 1 /\ i \in Nat /\ 1 <= i /\ i <= Len(bs)
      /\ bs[1].addr = HeapStart /\ EndOf(bs[Len(bs)]) = e
      /\ \A k \in 1..(Len(bs) - 1) : EndOf(bs[k]) = bs[k + 1].addr
      /\ \A k \in 1..Len(bs) : Sound(bs[k])
  BY TilingFacts DEF Tiling
<1>1. r \in Seq(Blocks) /\ Len(r) = Len(bs) /\ r[i] = b /\ \A k \in 1..Len(bs) : k # i => r[k] = bs[k]
  <2>1. Len(<< b >>) = 1 /\ << b >>[1] = b
    OBVIOUS
  <2>2. r \in Seq(Blocks) /\ Len(r) = Len(bs)
    BY <1>0, <2>1 DEF Spliced
  <2>3. r[i] = b
    <3>1. r[(i - 1) + 1] = b
      BY <2>1 DEF Spliced
    <3> QED BY <1>0, <3>1
  <2>4. ASSUME NEW k \in 1..Len(bs), k # i
        PROVE  r[k] = bs[k]
    <3>1. CASE k < i
      BY <1>0, <3>1 DEF Spliced
    <3>2. CASE k > i
      <4>1. k \in (i + 1)..Len(bs)
        BY <1>0, <3>2
      <4>2. r[(k - 1) + 1] = bs[k]
        BY <2>1, <4>1 DEF Spliced
      <4> QED BY <4>2
    <3> QED BY <1>0, <2>4, <3>1, <3>2
  <2> QED BY <2>2, <2>3, <2>4
<1>2. EndOf(b) = EndOf(bs[i])
  BY DEF EndOf
<1>3. \A k \in 1..Len(bs) : r[k].addr = bs[k].addr /\ EndOf(r[k]) = EndOf(bs[k]) /\ Sound(r[k])
  BY <1>0, <1>1, <1>2
<1>4. Tiling(r, e)
  <2>1. ASSUME NEW k \in 1..(Len(r) - 1) PROVE EndOf(r[k]) = r[k + 1].addr
    <3>1. k \in 1..(Len(bs) - 1) /\ k \in 1..Len(bs) /\ k + 1 \in 1..Len(bs)
      BY <1>0, <1>1
    <3> QED BY <1>0, <1>3, <3>1
  <2>2. r[1].addr = HeapStart /\ EndOf(r[Len(r)]) = e
    BY <1>0, <1>1, <1>3
  <2> QED BY <1>0, <1>1, <1>3, <2>1, <2>2 DEF Tiling
<1>5. Merged(r)
  <2> SUFFICES ASSUME NEW k \in 1..(Len(r) - 1), r[k].is_free, r[k + 1].is_free
               PROVE  FALSE
    BY DEF Merged
  <2>1. k \in 1..(Len(bs) - 1) /\ k \in 1..Len(bs) /\ k + 1 \in 1..Len(bs)
    BY <1>0, <1>1
  <2>2. k # i /\ k + 1 # i
    BY <1>1
  <2>3. bs[k].is_free /\ bs[k + 1].is_free
    BY <1>1, <2>1, <2>2
  <2> QED BY <2>1, <2>3 DEF Merged
<1>6. UsedBlocks(r) = UsedBlocks(bs) \cup {b}
  <2>1. ASSUME NEW u
        PROVE  u \in UsedBlocks(r) <=> u \in UsedBlocks(bs) \/ u = b
    BY <1>0, <1>1 DEF UsedBlocks
  <2> QED BY <2>1
<1> QED BY <1>4, <1>5, <1>6 DEF Taken

LEMMA TakePart ==
    ASSUME NEW bs, NEW e, Tiling(bs, e), Merged(bs), NEW i \in 1..Len(bs), bs[i].is_free,
           NEW b, Sound(b), b.addr = bs[i].addr, ~b.is_free,
           NEW c, Sound(c), c.addr = EndOf(b), EndOf(c) = EndOf(bs[i]), c.is_free,
           NEW r, Spliced(r, bs, i, << b, c >>)
    PROVE  Taken(r, bs, e, b)
<1>0. /\ Len(bs) \in Nat /\ Len(bs) >= 1 /\ i \in Nat /\ 1 <= i /\ i <= Len(bs)
      /\ bs[1].addr = HeapStart /\ EndOf(bs[Len(bs)]) = e
      /\ \A k \in 1..(Len(bs) - 1) : EndOf(bs[k]) = bs[k + 1].addr
      /\ \A k \in 1..Len(bs) : Sound(bs[k])
  BY TilingFacts DEF Tiling
<1>1. /\ r \in Seq(Blocks) /\ Len(r) = Len(bs) + 1 /\ r[i] = b /\ r[i + 1] = c
      /\ \A k \in 1..(i - 1) : r[k] = bs[k]
      /\ \A k \in (i + 1)..Len(bs) : r[k + 1] = bs[k]
  <2>1. Len(<< b, c >>) = 2 /\ << b, c >>[1] = b /\ << b, c >>[2] = c
    OBVIOUS
  <2>2. r \in Seq(Blocks) /\ Len(r) = Len(bs) + 1
    BY <1>0, <2>1 DEF Spliced
  <2>3. r[i] = b /\ r[i + 1] = c
    <3>1. PICK t : t = << b, c >> /\ Len(t) = 2 /\ t[1] = b /\ t[2] = c
      BY <2>1
    <3>2. \A k \in 1..2 : r[(i - 1) + k] = t[k]
      BY <3>1 DEF Spliced
    <3>3. r[(i - 1) + 1] = b /\ r[(i - 1) + 2] = c
      BY <3>1, <3>2
    <3> QED BY <1>0, <3>3
  <2>4. \A k \in 1..(i - 1) : r[k] = bs[k]
    BY DEF Spliced
  <2>5. ASSUME NEW k \in (i + 1)..Len(bs)
        PROVE  r[k + 1] = bs[k]
    <3>1. r[(k - 1) + 2] = bs[k]
      BY <2>1 DEF Spliced
    <3> QED BY <1>0, <3>1
  <2> QED BY <2>2, <2>3, <2>4, <2>5
<1>2. \A k \in 1..Len(r) : k \in 1..(i - 1) \/ k = i \/ k = i + 1 \/ (k > i + 1 /\ k - 1 \in (i + 1)..Len(bs))
  BY <1>0, <1>1
<1>3. \A k \in (i + 2)..Len(r) : r[k] = bs[k - 1]
  <2> SUFFICES ASSUME NEW k \in (i + 2)..Len(r) PROVE r[k] = bs[k - 1]
    OBVIOUS
  <2>1. PICK j \in (i + 1)..Len(bs) : j = k - 1
    BY <1>0, <1>1
  <2>2. r[j + 1] = bs[j] /\ j + 1 = k
    BY <1>1, <2>1
  <2> QED BY <2>1, <2>2
<1>4. Tiling(r, e)
  <2>1. ASSUME NEW k \in 1..(Len(r) - 1) PROVE EndOf(r[k]) = r[k + 1].addr
    <3>1. CASE k < i - 1
      <4>1. k \in 1..(i - 1) /\ k + 1 \in 1..(i - 1) /\ k \in 1..(Len(bs) - 1)
        BY <1>0, <3>1
      <4> QED BY <1>0, <1>1, <4>1
    <3>2. CASE k = i - 1
      <4>1. k \in 1..(i - 1) /\ k + 1 = i /\ k \in 1..(Len(bs) - 1)
        BY <1>0, <3>2
      <4> QED BY <1>0, <1>1, <4>1
    <3>3. CASE k = i
      BY <1>1, <3>3
    <3>4. CASE k = i + 1
      <4>1. i + 1 \in (i + 1)..Len(bs) /\ i \in 1..(Len(bs) - 1) /\ k + 1 = (i + 1) + 1
        BY <1>0, <1>1, <3>4
      <4>2. r[k + 1] = bs[i + 1] /\ r[k] = c
        BY <1>1, <3>4, <4>1
      <4> QED BY <1>0, <4>1, <4>2
    <3>5. CASE k > i + 1
      <4>1. k \in (i + 2)..Len(r) /\ k + 1 \in (i + 2)..Len(r) /\ k - 1 \in 1..(Len(bs) - 1)
            /\ (k + 1) - 1 = (k - 1) + 1
        BY <1>0, <1>1, <3>5
      <4>2. r[k] = bs[k - 1] /\ r[k + 1] = bs[(k - 1) + 1]
        BY <1>3, <4>1
      <4> QED BY <1>0, <4>1, <4>2
    <3> QED BY <1>0, <1>1, <3>1, <3>2, <3>3, <3>4, <3>5
  <2>2. r[1].addr = HeapStart
    <3>1. CASE i = 1
      BY <1>0, <1>1, <3>1
    <3>2. CASE i # 1
      BY <1>0, <1>1, <3>2
    <3> QED BY <3>1, <3>2
  <2>3. EndOf(r[Len(r)]) = e
    <3>1. CASE i = Len(bs)
      BY <1>0, <1>1, <3>1
    <3>2. CASE i # Len(bs)
      BY <1>0, <1>1, <3>2
    <3> QED BY <3>1, <3>2
  <2>4. ASSUME NEW k \in 1..Len(r) PROVE Sound(r[k])
    <3>1. CASE k \in 1..(i - 1)
      BY <1>0, <1>1, <3>1
    <3>2. CASE k > i + 1
      <4>1. k \in (i + 2)..Len(r) /\ k - 1 \in 1..Len(bs)
        BY <1>0, <1>1, <3>2
      <4> QED BY <1>0, <1>3, <4>1
    <3> QED BY <1>1, <1>2, <3>1, <3>2
  <2> QED BY <1>0, <1>1, <2>1, <2>2, <2>3, <2>4 DEF Tiling
<1>5. Merged(r)
  <2> SUFFICES ASSUME NEW k \in 1..(Len(r) - 1), r[k].is_free, r[k + 1].is_free
               PROVE  FALSE
    BY DEF Merged
  <2>0. k # i /\ k + 1 # i
    BY <1>1
  <2>1. CASE k < i - 1
    <3>1. k \in 1..(i - 1) /\ k + 1 \in 1..(i - 1) /\ k \in 1..(Len(bs) - 1)
      BY <1>0, <2>1
    <3> QED BY <1>1, <3>1 DEF Merged
  <2>2. CASE k = i + 1
    <3>1. i + 1 \in (i + 1)..Len(bs) /\ i \in 1..(Len(bs) - 1) /\ k + 1 = (i + 1) + 1
      BY <1>0, <1>1, <2>2
    <3>2. r[k + 1] = bs[i + 1]
      BY <1>1, <3>1
    <3> QED BY <3>1, <3>2 DEF Merged
  <2>3. CASE k > i + 1
    <3>1. k \in (i + 2)..Len(r) /\ k + 1 \in (i + 2)..Len(r) /\ k - 1 \in 1..(Len(bs) - 1)
          /\ (k + 1) - 1 = (k - 1) + 1
      BY <1>0, <1>1, <2>3
    <3>2. r[k] = bs[k - 1] /\ r[k + 1] = bs[(k - 1) + 1]
      BY <1>3, <3>1
    <3> QED BY <3>1, <3>2 DEF Merged
  <2> QED BY <1>0, <1>1, <2>0, <2>1, <2>2, <2>3
<1>6. UsedBlocks(r) = UsedBlocks(bs) \cup {b}
  <2>1. ASSUME NEW k \in 1..Len(r), ~r[k].is_free
        PROVE  r[k] \in UsedBlocks(bs) \cup {b}
    <3>1. CASE k \in 1..(i - 1)
      BY <1>0, <1>1, <2>1, <3>1 DEF UsedBlocks
    <3>2. CASE k > i + 1
      <4>1. k \in (i + 2)..Len(r) /\ k - 1 \in 1..Len(bs)
        BY <1>0, <1>1, <3>2
      <4> QED BY <1>3, <2>1, <4>1 DEF UsedBlocks
    <3> QED BY <1>1, <1>2, <2>1, <3>1, <3>2
  <2>2. ASSUME NEW k \in 1..Len(bs), ~bs[k].is_free
        PROVE  bs[k] \in UsedBlocks(r)
    <3>0. k # i
      BY <2>2
    <3>1. CASE k < i
      <4>1. k \in 1..(i - 1) /\ k \in 1..Len(r)
        BY <1>0, <1>1, <3>1
      <4> QED BY <1>1, <2>2, <4>1 DEF UsedBlocks
    <3>2. CASE k > i
      <4>1. k \in (i + 1)..Len(bs) /\ k + 1 \in 1..Len(r)
        BY <1>0, <1>1, <3>2
      <4> QED BY <1>1, <2>2, <4>1 DEF UsedBlocks
    <3> QED BY <1>0, <3>0, <3>1, <3>2
  <2>3. b \in UsedBlocks(r)
    <3>1. i \in 1..Len(r)
      BY <1>0, <1>1
    <3> QED BY <1>1, <3>1 DEF UsedBlocks
  <2>4. UsedBlocks(r) \subseteq UsedBlocks(bs) \cup {b}
    BY <2>1 DEF UsedBlocks
  <2>5. UsedBlocks(bs) \subseteq UsedBlocks(r)
    BY <2>2 DEF UsedBlocks
  <2> QED BY <2>3, <2>4, <2>5
<1> QED BY <1>4, <1>5, <1>6 DEF Taken

-----------------------------------------------------------------------------
(***************************************************************************)
(* The invariant: the list covers the heap, free blocks are merged, and    *)
(* used blocks and what callers hold correspond one to one.                *)
(***************************************************************************)
Covers(a, u) == a.ptr = u.addr + HEADER_SIZE /\ a.ptr + a.size <= EndOf(u)

Held(U, L) ==
    /\ \A a \in L : a.ptr \in Nat /\ a.size \in Nat /\ \E u \in U : Covers(a, u)
    /\ \A u \in U : \E a \in L : Covers(a, u)
    /\ \A a, b \in L : a.ptr = b.ptr => a = b

HInv == Tiling(blocks, HeapEnd) /\ Merged(blocks) /\ Held(UsedBlocks(blocks), live)

LEMMA HeapStarts == Init => HInv
<1> SUFFICES ASSUME Init PROVE HInv
  OBVIOUS
<1>0. Numbers /\ Aligned(HEAP_SIZE) /\ Aligned(HEADER_SIZE)
  BY NumbersHold
<1>1. PICK b : b = Block(HeapStart, HEAP_SIZE, TRUE)
  OBVIOUS
<1>2. b \in Blocks /\ b.addr = HeapStart /\ b.size = HEAP_SIZE /\ b.is_free = TRUE
  BY <1>0, <1>1 DEF Block, Blocks, Numbers
<1>3. HEAP_SIZE >= HEADER_SIZE + ALIGN
  <2>1. PICK d \in Nat \ {0} : d = HEAP_SIZE - HEADER_SIZE
    BY <1>0 DEF Numbers
  <2>2. Aligned(d)
    BY <1>0, <2>1, AlignedSums DEF Numbers
  <2>3. d >= ALIGN
    BY <2>2, AlignedSums
  <2> QED BY <1>0, <2>1, <2>3 DEF Numbers
<1>4. Aligned(HeapStart)
  BY <1>0, AlignedSums DEF Numbers
<1>5. Sound(b)
  BY <1>0, <1>2, <1>3, <1>4 DEF Sound
<1>6. EndOf(b) = HeapEnd
  BY <1>0, <1>2 DEF EndOf, Numbers
<1>7. blocks = << b >> /\ live = {}
  BY <1>1 DEF Init
<1>8. Tiling(<< b >>, HeapEnd) /\ Merged(<< b >>)
  BY <1>2, <1>5, <1>6 DEF Tiling, Merged
<1>9. UsedBlocks(<< b >>) = {}
  BY <1>2 DEF UsedBlocks
<1>10. Held({}, {})
  BY DEF Held
<1> QED BY <1>7, <1>8, <1>9, <1>10 DEF HInv

LEMMA MallocStep ==
    ASSUME HInv, NEW size \in Sizes, Kmalloc(size)
    PROVE  HInv'
<1>0. /\ Numbers /\ size \in Nat /\ Tiling(blocks, HeapEnd) /\ Merged(blocks)
      /\ Held(UsedBlocks(blocks), live)
  BY NumbersHold DEF HInv, Numbers
<1>1. PICK need \in Nat : /\ need = Need(size) /\ Aligned(need) /\ need >= HEADER_SIZE + ALIGN
                          /\ need >= HEADER_SIZE + size
  BY <1>0, NeedIs
<1>2. PICK i \in 1..Len(blocks) :
        /\ blocks[i].is_free /\ blocks[i].size >= need
        /\ blocks' = SubSeq(blocks, 1, i - 1) \o Take(blocks[i], need)
                        \o SubSeq(blocks, i + 1, Len(blocks))
        /\ live' = live \cup {[ptr |-> blocks[i].addr + HEADER_SIZE, size |-> size]}
  BY <1>1 DEF Kmalloc, FirstFit, Fits
<1>3. /\ blocks \in Seq(Blocks)
      /\ \A j \in 1..Len(blocks) : /\ blocks[j] \in Blocks /\ Sound(blocks[j])
                                   /\ blocks[j].addr \in Nat /\ blocks[j].size \in Nat
  BY <1>0, TilingFacts
<1>4. PICK o : o = blocks[i] /\ o \in Blocks /\ Sound(o) /\ o.addr \in Nat /\ o.size \in Nat
               /\ o.is_free /\ o.size >= need
  BY <1>2, <1>3
<1>5. ASSUME NEW b, Sound(b), b.addr = o.addr, b.size >= need, Taken(blocks', blocks, HeapEnd, b)
      PROVE  HInv'
  <2>0. b.size \in Nat
    BY <1>5 DEF Sound, Blocks
  <2>1. PICK U : U = UsedBlocks(blocks)
    OBVIOUS
  <2>2. PICK a : a = [ptr |-> o.addr + HEADER_SIZE, size |-> size]
    OBVIOUS
  <2>3. a.ptr = o.addr + HEADER_SIZE /\ a.size = size /\ a.ptr \in Nat /\ a.size \in Nat
    BY <1>0, <1>4, <2>2 DEF Numbers
  <2>4. Covers(a, b)
    BY <1>0, <1>1, <1>4, <1>5, <2>0, <2>3 DEF Covers, EndOf, Numbers
  <2>5. \A u \in U : u.addr # o.addr
    <3> SUFFICES ASSUME NEW j \in 1..Len(blocks), ~blocks[j].is_free, blocks[j].addr = o.addr
                 PROVE  FALSE
      BY <2>1 DEF UsedBlocks
    <3>1. j = i
      BY <1>0, <1>4, ByAddress
    <3> QED BY <1>2, <3>1
  <2>6. \A u \in U : u.addr \in Nat
    BY <1>3, <2>1 DEF UsedBlocks
  <2>7. \A c \in live : c.ptr # a.ptr
    <3> SUFFICES ASSUME NEW c \in live, c.ptr = a.ptr PROVE FALSE
      OBVIOUS
    <3>1. PICK u \in U : c.ptr = u.addr + HEADER_SIZE
      BY <1>0, <2>1 DEF Held, Covers
    <3> QED BY <1>0, <1>4, <2>3, <2>5, <2>6, <3>1 DEF Numbers
  <2>8. Held(U \cup {b}, live \cup {a})
    <3>1. \A c \in live \cup {a} : c.ptr \in Nat /\ c.size \in Nat /\ \E u \in U \cup {b} : Covers(c, u)
      BY <1>0, <2>1, <2>3, <2>4 DEF Held
    <3>2. \A u \in U \cup {b} : \E c \in live \cup {a} : Covers(c, u)
      BY <1>0, <2>1, <2>4 DEF Held
    <3>3. \A c, d \in live \cup {a} : c.ptr = d.ptr => c = d
      BY <1>0, <2>1, <2>7 DEF Held
    <3> QED BY <3>1, <3>2, <3>3 DEF Held
  <2>9. live' = live \cup {a} /\ UsedBlocks(blocks') = U \cup {b}
    BY <1>2, <1>4, <1>5, <2>1, <2>2 DEF Taken
  <2>10. HeapEnd' = HeapEnd
    BY DEF HeapEnd, HeapStart
  <2> QED BY <1>5, <2>8, <2>9 DEF HInv, Taken
<1>6. CASE o.size >= need + HEADER_SIZE + SPLIT
  <2>1. PICK b : b = Block(o.addr, need, FALSE)
    OBVIOUS
  <2>2. PICK c : c = Block(o.addr + need, o.size - need, TRUE)
    OBVIOUS
  <2>3. Take(o, need) = << b, c >>
    BY <1>6, <2>1, <2>2 DEF Take, Split
  <2>4. PICK d \in Nat : d = o.size - need /\ d >= HEADER_SIZE + SPLIT
    BY <1>0, <1>4, <1>6 DEF Numbers
  <2>5. b \in Blocks /\ b.addr = o.addr /\ b.size = need /\ b.is_free = FALSE
    BY <1>4, <2>1 DEF Block, Blocks
  <2>6. c \in Blocks /\ c.addr = o.addr + need /\ c.size = d /\ c.is_free = TRUE
    BY <1>4, <2>2, <2>4 DEF Block, Blocks
  <2>7. Aligned(o.addr) /\ Aligned(o.size) /\ Aligned(HEADER_SIZE)
    BY <1>4, NumbersHold DEF Sound
  <2>8. Aligned(o.addr + need) /\ Aligned(d)
    <3>1. o.addr \in Int /\ need \in Int /\ o.size \in Int
      BY <1>4
    <3>2. Aligned(o.addr + need) /\ Aligned(o.size - need)
      BY <1>1, <2>7, <3>1, AlignedSums
    <3> QED BY <2>4, <3>2
  <2>9. d >= HEADER_SIZE + ALIGN
    <3>1. PICK x \in Nat \ {0} : x = d - HEADER_SIZE
      BY <1>0, <2>4 DEF Numbers
    <3>2. Aligned(x)
      <4>1. d \in Int /\ HEADER_SIZE \in Int
        BY <1>0 DEF Numbers
      <4>2. Aligned(d - HEADER_SIZE)
        BY <2>7, <2>8, <4>1, AlignedSums
      <4> QED BY <3>1, <4>2
    <3>3. x >= ALIGN
      BY <3>2, AlignedSums
    <3> QED BY <1>0, <2>4, <3>1, <3>3 DEF Numbers
  <2>10. Sound(b) /\ Sound(c)
    BY <1>1, <2>5, <2>6, <2>7, <2>8, <2>9 DEF Sound
  <2>11. c.addr = EndOf(b) /\ EndOf(c) = EndOf(o)
    BY <1>4, <2>4, <2>5, <2>6 DEF EndOf
  <2>12. Spliced(blocks', blocks, i, << b, c >>)
    <3>1. << b, c >> \in Seq(Blocks)
      BY <2>5, <2>6
    <3> QED BY <1>2, <1>3, <1>4, <2>3, <3>1, Splice
  <2>13. Taken(blocks', blocks, HeapEnd, b)
    BY <1>0, <1>4, <2>5, <2>6, <2>10, <2>11, <2>12, TakePart
  <2> QED BY <1>5, <2>5, <2>10, <2>13
<1>7. CASE ~(o.size >= need + HEADER_SIZE + SPLIT)
  <2>1. PICK b : b = [o EXCEPT !.is_free = FALSE]
    OBVIOUS
  <2>2. Take(o, need) = << b >>
    BY <1>7, <2>1 DEF Take
  <2>3. b \in Blocks /\ b.addr = o.addr /\ b.size = o.size /\ b.is_free = FALSE
    BY <1>4, <2>1 DEF Blocks
  <2>4. Sound(b)
    BY <1>4, <2>3 DEF Sound
  <2>5. Spliced(blocks', blocks, i, << b >>)
    <3>1. << b >> \in Seq(Blocks)
      BY <2>3
    <3> QED BY <1>2, <1>3, <1>4, <2>2, <3>1, Splice
  <2>6. Taken(blocks', blocks, HeapEnd, b)
    BY <1>0, <1>4, <2>3, <2>4, <2>5, TakeWhole
  <2> QED BY <1>4, <1>5, <2>3, <2>4, <2>6
<1> QED BY <1>6, <1>7

LEMMA FreeStep ==
    ASSUME HInv, NEW a \in live, Kfree(a)
    PROVE  HInv'
<1>0. /\ Numbers /\ Tiling(blocks, HeapEnd) /\ Merged(blocks)
      /\ Held(UsedBlocks(blocks), live)
  BY NumbersHold DEF HInv
<1>1. PICK i \in 1..Len(blocks) :
        /\ blocks[i].addr = a.ptr - HEADER_SIZE /\ ~blocks[i].is_free
        /\ blocks' = MergeAll([blocks EXCEPT ![i].is_free = TRUE])
        /\ live' = live \ {a}
  BY DEF Kfree
<1>2. /\ blocks \in Seq(Blocks) /\ Len(blocks) \in Nat /\ Len(blocks) >= 1
      /\ DOMAIN blocks = 1..Len(blocks)
      /\ blocks[1].addr = HeapStart /\ EndOf(blocks[Len(blocks)]) = HeapEnd
      /\ \A k \in 1..(Len(blocks) - 1) : EndOf(blocks[k]) = blocks[k + 1].addr
      /\ \A k \in 1..Len(blocks) : Sound(blocks[k]) /\ blocks[k] \in Blocks /\ blocks[k].addr \in Nat
  BY <1>0, TilingFacts DEF Tiling
<1>3. PICK o : o = blocks[i] /\ o \in Blocks /\ Sound(o)
  BY <1>2
<1>4. PICK b : b = [o EXCEPT !.is_free = TRUE]
  OBVIOUS
<1>5. b \in Blocks /\ b.addr = o.addr /\ b.size = o.size /\ b.is_free = TRUE /\ EndOf(b) = EndOf(o)
  BY <1>3, <1>4 DEF Blocks, EndOf
<1>6. Sound(b)
  BY <1>3, <1>5 DEF Sound
<1>7. PICK bs : bs = [blocks EXCEPT ![i] = b]
  OBVIOUS
<1>8. [blocks EXCEPT ![i].is_free = TRUE] = bs
  BY <1>2, <1>3, <1>4, <1>7
<1>9. /\ bs \in Seq(Blocks) /\ Len(bs) = Len(blocks)
      /\ bs[i] = b /\ \A k \in 1..Len(blocks) : k # i => bs[k] = blocks[k]
  BY <1>2, <1>5, <1>7
<1>10. \A k \in 1..Len(blocks) : bs[k].addr = blocks[k].addr /\ EndOf(bs[k]) = EndOf(blocks[k])
                                 /\ Sound(bs[k])
  BY <1>2, <1>3, <1>5, <1>6, <1>9
<1>11. Tiling(bs, HeapEnd)
  <2>1. ASSUME NEW k \in 1..(Len(bs) - 1) PROVE EndOf(bs[k]) = bs[k + 1].addr
    <3>1. k \in 1..(Len(blocks) - 1) /\ k \in 1..Len(blocks) /\ k + 1 \in 1..Len(blocks)
      BY <1>2, <1>9
    <3> QED BY <1>2, <1>10, <3>1
  <2>2. bs[1].addr = HeapStart /\ EndOf(bs[Len(bs)]) = HeapEnd
    BY <1>2, <1>9, <1>10
  <2> QED BY <1>2, <1>9, <1>10, <2>1, <2>2 DEF Tiling
<1>12. UsedBlocks(bs) = UsedBlocks(blocks) \ {o}
  <2>1. ASSUME NEW j \in 1..Len(blocks), j # i
        PROVE  blocks[j] # o
    <3>1. blocks[j].addr # blocks[i].addr
      BY <1>0, <2>1, ByAddress
    <3> QED BY <1>3, <3>1
  <2>2. ASSUME NEW u
        PROVE  u \in UsedBlocks(bs) <=> u \in UsedBlocks(blocks) /\ u # o
    <3>1. ASSUME NEW j \in 1..Len(blocks)
          PROVE  ~bs[j].is_free <=> ~blocks[j].is_free /\ j # i
      BY <1>5, <1>9
    <3> QED BY <1>3, <1>9, <2>1, <3>1 DEF UsedBlocks
  <2> QED BY <2>2
<1>13. Left(blocks', HeapEnd, bs[Len(bs)].is_free, UsedBlocks(bs))
  BY <1>1, <1>8, <1>11, MergeResult
<1>14. Held(UsedBlocks(blocks) \ {o}, live \ {a})
  <2>1. PICK U : U = UsedBlocks(blocks)
    OBVIOUS
  <2>2. a.ptr = o.addr + HEADER_SIZE
    BY <1>0, <1>1, <1>2, <1>3 DEF Held, Numbers
  <2>3. \A u \in U : u.addr \in Nat /\ (u.addr = o.addr => u = o)
    <3> SUFFICES ASSUME NEW j \in 1..Len(blocks)
                 PROVE  blocks[j].addr \in Nat /\ (blocks[j].addr = o.addr => blocks[j] = o)
      BY <2>1 DEF UsedBlocks
    <3> QED BY <1>0, <1>2, <1>3, ByAddress
  <2>4. o.addr \in Nat /\ HEADER_SIZE \in Nat
    BY <1>0, <1>3 DEF Blocks, Numbers
  <2>5. \A c \in live : \A u \in U : Covers(c, u) => (c = a <=> u = o)
    <3> SUFFICES ASSUME NEW c \in live, NEW u \in U, Covers(c, u)
                 PROVE  c = a <=> u = o
      OBVIOUS
    <3>1. c.ptr = u.addr + HEADER_SIZE
      BY DEF Covers
    <3>2. c.ptr = a.ptr <=> u.addr = o.addr
      BY <2>2, <2>3, <2>4, <3>1
    <3>3. c.ptr = a.ptr => c = a
      BY <1>0 DEF Held
    <3> QED BY <2>3, <3>2, <3>3
  <2>6. Held(U, live)
    BY <1>0, <2>1
  <2>7. Held(U \ {o}, live \ {a})
    <3>1. \A c \in live \ {a} : c.ptr \in Nat /\ c.size \in Nat /\ \E u \in U \ {o} : Covers(c, u)
      BY <2>5, <2>6 DEF Held
    <3>2. \A u \in U \ {o} : \E c \in live \ {a} : Covers(c, u)
      BY <2>5, <2>6 DEF Held
    <3>3. \A c, d \in live \ {a} : c.ptr = d.ptr => c = d
      BY <2>6 DEF Held
    <3> QED BY <3>1, <3>2, <3>3 DEF Held
  <2> QED BY <2>1, <2>7
<1> QED BY <1>1, <1>12, <1>13, <1>14 DEF HInv, Left

LEMMA HeapStep == HInv /\ [Next]_vars => HInv'
<1> SUFFICES ASSUME HInv, [Next]_vars PROVE HInv'
  OBVIOUS
<1>1. CASE UNCHANGED vars
  BY <1>1 DEF vars, HInv
<1>2. ASSUME NEW size \in Sizes, KmallocFails(size) PROVE HInv'
  BY <1>2 DEF KmallocFails, vars, HInv
<1> QED BY <1>1, <1>2, MallocStep, FreeStep DEF Next

-----------------------------------------------------------------------------
LEMMA TilesFollow == HInv => Tiles
<1> SUFFICES ASSUME HInv PROVE Tiles
  OBVIOUS
<1>1. Tiling(blocks, HeapEnd) /\ Len(blocks) \in Nat /\ Len(blocks) >= 1
      /\ \A i \in 1..Len(blocks) : Sound(blocks[i])
  BY TilingFacts DEF HInv
<1>2. ASSUME NEW i \in 1..Len(blocks)
      PROVE  EndOf(blocks[i]) = IF i = Len(blocks) THEN HeapEnd ELSE blocks[i + 1].addr
  <2>1. i # Len(blocks) => i \in 1..(Len(blocks) - 1)
    BY <1>1
  <2> QED BY <1>1, <2>1 DEF Tiling
<1>3. \A i \in 1..Len(blocks) : blocks[i].size >= HEADER_SIZE + ALIGN
  BY <1>1 DEF Sound
<1> QED BY <1>1, <1>2, <1>3 DEF Tiles, Tiling

LEMMA OwnedFollows == HInv => OwnedApart
<1> SUFFICES ASSUME HInv PROVE OwnedApart
  OBVIOUS
<1>0. /\ Tiling(blocks, HeapEnd) /\ Held(UsedBlocks(blocks), live)
      /\ Numbers /\ Aligned(HEADER_SIZE)
      /\ \A i \in 1..Len(blocks) : /\ Sound(blocks[i]) /\ blocks[i].addr \in Nat
                                   /\ EndOf(blocks[i]) \in Nat
  BY TilingFacts, NumbersHold DEF HInv
<1>1. ASSUME NEW a \in live
      PROVE  /\ a.ptr \in Nat /\ a.size \in Nat
             /\ \E i \in Used : Owner(a, i)
  BY <1>0, <1>1 DEF Held, UsedBlocks, Used, Owner, Covers
<1>2. ASSUME NEW i \in Used
      PROVE  \E a \in live : Owner(a, i)
  BY <1>0, <1>2 DEF Held, UsedBlocks, Used, Owner, Covers
<1>3. ASSUME NEW a \in live
      PROVE  a.ptr % ALIGN = 0
  <2>1. PICK i \in Used : a.ptr = blocks[i].addr + HEADER_SIZE
    BY <1>1 DEF Owner
  <2>2. i \in 1..Len(blocks)
    BY <2>1 DEF Used
  <2>3. Aligned(blocks[i].addr) /\ blocks[i].addr \in Int /\ HEADER_SIZE \in Int
    BY <1>0, <2>2 DEF Sound, Numbers
  <2>4. Aligned(blocks[i].addr + HEADER_SIZE)
    BY <1>0, <2>3, AlignedSums
  <2> QED BY <2>1, <2>4 DEF Aligned
<1>4. ASSUME NEW a \in live, NEW b \in live, a # b
      PROVE  a.ptr + a.size <= b.ptr - HEADER_SIZE \/ b.ptr + b.size <= a.ptr - HEADER_SIZE
  <2>1. PICK i \in Used : a.ptr = blocks[i].addr + HEADER_SIZE /\ a.ptr + a.size <= EndOf(blocks[i])
    BY <1>1 DEF Owner
  <2>2. PICK j \in Used : b.ptr = blocks[j].addr + HEADER_SIZE /\ b.ptr + b.size <= EndOf(blocks[j])
    BY <1>1 DEF Owner
  <2>3. i \in 1..Len(blocks) /\ j \in 1..Len(blocks)
    BY <2>1, <2>2 DEF Used
  <2>4. i # j
    BY <1>0, <1>4, <2>1, <2>2 DEF Held
  <2>5. EndOf(blocks[i]) <= blocks[j].addr \/ EndOf(blocks[j]) <= blocks[i].addr
    BY <1>0, <2>3, <2>4, ByAddress
  <2>6. /\ a.ptr \in Nat /\ a.size \in Nat /\ b.ptr \in Nat /\ b.size \in Nat
        /\ blocks[i].addr \in Nat /\ blocks[j].addr \in Nat
        /\ EndOf(blocks[i]) \in Nat /\ EndOf(blocks[j]) \in Nat /\ HEADER_SIZE \in Nat
    BY <1>0, <1>1, <2>3 DEF Numbers
  <2>7. blocks[i].addr = a.ptr - HEADER_SIZE /\ blocks[j].addr = b.ptr - HEADER_SIZE
    BY <2>1, <2>2, <2>6
  <2> HIDE DEF EndOf
  <2> QED BY <2>1, <2>2, <2>5, <2>6, <2>7
<1> QED BY <1>1, <1>2, <1>3, <1>4 DEF OwnedApart

(***************************************************************************)
(* Every address of the heap lies in a block.                              *)
(***************************************************************************)
LEMMA InABlock ==
    ASSUME NEW bs, NEW e \in Nat, Tiling(bs, e), NEW x \in Nat, x >= HeapStart, x < e
    PROVE  \E i \in 1..Len(bs) : bs[i].addr <= x /\ x < EndOf(bs[i])
<1> DEFINE In(i) == bs[i].addr <= x /\ x < EndOf(bs[i])
           S == {n \in Nat : n \in 1..Len(bs) /\ x < EndOf(bs[n]) => \E i \in 1..Len(bs) : In(i)}
<1>0. /\ Len(bs) \in Nat /\ Len(bs) >= 1 /\ bs[1].addr = HeapStart /\ EndOf(bs[Len(bs)]) = e
      /\ \A k \in 1..(Len(bs) - 1) : EndOf(bs[k]) = bs[k + 1].addr
      /\ \A k \in 1..Len(bs) : bs[k].addr \in Nat /\ EndOf(bs[k]) \in Nat
      /\ HeapStart \in Nat
  BY TilingFacts, NumbersHold DEF Tiling, Numbers
<1>1. 0 \in S
  OBVIOUS
<1>2. ASSUME NEW n \in Nat, n \in S
      PROVE  n + 1 \in S
  <2> SUFFICES ASSUME n + 1 \in 1..Len(bs), x < EndOf(bs[n + 1])
               PROVE  \E i \in 1..Len(bs) : In(i)
    OBVIOUS
  <2>1. CASE n = 0
    <3>1. In(1) /\ 1 \in 1..Len(bs)
      BY <1>0, <2>1
    <3> QED BY <3>1
  <2>2. CASE n # 0 /\ x < EndOf(bs[n])
    <3>1. n \in 1..Len(bs)
      BY <1>0, <2>2
    <3> QED BY <1>2, <2>2, <3>1
  <2>3. CASE n # 0 /\ ~(x < EndOf(bs[n]))
    <3>1. n \in 1..(Len(bs) - 1) /\ n \in 1..Len(bs)
      BY <1>0, <2>3
    <3>2. bs[n + 1].addr = EndOf(bs[n]) /\ EndOf(bs[n]) \in Nat
      BY <1>0, <3>1
    <3>3. bs[n + 1].addr <= x
      BY <2>3, <3>2
    <3>4. In(n + 1)
      BY <3>3
    <3> QED BY <3>4
  <2> QED BY <2>1, <2>2, <2>3
<1>3. Nat \subseteq S
  <2> HIDE DEF S
  <2> QED BY <1>1, <1>2, SetInduction
<1> QED BY <1>0, <1>3

LEMMA RoomFollows == HInv => RoomIsFound
<1> SUFFICES ASSUME HInv, NEW size \in Sizes \ {0},
                    NEW s \in HeapStart..(HeapEnd - Need(size)),
                    \A i \in Used : EndOf(blocks[i]) <= s \/ blocks[i].addr >= s + Need(size)
             PROVE  \E i \in 1..Len(blocks) : Fits(blocks[i], Need(size))
  BY DEF RoomIsFound
<1>0. /\ Tiling(blocks, HeapEnd) /\ Merged(blocks) /\ Len(blocks) \in Nat
      /\ EndOf(blocks[Len(blocks)]) = HeapEnd
      /\ \A k \in 1..(Len(blocks) - 1) : EndOf(blocks[k]) = blocks[k + 1].addr
      /\ \A i \in 1..Len(blocks) : /\ blocks[i].addr \in Nat /\ blocks[i].size \in Nat
                                   /\ EndOf(blocks[i]) \in Nat /\ EndOf(blocks[i]) > blocks[i].addr
                                   /\ EndOf(blocks[i]) = blocks[i].addr + blocks[i].size
  BY TilingFacts DEF HInv, Tiling, EndOf
<1>1. Numbers /\ HeapStart \in Nat /\ HeapEnd \in Nat /\ size \in Nat
  BY NumbersHold DEF Numbers
<1>2. PICK need \in Nat : need = Need(size) /\ need >= 1
  BY <1>1, NeedIs DEF Numbers
<1>3. s \in Nat /\ s >= HeapStart /\ s + need <= HeapEnd /\ s < HeapEnd
  BY <1>1, <1>2
<1>4. PICK i \in 1..Len(blocks) : blocks[i].addr <= s /\ s < EndOf(blocks[i])
  BY <1>0, <1>1, <1>3, InABlock
<1> HIDE DEF EndOf
<1>5. blocks[i].is_free
  <2> SUFFICES ASSUME i \in Used PROVE FALSE
    BY DEF Used
  <2> QED BY <1>0, <1>2, <1>3, <1>4
<1>6. CASE EndOf(blocks[i]) >= s + need
  <2>1. blocks[i].size >= need
    BY <1>0, <1>3, <1>4, <1>6
  <2> QED BY <1>2, <1>5, <2>1 DEF Fits
<1>7. CASE EndOf(blocks[i]) < s + need
  <2>1. i # Len(blocks)
    BY <1>0, <1>1, <1>3, <1>7
  <2>2. i \in 1..(Len(blocks) - 1) /\ i + 1 \in 1..Len(blocks)
    BY <1>0, <2>1
  <2>3. blocks[i + 1].addr = EndOf(blocks[i])
    BY <1>0, <2>2
  <2>4. i + 1 \in Used
    BY <1>0, <1>5, <2>2 DEF Merged, Used
  <2>5. EndOf(blocks[i + 1]) <= s \/ blocks[i + 1].addr >= s + need
    BY <1>2, <2>4
  <2> QED BY <1>0, <1>3, <1>4, <1>7, <2>2, <2>3, <2>5
<1> QED BY <1>0, <1>3, <1>4, <1>6, <1>7

(***************************************************************************)
(* The invariant of the heap: through every order of kmalloc and kfree the *)
(* list covers the heap, free neighbours are merged and every used block   *)
(* has the one caller who holds it.                                        *)
(***************************************************************************)
THEOREM HeapInvariance == Spec => []HInv
  BY HeapStarts, HeapStep, PTL DEF Spec

(***************************************************************************)
(* Splitting in kmalloc and merge_all in kfree lose and invent no memory.  *)
(***************************************************************************)
THEOREM HeapTiles == Spec => []Tiles
  BY HeapInvariance, TilesFollow, PTL

(***************************************************************************)
(* What kmalloc returns is its caller's alone until kfree.                 *)
(***************************************************************************)
THEOREM HeapOwned == Spec => []OwnedApart
  BY HeapInvariance, OwnedFollows, PTL

(***************************************************************************)
(* kmalloc fails only when no free stretch is long enough.                 *)
(***************************************************************************)
THEOREM HeapRoom == Spec => []RoomIsFound
  BY HeapInvariance, RoomFollows, PTL
=============================================================================
