----------------------------- MODULE PmmProofs -----------------------------
(***************************************************************************)
(* Proofs about module Pmm, for any page size, memory size, memory map and *)
(* reserved ranges.                                                        *)
(***************************************************************************)
EXTENDS Pmm, FiniteSetTheorems, WellFoundedInduction, TLAPS

(***************************************************************************)
(* Page 0 is never free and never held, so 0 can stand for failure.        *)
(***************************************************************************)
ZeroTaken == 0 \notin AllPages \ used /\ 0 \notin held

(***************************************************************************)
(* The inductive invariant.  A page that is held has its bit set; this is  *)
(* what keeps a page from being given back to nobody.                      *)
(***************************************************************************)
IInv == /\ TypeOK
        /\ Accounting
        /\ NoneBelowHint
        /\ ZeroTaken
        /\ held \subseteq used

-----------------------------------------------------------------------------
(***************************************************************************)
(* A non-empty set of natural numbers has a least element: the page the    *)
(* upward scan of pmm_alloc_page stops at.                                 *)
(***************************************************************************)
LEMMA LeastElement ==
    ASSUME NEW S \in SUBSET Nat, S # {}
    PROVE  \E x \in S : \A y \in S : x <= y
<1> DEFINE R == {ss \in Nat \X Nat : ss[1] < ss[2]}
<1>1. IsWellFoundedOn(R, Nat)
  BY NatLessThanWellFounded, Zenon DEF OpToRel
<1>2. \A x, y \in Nat : x < y => <<x, y>> \in R
  OBVIOUS
<1> HIDE DEF R
<1>3. PICK x \in S : \A y \in S : ~ (<<y, x>> \in R)
  BY <1>1, WFMin
<1>4. x \in Nat /\ \A y \in S : y \in Nat /\ ~ (y < x)
  BY <1>2, <1>3
<1>5. \A y \in S : x <= y
  BY <1>4
<1> QED
  BY <1>5

(***************************************************************************)
(* mark_used(0, 0x800000) covers page 0.                                   *)
(***************************************************************************)
LEMMA LowPages ==
    0 \in WholePages(0, LOW_END)
<1> USE PmmAssumption
<1>1. (0 + PAGE_SIZE - 1) \div PAGE_SIZE = 0
  OBVIOUS
<1>2. LOW_END \div PAGE_SIZE \in Nat /\ LOW_END \div PAGE_SIZE # 0
  OBVIOUS
<1> QED
  BY <1>1, <1>2 DEF WholePages

(***************************************************************************)
(* Setting all bits, clearing those of C and setting those of M again      *)
(* leaves n - |C| + |C \cap M| bits set: the counting of pmm_init.         *)
(***************************************************************************)
LEMMA BitCount ==
    ASSUME NEW A, IsFiniteSet(A), NEW C \in SUBSET A, NEW M \in SUBSET A
    PROVE  Cardinality((A \ C) \cup M)
             = Cardinality(A) - Cardinality(C) + Cardinality(C \cap M)
<1>1. IsFiniteSet(C) /\ IsFiniteSet(C \cap M)
  BY FS_Subset, FS_Intersection
<1>2. /\ IsFiniteSet(A \ C)
      /\ Cardinality(A \ C) = Cardinality(A) - Cardinality(A \cap C)
  BY FS_Difference
<1>3. Cardinality((A \ C) \cup (C \cap M))
        = Cardinality(A \ C) + Cardinality(C \cap M) - Cardinality((A \ C) \cap (C \cap M))
  BY <1>1, <1>2, FS_Union
<1>4. A \cap C = C
  OBVIOUS
<1>5. (A \ C) \cap (C \cap M) = {}
  OBVIOUS
<1>6. (A \ C) \cup (C \cap M) = (A \ C) \cup M
  OBVIOUS
<1>7. Cardinality(A) \in Nat /\ Cardinality(C) \in Nat /\ Cardinality(C \cap M) \in Nat
  BY <1>1, FS_CardinalityType
<1>8. Cardinality({}) = 0
  BY FS_EmptySet
<1>9. Cardinality(A \ C) = Cardinality(A) - Cardinality(C)
  BY <1>2, <1>4, Zenon
<1>10. Cardinality((A \ C) \cup M) = Cardinality(A \ C) + Cardinality(C \cap M) - 0
  BY <1>3, <1>5, <1>6, <1>8, Zenon
<1> QED
  BY <1>7, <1>9, <1>10

(***************************************************************************)
(* The bitmap is finite, so its bits can be counted.                       *)
(***************************************************************************)
LEMMA FiniteBits ==
    ASSUME TypeOK
    PROVE  IsFiniteSet(used) /\ Cardinality(used) \in Nat
<1>1. IsFiniteSet(AllPages)
  BY PmmAssumption, FS_Interval DEF TypeOK, AllPages
<1>2. IsFiniteSet(used)
  BY <1>1, FS_Subset DEF TypeOK
<1> QED
  BY <1>2, FS_CardinalityType

-----------------------------------------------------------------------------
(***************************************************************************)
(* pmm_init establishes the invariant, whatever the memory map says.       *)
(***************************************************************************)
LEMMA InitLemma ==
    Init => IInv
<1> SUFFICES ASSUME Init PROVE IInv
  OBVIOUS
<1> DEFINE C == Cleared(mmap, total_pages)
           M == Marked(total_pages)
<1>1. total_pages \in 0..MaxPages /\ total_pages \in Nat
  BY PmmAssumption DEF Init
<1>2. C \in SUBSET AllPages /\ M \in SUBSET AllPages
  BY DEF Cleared, Marked, AllPages
<1>3. IsFiniteSet(AllPages) /\ Cardinality(AllPages) = total_pages
  BY <1>1, FS_Interval DEF AllPages
<1>4. used = (AllPages \ C) \cup M
  BY DEF Init
<1>5. used_pages = total_pages - Cardinality(C) + Cardinality(C \cap M)
  BY DEF Init
<1> HIDE DEF C, M
<1>6. Accounting
  BY <1>2, <1>3, <1>4, <1>5, BitCount DEF Accounting
<1>7. used_pages \in Int
  <2>1. IsFiniteSet(used)
    BY <1>2, <1>3, <1>4, FS_Subset
  <2> QED
    BY <2>1, <1>6, FS_CardinalityType DEF Accounting
<1>8. TypeOK
  BY <1>1, <1>2, <1>4, <1>7 DEF TypeOK, Init
<1>9. ZeroTaken
  <2>1. 0 \in AllPages => 0 \in M
    BY LowPages DEF M, Marked, AllPages
  <2> QED
    BY <2>1, <1>4 DEF ZeroTaken, Init
<1> QED
  BY <1>1, <1>6, <1>8, <1>9 DEF IInv, NoneBelowHint, Init

(***************************************************************************)
(* pmm_alloc_page returns the lowest free page; the pages it skipped are   *)
(* used, so the hint may pass them.                                        *)
(***************************************************************************)
LEMMA AllocLemma ==
    IInv /\ Alloc => IInv'
<1> SUFFICES ASSUME IInv, Alloc PROVE IInv'
  OBVIOUS
<1> USE DEF IInv
<1>1. PICK i \in AllPages : /\ Found(i)
                            /\ used' = used \cup {i}
                            /\ used_pages' = used_pages + 1
                            /\ search_hint' = NextHint(i)
                            /\ ret' = i
                            /\ held' = held \cup {i}
                            /\ UNCHANGED <<mmap, total_pages>>
  BY DEF Alloc
<1>2. i \in Nat /\ i < total_pages /\ i \notin used /\ total_pages \in Nat /\ search_hint \in Nat
  BY <1>1, PmmAssumption DEF Found, TypeOK, AllPages
<1>3. AllPages' = AllPages
  BY <1>1 DEF AllPages
<1>4. TypeOK'
  BY <1>1, <1>2, <1>3 DEF TypeOK, NextHint
<1>5. Accounting'
  <2>1. Cardinality(used \cup {i}) = Cardinality(used) + 1
    BY <1>2, FiniteBits, FS_AddElement
  <2> QED
    BY <2>1, <1>1 DEF Accounting
<1>6. NoneBelowHint'
  <2>1. \A j \in 0..(i - 1) : j \in used
    BY <1>1, <1>2 DEF Found, NoneBelowHint
  <2> QED
    BY <2>1, <1>1, <1>2 DEF NoneBelowHint, NextHint
<1>7. ZeroTaken'
  BY <1>1, <1>2, <1>3 DEF ZeroTaken
<1> QED
  BY <1>1, <1>4, <1>5, <1>6, <1>7

(***************************************************************************)
(* pmm_free_page clears a bit that is set, once, and lowers the hint.      *)
(***************************************************************************)
LEMMA FreeLemma ==
    ASSUME IInv, NEW p \in 0..MaxPages, Free(p)
    PROVE  IInv'
<1> USE DEF IInv
<1>1. p \in held /\ p \in used /\ p \in Nat /\ p < total_pages
  BY PmmAssumption DEF Free, FreeGuard
<1>2. /\ used' = used \ {p}
      /\ used_pages' = used_pages - 1
      /\ search_hint' = LowerHint(p)
      /\ held' = held \ {p}
      /\ UNCHANGED <<mmap, total_pages, ret>>
  BY DEF Free
<1>3. AllPages' = AllPages
  BY <1>2 DEF AllPages
<1>4. TypeOK'
  BY <1>1, <1>2, <1>3, PmmAssumption DEF TypeOK, LowerHint
<1>5. Accounting'
  <2>1. Cardinality(used \ {p}) = Cardinality(used) - 1
    BY <1>1, FiniteBits, FS_RemoveElement
  <2> QED
    BY <2>1, <1>2 DEF Accounting
<1>6. NoneBelowHint'
  BY <1>1, <1>2, PmmAssumption DEF NoneBelowHint, LowerHint, TypeOK
<1>7. ZeroTaken'
  BY <1>1, <1>2, <1>3 DEF ZeroTaken
<1> QED
  BY <1>2, <1>4, <1>5, <1>6, <1>7

(***************************************************************************)
(* Every step of the manager keeps the invariant.                          *)
(***************************************************************************)
LEMMA StepLemma ==
    IInv /\ [Next]_vars => IInv'
<1> SUFFICES ASSUME IInv, [Next]_vars PROVE IInv'
  OBVIOUS
<1>1. CASE Alloc
  BY <1>1, AllocLemma
<1>2. CASE AllocFails
  BY <1>2 DEF AllocFails, IInv, TypeOK, Accounting, NoneBelowHint, ZeroTaken, AllPages
<1>3. CASE \E p \in 0..MaxPages : Free(p)
  BY <1>3, FreeLemma
<1>4. CASE UNCHANGED vars
  BY <1>4 DEF vars, IInv, TypeOK, Accounting, NoneBelowHint, ZeroTaken, AllPages
<1> QED
  BY <1>1, <1>2, <1>3, <1>4 DEF Next

-----------------------------------------------------------------------------
(***************************************************************************)
(* The inductive invariant holds in every state.                           *)
(***************************************************************************)
THEOREM Invariance ==
    Spec => []IInv
  BY InitLemma, StepLemma, PTL DEF Spec

(***************************************************************************)
(* The state has its type and the hint stays within the memory, for every  *)
(* memory map.                                                             *)
(***************************************************************************)
THEOREM TypeCorrect ==
    Spec => []TypeOK
<1>1. IInv => TypeOK
  BY DEF IInv
<1> QED
  BY <1>1, Invariance, PTL

(***************************************************************************)
(* used_pages is the number of bits set, however the regions overlap.      *)
(***************************************************************************)
THEOREM CountCorrect ==
    Spec => []Accounting
<1>1. IInv => Accounting
  BY DEF IInv
<1> QED
  BY <1>1, Invariance, PTL

(***************************************************************************)
(* There is no free page below the hint, so the second loop of             *)
(* pmm_alloc_page never finds anything.                                    *)
(***************************************************************************)
THEOREM HintCorrect ==
    Spec => []NoneBelowHint
<1>1. IInv => NoneBelowHint
  BY DEF IInv
<1> QED
  BY <1>1, Invariance, PTL

-----------------------------------------------------------------------------
(***************************************************************************)
(* While a page is free the scan finds one.                                *)
(***************************************************************************)
LEMMA ScanFinds ==
    ASSUME IInv, AllPages \ used # {}
    PROVE  \E i \in AllPages : Found(i)
<1> DEFINE S == AllPages \ used
<1>1. total_pages \in Nat /\ search_hint \in Nat
  BY PmmAssumption DEF IInv, TypeOK
<1>2. S \in SUBSET Nat
  BY <1>1 DEF AllPages
<1>3. PICK x \in S : \A y \in S : x <= y
  <2> HIDE DEF S
  <2> QED BY <1>2, LeastElement DEF S
<1>4. x \in AllPages /\ x \notin used /\ x \in Nat
  BY <1>2, <1>3
<1>5. \A j \in 0..(x - 1) : j \in used
  BY <1>1, <1>3, <1>4 DEF AllPages
<1>6. x >= search_hint
  BY <1>1, <1>4 DEF IInv, NoneBelowHint
<1> QED
  BY <1>1, <1>4, <1>5, <1>6 DEF Found

(***************************************************************************)
(* The bitmap with its hint implements a set of free pages: an allocation  *)
(* takes a free page, fails only when none is left, and never returns the  *)
(* address that stands for failure.                                        *)
(***************************************************************************)
THEOREM Refinement ==
    Spec => Implements
<1> USE DEF PA!ANext, PA!ATake, PA!AFail, PA!AGive
<1>1. Init => PA!AInit
  <2> SUFFICES ASSUME Init PROVE PA!AInit
    OBVIOUS
  <2>1. TypeOK
    BY InitLemma DEF IInv
  <2>2. AllPages \ used \in SUBSET (0..(MaxPages - 1))
    BY <2>1, PmmAssumption DEF TypeOK, AllPages
  <2> QED
    BY <2>2 DEF PA!AInit, Init
<1>2. IInv /\ Alloc => PA!ATake
  <2> SUFFICES ASSUME IInv, Alloc PROVE PA!ATake
    OBVIOUS
  <2>1. PICK i \in AllPages : /\ Found(i) /\ used' = used \cup {i} /\ ret' = i
                              /\ total_pages' = total_pages
    BY DEF Alloc
  <2>2. i \in AllPages \ used /\ i # 0
    BY <2>1 DEF Found, IInv, ZeroTaken
  <2>3. (AllPages \ used)' = (AllPages \ used) \ {i}
    BY <2>1 DEF AllPages
  <2> QED
    BY <2>1, <2>2, <2>3
<1>3. IInv /\ AllocFails => PA!AFail
  <2> SUFFICES ASSUME IInv, AllocFails PROVE PA!AFail
    OBVIOUS
  <2>1. AllPages \ used = {}
    BY ScanFinds DEF AllocFails
  <2> QED
    BY <2>1 DEF AllocFails, AllPages
<1>4. ASSUME IInv, NEW p \in 0..MaxPages, Free(p) PROVE PA!AGive
  <2>1. /\ p \in used /\ p \in AllPages /\ p \in 0..(MaxPages - 1)
        /\ used' = used \ {p} /\ ret' = ret /\ AllPages' = AllPages
    BY <1>4, PmmAssumption DEF Free, FreeGuard, IInv, TypeOK, AllPages
  <2>2. (AllPages \ used)' = (AllPages \ used) \cup {p}
    BY <2>1
  <2> QED
    BY <2>1, <2>2
<1>5. UNCHANGED vars => UNCHANGED <<AllPages \ used, IF ret = 0 THEN NoPage ELSE ret>>
  BY DEF vars, AllPages
<1>6. IInv /\ [Next]_vars => [PA!ANext]_<<AllPages \ used, IF ret = 0 THEN NoPage ELSE ret>>
  BY <1>2, <1>3, <1>4, <1>5 DEF Next
<1> QED
  BY <1>1, <1>6, Invariance, PTL DEF Spec, Implements, PA!ASpec

-----------------------------------------------------------------------------
(***************************************************************************)
(* Rounding in pmm_init: the page a rounded-up address begins with does    *)
(* not begin before the address, and the last page before a rounded-down   *)
(* address does not end after it.                                          *)
(***************************************************************************)
LEMMA RoundUp ==
    ASSUME NEW a \in Nat, NEW n \in Nat \ {0}, NEW p \in Nat, p >= (a + n - 1) \div n
    PROVE  a <= p * n
<1> DEFINE q == (a + n - 1) \div n
<1>1. q \in Nat /\ a + n - 1 < n * q + n
  OBVIOUS
<1> HIDE DEF q
<1>2. q * n <= p * n
  BY <1>1 DEF q
<1> QED
  BY <1>1, <1>2

LEMMA RoundDown ==
    ASSUME NEW b \in Nat, NEW n \in Nat \ {0}, NEW p \in Nat, p <= b \div n - 1
    PROVE  (p + 1) * n <= b
<1> DEFINE q == b \div n
<1>1. q \in Nat /\ n * q <= b
  OBVIOUS
<1>2. p + 1 <= q
  BY <1>1
<1> HIDE DEF q
<1>3. (p + 1) * n <= q * n
  BY <1>1, <1>2
<1> QED
  BY <1>1, <1>3

(***************************************************************************)
(* pmm_init frees nothing but whole pages of one available region, and     *)
(* nothing of the low memory.                                              *)
(***************************************************************************)
LEMMA InitMemory == Init => OnlyMemory
<1> SUFFICES ASSUME Init, NEW p \in AllPages \ used
             PROVE  /\ p * PAGE_SIZE >= LOW_END
                    /\ \E e \in Available(mmap) : /\ e.addr <= p * PAGE_SIZE
                                                  /\ (p + 1) * PAGE_SIZE <= e.addr + e.len
  BY DEF Init, OnlyMemory
<1> USE PmmAssumption
<1>1. total_pages \in Nat /\ p \in 0..(total_pages - 1) /\ p \in Nat
  BY DEF Init, AllPages
<1>2. p \in Cleared(mmap, total_pages) /\ p \notin Marked(total_pages)
  BY DEF Init
<1>3. p * PAGE_SIZE >= LOW_END
  <2>1. p \notin WholePages(0, LOW_END)
    BY <1>1, <1>2 DEF Marked
  <2> DEFINE q == LOW_END \div PAGE_SIZE
  <2>2. (0 + PAGE_SIZE - 1) \div PAGE_SIZE = 0
    OBVIOUS
  <2>3. q \in Nat /\ q * PAGE_SIZE = LOW_END
    OBVIOUS
  <2>4. p >= q
    BY <1>1, <2>1, <2>2, <2>3 DEF WholePages
  <2> HIDE DEF q
  <2>5. p * PAGE_SIZE >= q * PAGE_SIZE
    BY <1>1, <2>3, <2>4
  <2> QED
    BY <2>3, <2>5
<1>4. PICK e \in Available(mmap) :
           p \in WholePages(e.addr, Least(e.addr + e.len, MAX_MEMORY))
  BY <1>2 DEF Cleared
<1>5. e.addr \in Nat /\ e.len \in Nat
  BY <1>4, MapAssumption DEF Init, Available
<1> DEFINE b == Least(e.addr + e.len, MAX_MEMORY)
<1>6. b \in Nat /\ b <= e.addr + e.len
  BY <1>5 DEF Least
<1> HIDE DEF b
<1>7. p >= (e.addr + PAGE_SIZE - 1) \div PAGE_SIZE /\ p <= b \div PAGE_SIZE - 1
  BY <1>1, <1>4, <1>5, <1>6 DEF WholePages, b
<1>8. e.addr <= p * PAGE_SIZE
  BY <1>1, <1>5, <1>7, RoundUp
<1>9. (p + 1) * PAGE_SIZE <= b
  BY <1>1, <1>6, <1>7, RoundDown
<1>10. (p + 1) * PAGE_SIZE \in Nat
  BY <1>1
<1>11. (p + 1) * PAGE_SIZE <= e.addr + e.len
  BY <1>5, <1>6, <1>9, <1>10
<1> QED
  BY <1>3, <1>8, <1>11

(***************************************************************************)
(* Nobody is ever given a page that is not memory, or one of the kernel's, *)
(* whatever the machine's memory map: a page only partly inside a region   *)
(* never becomes free, and what is given back was given out.               *)
(***************************************************************************)
THEOREM MemoryCorrect == Spec => []OnlyMemory
<1>1. ASSUME IInv, OnlyMemory, [Next]_vars
      PROVE  OnlyMemory'
  <2> DEFINE Mine == held \cup (AllPages \ used)
  <2>1. mmap' = mmap
    BY <1>1 DEF Next, Alloc, AllocFails, Free, vars
  <2>2. Alloc => Mine' \subseteq Mine
    BY DEF Alloc, Found, AllPages
  <2>3. ASSUME NEW p \in 0..MaxPages, Free(p)
        PROVE  Mine' \subseteq Mine
    BY <1>1, <2>3 DEF Free, FreeGuard, IInv, AllPages
  <2>4. AllocFails \/ UNCHANGED vars => Mine' \subseteq Mine
    BY DEF AllocFails, vars, AllPages
  <2>5. Mine' \subseteq Mine
    BY <1>1, <2>2, <2>3, <2>4 DEF Next
  <2> QED
    BY <1>1, <2>1, <2>5 DEF OnlyMemory
<1> QED
  BY <1>1, InitMemory, Invariance, PTL DEF Spec
=============================================================================
