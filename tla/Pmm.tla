--------------------------------- MODULE Pmm ---------------------------------
(***************************************************************************)
(* The physical memory manager, kernel/mm/pmm.c: a bitmap with one bit per *)
(* page, a counter of set bits and a hint where to search next.  It is     *)
(* called from system calls and from kmain, never from an interrupt        *)
(* handler, so each function is one action.                                *)
(***************************************************************************)
EXTENDS Integers, FiniteSets

CONSTANTS
    PAGE_SIZE,
    MAX_MEMORY,
    LOW_END,        \* 0x800000: the kernel keeps everything below it
    MaxPages,       \* MAX_MEMORY / PAGE_SIZE
    MemoryMaps,     \* the multiboot memory maps: sets of [addr, len, type]
    Reserved        \* <<start, end>> of the kernel image and the multiboot data

ASSUME PmmAssumption ==
    /\ PAGE_SIZE \in Nat \ {0}
    /\ MaxPages \in Nat
    /\ MAX_MEMORY \in Nat /\ MAX_MEMORY \div PAGE_SIZE = MaxPages
    /\ LOW_END \in Nat \ {0} /\ LOW_END % PAGE_SIZE = 0

ASSUME MapAssumption == \A m \in MemoryMaps : \A e \in m : e.addr \in Nat /\ e.len \in Nat

VARIABLES
    mmap,           \* the map the machine was booted with
    total_pages,
    used,           \* the pages whose bit is set in the bitmap
    used_pages,
    search_hint,
    ret,            \* the page pmm_alloc_page returned last, 0 for failure
    held            \* the pages given to callers and not given back

vars == <<mmap, total_pages, used, used_pages, search_hint, ret, held>>

AllPages == 0..(total_pages - 1)
Least(a, b) == IF a < b THEN a ELSE b

-----------------------------------------------------------------------------
(***************************************************************************)
(* pmm_init.  Addresses are rounded to whole pages: a region of available  *)
(* memory inwards, a range to be marked used inwards too.                  *)
(***************************************************************************)
TouchedPages(start, end) ==         \* mutant: every page the range touches
    (start \div PAGE_SIZE)..((end + PAGE_SIZE - 1) \div PAGE_SIZE - 1)

WholePages(start, end) ==
    ((start + PAGE_SIZE - 1) \div PAGE_SIZE)..(end \div PAGE_SIZE - 1)

Available(m) == {e \in m : e.type = 1}

EndPage(e) == Least(e.addr + e.len, MAX_MEMORY) \div PAGE_SIZE

(***************************************************************************)
(* n is total_pages: the page after the highest end of available memory.   *)
(***************************************************************************)
IsTotal(m, n) == /\ \A e \in Available(m) : EndPage(e) <= n
                 /\ n = 0 \/ \E e \in Available(m) : EndPage(e) = n

(***************************************************************************)
(* The bits the second pass over the map clears, and the ones mark_used    *)
(* sets again.                                                             *)
(***************************************************************************)
Cleared(m, n) ==
    {p \in 0..(n - 1) :
        \E e \in Available(m) : p \in WholePages(e.addr, Least(e.addr + e.len, MAX_MEMORY))}

Marked(n) ==
    {p \in 0..(n - 1) :
        p \in WholePages(0, LOW_END) \/ \E r \in Reserved : p \in WholePages(r[1], r[2])}

(***************************************************************************)
(* used_pages starts at total_pages, goes down for every bit cleared and   *)
(* up for every bit that mark_used finds clear.                            *)
(***************************************************************************)
Init ==
    /\ mmap \in MemoryMaps
    /\ total_pages \in 0..MaxPages /\ IsTotal(mmap, total_pages)
    /\ used = (AllPages \ Cleared(mmap, total_pages)) \cup Marked(total_pages)
    /\ used_pages = total_pages - Cardinality(Cleared(mmap, total_pages))
                    + Cardinality(Cleared(mmap, total_pages) \cap Marked(total_pages))
    /\ search_hint = 0
    /\ ret = 0
    /\ held = {}

-----------------------------------------------------------------------------
(***************************************************************************)
(* pmm_alloc_page: the first clear bit from the hint up, else the first    *)
(* one below the hint, else 0.                                             *)
(***************************************************************************)
FoundPastHint(i) ==                 \* mutant: the first loop starts one too far
    /\ i \notin used
    /\ \/ i > search_hint /\ \A j \in (search_hint + 1)..(i - 1) : j \in used
       \/ /\ i < search_hint
          /\ \A j \in (search_hint + 1)..(total_pages - 1) : j \in used
          /\ \A j \in 0..(i - 1) : j \in used

Found(i) ==
    /\ i \notin used
    /\ \/ i >= search_hint /\ \A j \in search_hint..(i - 1) : j \in used
       \/ /\ i < search_hint
          /\ \A j \in search_hint..(total_pages - 1) : j \in used
          /\ \A j \in 0..(i - 1) : j \in used

SkipOne(i) == i + 2                 \* mutant: the hint leaves a page out

NextHint(i) == i + 1

Alloc ==
    \E i \in AllPages :
        /\ Found(i)
        /\ used' = used \cup {i}
        /\ used_pages' = used_pages + 1
        /\ search_hint' = NextHint(i)
        /\ ret' = i
        /\ held' = held \cup {i}
        /\ UNCHANGED <<mmap, total_pages>>

AllocFails ==
    /\ \A i \in AllPages : ~ Found(i)
    /\ ret' = 0
    /\ UNCHANGED <<mmap, total_pages, used, used_pages, search_hint, held>>

(***************************************************************************)
(* pmm_free_page: callers give back what they hold.  The page of an        *)
(* address that is free already, or beyond the memory, is left alone.      *)
(***************************************************************************)
NoGuard(p) == TRUE                  \* mutant: a page may be given back twice

FreeGuard(p) == p < total_pages /\ p \in used

KeepHint(p) == search_hint          \* mutant: the hint stays above the page

LowerHint(p) == IF p < search_hint THEN p ELSE search_hint

Free(p) ==
    /\ p \in held \/ p \notin used
    /\ FreeGuard(p)
    /\ used' = used \ {p}
    /\ used_pages' = used_pages - 1
    /\ search_hint' = LowerHint(p)
    /\ held' = held \ {p}
    /\ UNCHANGED <<mmap, total_pages, ret>>

Next == Alloc \/ AllocFails \/ \E p \in 0..MaxPages : Free(p)

Spec == Init /\ [][Next]_vars

-----------------------------------------------------------------------------
(***************************************************************************)
(* The state of the manager has its type, and the hint never points past   *)
(* the end of the memory, where the first loop would skip every page.      *)
(***************************************************************************)
TypeOK ==
    /\ total_pages \in 0..MaxPages
    /\ used \in SUBSET AllPages
    /\ used_pages \in Int
    /\ search_hint \in 0..total_pages
    /\ ret \in Nat
    /\ held \in SUBSET AllPages

(***************************************************************************)
(* used_pages, which sysinfo shows and which pmm_free_pages subtracts      *)
(* from total_pages, is the number of bits set, however memory regions and *)
(* reserved ranges overlap and however often a page is given back.         *)
(***************************************************************************)
Accounting == used_pages = Cardinality(used)

(***************************************************************************)
(* There is no free page below the hint: every allocation finds the lowest *)
(* free page, and the second loop of pmm_alloc_page never has to.          *)
(***************************************************************************)
NoneBelowHint == \A p \in 0..(search_hint - 1) : p \in used

(***************************************************************************)
(* Nobody is given a page that is not memory: every page that is free or   *)
(* held lies inside one available region and outside the low memory.       *)
(***************************************************************************)
OnlyMemory ==
    \A p \in held \cup (AllPages \ used) :
        /\ p * PAGE_SIZE >= LOW_END
        /\ \E e \in Available(mmap) : /\ e.addr <= p * PAGE_SIZE
                                      /\ (p + 1) * PAGE_SIZE <= e.addr + e.len

(***************************************************************************)
(* The bitmap, the hint and the two loops together behave as a set of free *)
(* pages: an allocation fails only when no page is free, and the address 0 *)
(* is never a page that has been given out.                                *)
(***************************************************************************)
NoPage == -1
PA == INSTANCE PageAllocator WITH
        Pages <- 0..(MaxPages - 1),
        free  <- AllPages \ used,
        out   <- IF ret = 0 THEN NoPage ELSE ret

Implements == PA!ASpec
=============================================================================
