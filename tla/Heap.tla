-------------------------------- MODULE Heap --------------------------------
(***************************************************************************)
(* The kernel heap, kernel/mm/heap.c: a list of blocks, first fit, with    *)
(* splitting in kmalloc and merging in kfree.  A block starts with its     *)
(* header; the caller is given the address behind it.  The heap starts at  *)
(* address ALIGN instead of HEAP_START, so that 0 is no address in it.     *)
(***************************************************************************)
EXTENDS Integers, Sequences, FiniteSets, SequencesExt

CONSTANTS
    HEAP_SIZE,      \* bytes of the heap
    HEADER_SIZE,    \* sizeof(block_t)
    ALIGN,          \* 16
    SPLIT,          \* 64: a rest with less payload is not split off
    Sizes           \* the arguments of kmalloc

ASSUME HeapAssumption ==
    /\ {HEAP_SIZE, HEADER_SIZE, ALIGN, SPLIT} \subseteq Nat \ {0}
    /\ HEAP_SIZE % ALIGN = 0 /\ HEADER_SIZE % ALIGN = 0 /\ HEADER_SIZE < HEAP_SIZE
    /\ Sizes \subseteq Nat

VARIABLES
    blocks,         \* the list from head along ->next: [addr, size, is_free]
    live            \* observer: what callers hold, [ptr, size]

vars == <<blocks, live>>

HeapStart == ALIGN
HeapEnd   == HeapStart + HEAP_SIZE

Block(a, s, f) == [addr |-> a, size |-> s, is_free |-> f]
EndOf(b)       == b.addr + b.size

-----------------------------------------------------------------------------
(***************************************************************************)
(* kmalloc: the size of the block, header included, rounded up.            *)
(***************************************************************************)
AlignUp(x) == ((x + ALIGN - 1) \div ALIGN) * ALIGN

PayloadOnly(size) == AlignUp(size)  \* mutant: the header is forgotten

Need(size) ==
    LET n == AlignUp(size + HEADER_SIZE)
    IN  IF n < HEADER_SIZE + ALIGN THEN HEADER_SIZE + ALIGN ELSE n

Fits(b, need) == b.is_free /\ b.size >= need

FirstFit(i, need) ==
    /\ Fits(blocks[i], need)
    /\ \A j \in 1..(i - 1) : ~Fits(blocks[j], need)

(***************************************************************************)
(* The block that is taken, and the rest if there is enough of it.         *)
(***************************************************************************)
Headless(b, need) ==                \* mutant: the rest is short of a header
    <<Block(b.addr, need, FALSE),
      Block(b.addr + need, b.size - need - HEADER_SIZE, TRUE)>>

Split(b, need) ==
    <<Block(b.addr, need, FALSE), Block(b.addr + need, b.size - need, TRUE)>>

Take(b, need) ==
    IF b.size >= need + HEADER_SIZE + SPLIT
    THEN Split(b, need)
    ELSE <<[b EXCEPT !.is_free = FALSE]>>

(***************************************************************************)
(* merge_all: one walk along the list; a block that has swallowed its      *)
(* successor is compared with the next one again.                          *)
(***************************************************************************)
KeepApart(s, b) == Append(s, b)     \* mutant: nothing is merged

Absorb(s, b) ==
    IF Len(s) > 0 /\ Last(s).is_free /\ b.is_free /\ EndOf(Last(s)) = b.addr
    THEN Append(Front(s), Block(Last(s).addr, Last(s).size + b.size, TRUE))
    ELSE Append(s, b)

MergeAll(bs) ==
    LET merged[n \in 0..Len(bs)] ==
            IF n = 0 THEN << >> ELSE Absorb(merged[n - 1], bs[n])
    IN  merged[Len(bs)]

-----------------------------------------------------------------------------
(***************************************************************************)
(* heap_init: one free block.                                              *)
(***************************************************************************)
Init ==
    /\ blocks = <<Block(HeapStart, HEAP_SIZE, TRUE)>>
    /\ live = {}

Kmalloc(size) ==
    /\ size # 0
    /\ \E i \in 1..Len(blocks) :
        /\ FirstFit(i, Need(size))
        /\ blocks' = SubSeq(blocks, 1, i - 1) \o Take(blocks[i], Need(size))
                        \o SubSeq(blocks, i + 1, Len(blocks))
        /\ live' = live \cup {[ptr |-> blocks[i].addr + HEADER_SIZE, size |-> size]}

KmallocFails(size) ==
    /\ size = 0 \/ \A i \in 1..Len(blocks) : ~Fits(blocks[i], Need(size))
    /\ UNCHANGED vars

(***************************************************************************)
(* kfree of a pointer the caller holds.  The tests for a pointer outside   *)
(* the heap and for a block that is free already are its guard.            *)
(***************************************************************************)
Kfree(a) ==
    /\ a.ptr >= HeapStart + HEADER_SIZE /\ a.ptr < HeapEnd
    /\ \E i \in 1..Len(blocks) :
        /\ blocks[i].addr = a.ptr - HEADER_SIZE /\ ~blocks[i].is_free
        /\ blocks' = MergeAll([blocks EXCEPT ![i].is_free = TRUE])
    /\ live' = live \ {a}

Next ==
    \/ \E size \in Sizes : Kmalloc(size)
    \/ \E size \in Sizes : KmallocFails(size)
    \/ \E a \in live : Kfree(a)

Spec == Init /\ [][Next]_vars

-----------------------------------------------------------------------------
Used == {i \in 1..Len(blocks) : ~blocks[i].is_free}

(***************************************************************************)
(* Splitting and merging neither lose nor invent memory: along the list    *)
(* each block starts where the one before it ends, from the first byte of  *)
(* the heap to the last, and has room for its header and some payload.     *)
(***************************************************************************)
Tiles ==
    /\ blocks[1].addr = HeapStart
    /\ \A i \in 1..Len(blocks) :
        /\ EndOf(blocks[i]) = IF i = Len(blocks) THEN HeapEnd ELSE blocks[i + 1].addr
        /\ blocks[i].size >= HEADER_SIZE + ALIGN

(***************************************************************************)
(* What a caller is given is his alone until he gives it back: it is       *)
(* aligned, as long as he asked for, and inside one used block behind its  *)
(* header; every used block has exactly one owner, so a kfree reaches the  *)
(* header it is meant for.                                                 *)
(***************************************************************************)
Owner(a, i) == /\ a.ptr = blocks[i].addr + HEADER_SIZE
               /\ a.ptr + a.size <= EndOf(blocks[i])

OwnedApart ==
    /\ \A a \in live : a.ptr % ALIGN = 0 /\ \E i \in Used : Owner(a, i)
    /\ \A i \in Used : \E a \in live : Owner(a, i)
    /\ \A a, b \in live : a # b => a.ptr + a.size <= b.ptr - HEADER_SIZE
                                   \/ b.ptr + b.size <= a.ptr - HEADER_SIZE

(***************************************************************************)
(* kmalloc reports exhaustion only when it is true: if any stretch of the  *)
(* heap long enough for the request touches no used block, the walk finds  *)
(* a free block that is long enough.  Two free neighbours that kfree left  *)
(* unmerged would break this.                                              *)
(***************************************************************************)
RoomIsFound ==
    \A size \in Sizes \ {0} :
        (\E s \in HeapStart..(HeapEnd - Need(size)) :
            \A i \in Used : EndOf(blocks[i]) <= s \/ blocks[i].addr >= s + Need(size))
        => \E i \in 1..Len(blocks) : Fits(blocks[i], Need(size))
=============================================================================
