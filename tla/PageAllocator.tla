---------------------------- MODULE PageAllocator ----------------------------
(***************************************************************************)
(* What the callers of the physical memory manager rely on: an allocation  *)
(* takes some free page and fails only when there is none; a page that has *)
(* been given back is free again.  Which page is taken is left open.       *)
(***************************************************************************)
EXTENDS Integers

CONSTANTS Pages, NoPage

VARIABLES free, out     \* the free pages, and the result of the last allocation

AInit  == free \in SUBSET Pages /\ out = NoPage

ATake  == \E p \in free : free' = free \ {p} /\ out' = p

AFail  == free = {} /\ out' = NoPage /\ UNCHANGED free

AGive  == \E p \in Pages \ free : free' = free \cup {p} /\ UNCHANGED out

ANext  == ATake \/ AFail \/ AGive

ASpec  == AInit /\ [][ANext]_<<free, out>>
=============================================================================
