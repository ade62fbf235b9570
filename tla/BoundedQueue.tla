---------------------------- MODULE BoundedQueue ----------------------------
(***************************************************************************)
(* What a ring buffer promises: items come out in the order they were put  *)
(* in, each once, and one is dropped only when the queue is full.          *)
(*                                                                         *)
(* Every call on the queue is an event of its own, whether or not it       *)
(* changes what is waiting: an implementation cannot pass a lost item off  *)
(* as a step on which nothing happened, nor as an emptying nobody asked    *)
(* for.                                                                    *)
(***************************************************************************)
EXTENDS Integers, Sequences

CONSTANTS Items, Capacity, NoItem

VARIABLES
    q,              \* what is waiting
    out,            \* what was taken last, in order
    call            \* the last call, the item it offered, a bit that every call turns

Called(op, x) == call' = <<op, x, 1 - call[3]>>

Offer(x) ==
    /\ q' = IF Len(q) < Capacity THEN Append(q, x) ELSE q
    /\ Called("offer", x)
    /\ UNCHANGED out

Take(n) ==
    /\ out' = SubSeq(q, 1, n)
    /\ q' = SubSeq(q, n + 1, Len(q))
    /\ Called("take", NoItem)

(***************************************************************************)
(* A queue only its two ends work on.                                      *)
(***************************************************************************)
Flow ==
    \/ \E x \in Items : Offer(x)
    \/ \E n \in 1..Len(q) : Take(n)

(***************************************************************************)
(* A queue that can also be emptied.                                       *)
(***************************************************************************)
Clear ==
    /\ q' = << >>
    /\ Called("clear", NoItem)
    /\ UNCHANGED out

QNext == Flow \/ Clear
=============================================================================
