------------------------------ MODULE Keyboard ------------------------------
(***************************************************************************)
(* The keyboard: the interrupt handler and the ring buffer of              *)
(* kernel/drivers/keyboard.c, the loop of SYS_READ that empties it and the *)
(* drain of SYS_EXIT.                                                      *)
(*                                                                         *)
(* A handler runs with interrupts off.  SYS_READ starts with interrupts    *)
(* off, but from its first "sti; hlt" on they stay enabled: from there     *)
(* every access to the ring is a step of its own, between which the        *)
(* keyboard may interrupt and the timer may run another task.              *)
(***************************************************************************)
EXTENDS Integers, Sequences

CONSTANTS
    KBD_BUF_SIZE,   \* slots of the ring
    Plain,          \* keys that give the same character with shift
    Letters,        \* keys that give another one
    Readers,        \* tasks that may be in SYS_READ at the same time
    MaxWant         \* bound: characters a SYS_READ asks for

ASSUME KeyboardAssumption ==
    KBD_BUF_SIZE \in Nat /\ KBD_BUF_SIZE > 1 /\ MaxWant \in Nat /\ Plain \cap Letters = {}

Slots == 0..(KBD_BUF_SIZE - 1)
Chars == (Plain \cup Letters) \X BOOLEAN   \* a key, and whether it was shifted
NoChar == <<"none", FALSE>>

VARIABLES
    kbd_buf, kbd_head, kbd_tail,
    shift_pressed,
    loop,           \* per reader: where it is in SYS_READ
    need,           \* per reader: want - got
    char,           \* per reader: c
    sum,            \* per reader: kbd_tail + 1, computed and not yet stored
    given,          \* observer: the characters delivered by the last step that delivered any
    kcall,          \* observer: the last call on the ring, as BoundedQueue has it
    raced           \* observer: the tail was moved while a reader was inside getchar

kvars == <<kbd_buf, kbd_head, kbd_tail, shift_pressed, loop, need, char, sum, given,
           kcall, raced>>
ring  == <<kbd_buf, kbd_head>>

Count == (kbd_head - kbd_tail) % KBD_BUF_SIZE

(***************************************************************************)
(* The readers between their test of the ring and their store of the tail. *)
(***************************************************************************)
Inside == {r \in Readers : loop[r] \in {"fetch", "load", "store"}}

Waiting == [i \in 1..Count |-> kbd_buf[(kbd_tail + i - 1) % KBD_BUF_SIZE]]

KInit ==
    /\ kbd_buf = [i \in Slots |-> NoChar]
    /\ kbd_head = 0 /\ kbd_tail = 0
    /\ shift_pressed = FALSE
    /\ loop = [r \in Readers |-> "out"]
    /\ need = [r \in Readers |-> 0]
    /\ char = [r \in Readers |-> NoChar]
    /\ sum = [r \in Readers |-> 0]
    /\ given = << >>
    /\ kcall = <<"none", NoChar, 0>>
    /\ raced = FALSE

-----------------------------------------------------------------------------
(***************************************************************************)
(* keyboard_handler.  Either shift key sets and clears the one flag; other *)
(* releases, function keys and bytes of the mouse change nothing.          *)
(***************************************************************************)
Shift(down) ==
    /\ shift_pressed' = down
    /\ UNCHANGED <<ring, kbd_tail, loop, need, char, sum, given, kcall, raced>>

Character(key) == <<key, shift_pressed /\ key \in Letters>>

FullLate(next) == FALSE             \* mutant: no test for a full ring

IsFull(next) == next = kbd_tail

(***************************************************************************)
(* kbd_push: one slot always stays empty.                                  *)
(***************************************************************************)
KeyDown(key) ==
    LET next == (kbd_head + 1) % KBD_BUF_SIZE
    IN  /\ IF IsFull(next) THEN UNCHANGED ring
           ELSE /\ kbd_buf' = [kbd_buf EXCEPT ![kbd_head] = Character(key)]
                /\ kbd_head' = next
        /\ kcall' = <<"offer", Character(key), 1 - kcall[3]>>
        /\ UNCHANGED <<kbd_tail, shift_pressed, loop, need, char, sum, given, raced>>

(***************************************************************************)
(* SYS_READ of n characters as far as it gets with interrupts off: it      *)
(* takes what is there and returns, or halts for the rest.                 *)
(***************************************************************************)
SysRead(r, n) ==
    /\ loop[r] = "out"
    /\ LET k == IF Count < n THEN Count ELSE n
       IN  /\ kbd_tail' = (kbd_tail + k) % KBD_BUF_SIZE
           /\ given' = IF k = 0 THEN given ELSE SubSeq(Waiting, 1, k)
           /\ kcall' = IF k = 0 THEN kcall ELSE <<"take", NoChar, 1 - kcall[3]>>
           /\ need' = [need EXCEPT ![r] = n - k]
           /\ loop' = [loop EXCEPT ![r] = IF k = n THEN "out" ELSE "poll"]
           /\ raced' = (raced \/ (k > 0 /\ Inside # {}))
    /\ UNCHANGED <<ring, shift_pressed, char, sum>>

(***************************************************************************)
(* The loop with interrupts on: keyboard_getchar_nonblock tests the ring,  *)
(* fetches the character, reads the tail once more and stores it plus one. *)
(***************************************************************************)
Poll(r) ==
    /\ loop[r] = "poll" /\ kbd_head # kbd_tail
    /\ loop' = [loop EXCEPT ![r] = "fetch"]
    /\ UNCHANGED <<ring, kbd_tail, shift_pressed, need, char, sum, given, kcall, raced>>

Fetch(r) ==
    /\ loop[r] = "fetch"
    /\ char' = [char EXCEPT ![r] = kbd_buf[kbd_tail]]
    /\ loop' = [loop EXCEPT ![r] = "load"]
    /\ UNCHANGED <<ring, kbd_tail, shift_pressed, need, sum, given, kcall, raced>>

Load(r) ==
    /\ loop[r] = "load"
    /\ sum' = [sum EXCEPT ![r] = (kbd_tail + 1) % KBD_BUF_SIZE]
    /\ loop' = [loop EXCEPT ![r] = "store"]
    /\ UNCHANGED <<ring, kbd_tail, shift_pressed, need, char, given, kcall, raced>>

Store(r) ==
    /\ loop[r] = "store"
    /\ kbd_tail' = sum[r]
    /\ given' = <<char[r]>>
    /\ kcall' = <<"take", NoChar, 1 - kcall[3]>>
    /\ need' = [need EXCEPT ![r] = @ - 1]
    /\ loop' = [loop EXCEPT ![r] = IF need[r] = 1 THEN "out" ELSE "poll"]
    /\ char' = [char EXCEPT ![r] = NoChar]
    /\ sum' = [sum EXCEPT ![r] = 0]
    /\ raced' = (raced \/ Inside # {r})
    /\ UNCHANGED <<ring, shift_pressed>>

(***************************************************************************)
(* SYS_EXIT of any task throws away what has been typed.                   *)
(***************************************************************************)
ExitDrain ==
    /\ kbd_tail' = kbd_head
    /\ kcall' = <<"clear", NoChar, 1 - kcall[3]>>
    /\ raced' = (raced \/ (kbd_tail # kbd_head /\ Inside # {}))
    /\ UNCHANGED <<ring, shift_pressed, loop, need, char, sum, given>>

KNext ==
    \/ \E d \in BOOLEAN : Shift(d)
    \/ \E k \in Plain \cup Letters : KeyDown(k)
    \/ \E r \in Readers : \/ \E n \in 1..MaxWant : SysRead(r, n)
                          \/ Poll(r) \/ Fetch(r) \/ Load(r) \/ Store(r)
    \/ ExitDrain

KSpec == KInit /\ [][KNext]_kvars

-----------------------------------------------------------------------------
KQueue == INSTANCE BoundedQueue
            WITH Items <- Chars, Capacity <- KBD_BUF_SIZE - 1, q <- Waiting, out <- given,
                 call <- kcall, NoItem <- NoChar

(***************************************************************************)
(* The ring is a queue: what is typed is delivered in order and each       *)
(* character once, only a full ring drops one and only SYS_EXIT empties    *)
(* it, although the handler interrupts the reader between any two of its   *)
(* accesses.  Not promised once a second task has moved the tail under a   *)
(* reader that is inside keyboard_getchar_nonblock: an exit that drains    *)
(* the ring there leaves the tail ahead of the head.                       *)
(***************************************************************************)
KeysDelivered == [][raced' \/ KQueue!QNext]_<<Waiting, given, kcall>>
=============================================================================
