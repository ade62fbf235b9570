---------------------------- MODULE RingProofs ----------------------------
(***************************************************************************)
(* Proofs about the rings of modules Keyboard and E1000, for rings of any  *)
(* size, any number of readers and any packets.  The lemmas on top say     *)
(* once what a ring buffer with one empty slot does; the two modules only  *)
(* differ in who moves which end.                                          *)
(***************************************************************************)
EXTENDS Keyboard, E1000, SequenceTheorems, TLAPS

(***************************************************************************)
(* The remainder, a name the provers need not look behind.                 *)
(***************************************************************************)
Mod(x, n) == x % n

(***************************************************************************)
(* What waits in a ring b of n slots between its tail t and its head h.    *)
(***************************************************************************)
Ring(b, t, h, n) == [i \in 1..Mod(h - t, n) |-> b[Mod(t + i - 1, n)]]

-----------------------------------------------------------------------------
(***************************************************************************)
(* The remainder of a number that is at most one turn out of range.        *)
(***************************************************************************)
LEMMA Wrap ==
    ASSUME NEW n \in Nat \ {0}
    PROVE  /\ \A x \in 0..(n - 1) : Mod(x, n) = x
           /\ \A x \in n..(2 * n - 1) : Mod(x, n) = x - n
           /\ \A x \in (0 - n)..(-1) : Mod(x, n) = x + n
  BY DEF Mod

(***************************************************************************)
(* The number of waiting items, and the slot of each.                      *)
(***************************************************************************)
LEMMA Distance ==
    ASSUME NEW n \in Nat \ {0}, NEW t \in 0..(n - 1), NEW h \in 0..(n - 1)
    PROVE  /\ Mod(h - t, n) \in 0..(n - 1)
           /\ Mod(h - t, n) = IF h >= t THEN h - t ELSE h - t + n
           /\ (Mod(h - t, n) = 0) <=> (h = t)
           /\ \A i \in 1..n : Mod(t + i - 1, n) = IF t + i - 1 < n THEN t + i - 1 ELSE t + i - 1 - n
<1>1. h - t \in 0..(n - 1) \/ h - t \in (0 - n)..(-1)
  OBVIOUS
<1>2. \A i \in 1..n : t + i - 1 \in 0..(n - 1) \/ t + i - 1 \in n..(2 * n - 1)
  OBVIOUS
<1>3. Mod(h - t, n) = IF h >= t THEN h - t ELSE h - t + n
  BY <1>1, Wrap
<1>4. \A i \in 1..n : Mod(t + i - 1, n) = IF t + i - 1 < n THEN t + i - 1 ELSE t + i - 1 - n
  BY <1>2, Wrap
<1> QED
  BY <1>3, <1>4

(***************************************************************************)
(* The next slot, and that stepping there from h makes the distance one    *)
(* longer unless it arrives at t.                                          *)
(***************************************************************************)
LEMMA NextSlot ==
    ASSUME NEW n \in Nat \ {0}, NEW h \in 0..(n - 1)
    PROVE  /\ Mod(h + 1, n) \in 0..(n - 1)
           /\ Mod(h + 1, n) = IF h + 1 < n THEN h + 1 ELSE 0
           /\ Mod(h - 1, n) = IF h > 0 THEN h - 1 ELSE n - 1
<1>1. h + 1 \in 0..(n - 1) \/ h + 1 \in n..(2 * n - 1)
  OBVIOUS
<1>2. h - 1 \in 0..(n - 1) \/ h - 1 \in (0 - n)..(-1)
  OBVIOUS
<1>3. Mod(h + 1, n) = IF h + 1 < n THEN h + 1 ELSE 0
  BY <1>1, Wrap
<1>4. Mod(h - 1, n) = IF h > 0 THEN h - 1 ELSE n - 1
  BY <1>2, Wrap
<1> QED
  BY <1>3, <1>4

LEMMA Longer ==
    ASSUME NEW n \in Nat \ {0}, NEW t \in 0..(n - 1), NEW h \in 0..(n - 1),
           Mod(h + 1, n) # t
    PROVE  /\ Mod(Mod(h + 1, n) - t, n) = Mod(h - t, n) + 1
           /\ Mod(h - t, n) < n - 1
           /\ Mod(t + (Mod(h - t, n) + 1) - 1, n) = h
           /\ \A i \in 1..Mod(h - t, n) : Mod(t + i - 1, n) \in (0..(n - 1)) \ {h}
<1>1. /\ Mod(h + 1, n) \in 0..(n - 1)
      /\ Mod(h + 1, n) = IF h + 1 < n THEN h + 1 ELSE 0
  BY NextSlot
<1> DEFINE g == Mod(h + 1, n)
           d == Mod(h - t, n)
<1>2. Mod(g - t, n) = IF g >= t THEN g - t ELSE g - t + n
  BY <1>1, Distance
<1>3. /\ d \in 0..(n - 1)
      /\ d = IF h >= t THEN h - t ELSE h - t + n
      /\ \A i \in 1..n : Mod(t + i - 1, n) = IF t + i - 1 < n THEN t + i - 1 ELSE t + i - 1 - n
  BY Distance
<1> HIDE DEF g, d
<1>4. g # t /\ g = IF h + 1 < n THEN h + 1 ELSE 0
  BY <1>1 DEF g
<1>5. d < n - 1
  BY <1>3, <1>4
<1>6. Mod(g - t, n) = d + 1
  BY <1>2, <1>3, <1>4
<1>7. Mod(t + (d + 1) - 1, n) = h
  <2>1. d + 1 \in 1..n
    BY <1>3
  <2> DEFINE e == d + 1
  <2>2. Mod(t + e - 1, n) = IF t + e - 1 < n THEN t + e - 1 ELSE t + e - 1 - n
    BY <1>3, <2>1
  <2>3. (IF t + e - 1 < n THEN t + e - 1 ELSE t + e - 1 - n) = h
    BY <1>3
  <2> QED
    BY <2>2, <2>3
<1>8. ASSUME NEW i \in 1..d
      PROVE  Mod(t + i - 1, n) \in (0..(n - 1)) \ {h}
  <2>1. i \in 1..n
    BY <1>3
  <2>2. Mod(t + i - 1, n) = IF t + i - 1 < n THEN t + i - 1 ELSE t + i - 1 - n
    BY <1>3, <2>1
  <2> QED
    BY <1>3, <2>2
<1> QED
  BY <1>5, <1>6, <1>7, <1>8 DEF g, d

(***************************************************************************)
(* Stepping k items on from t makes the distance k shorter.                *)
(***************************************************************************)
LEMMA Shorter ==
    ASSUME NEW n \in Nat \ {0}, NEW t \in 0..(n - 1), NEW h \in 0..(n - 1),
           NEW k \in 0..Mod(h - t, n)
    PROVE  /\ Mod(t + k, n) \in 0..(n - 1)
           /\ Mod(h - Mod(t + k, n), n) = Mod(h - t, n) - k
           /\ \A i \in 1..(Mod(h - t, n) - k) : Mod(Mod(t + k, n) + i - 1, n) = Mod(t + (k + i) - 1, n)
<1> DEFINE d == Mod(h - t, n)
           s == Mod(t + k, n)
<1>1. /\ d \in 0..(n - 1)
      /\ d = IF h >= t THEN h - t ELSE h - t + n
      /\ \A i \in 1..n : Mod(t + i - 1, n) = IF t + i - 1 < n THEN t + i - 1 ELSE t + i - 1 - n
  BY Distance
<1>2. s = IF t + k < n THEN t + k ELSE t + k - n
  <2>1. t + k \in 0..(n - 1) \/ t + k \in n..(2 * n - 1)
    BY <1>1
  <2> QED
    BY <2>1, Wrap
<1>3. s \in 0..(n - 1)
  BY <1>1, <1>2
<1>4. /\ Mod(h - s, n) = IF h >= s THEN h - s ELSE h - s + n
      /\ \A i \in 1..n : Mod(s + i - 1, n) = IF s + i - 1 < n THEN s + i - 1 ELSE s + i - 1 - n
  BY <1>3, Distance
<1> HIDE DEF d, s
<1>5. k \in 0..d
  BY DEF d
<1>6. Mod(h - s, n) = d - k
  BY <1>1, <1>2, <1>4, <1>5
<1>7. ASSUME NEW i \in 1..(d - k)
      PROVE  Mod(s + i - 1, n) = Mod(t + (k + i) - 1, n)
  <2>1. i \in 1..n /\ k + i \in 1..n
    BY <1>1, <1>5
  <2> DEFINE j == k + i
  <2>2. Mod(t + j - 1, n) = IF t + j - 1 < n THEN t + j - 1 ELSE t + j - 1 - n
    BY <1>1, <2>1
  <2>3. Mod(s + i - 1, n) = IF s + i - 1 < n THEN s + i - 1 ELSE s + i - 1 - n
    BY <1>4, <2>1
  <2>4. (IF t + j - 1 < n THEN t + j - 1 ELSE t + j - 1 - n)
          = (IF s + i - 1 < n THEN s + i - 1 ELSE s + i - 1 - n)
    BY <1>2, <1>5, <2>1
  <2> QED
    BY <2>2, <2>3, <2>4
<1> QED
  BY <1>3, <1>6, <1>7 DEF d, s

-----------------------------------------------------------------------------
(***************************************************************************)
(* A ring holds a sequence shorter than its slots, empty when the two ends *)
(* meet, whose first item is the one at the tail.                          *)
(***************************************************************************)
LEMMA RingIsSeq ==
    ASSUME NEW n \in Nat \ {0}, NEW t \in 0..(n - 1), NEW h \in 0..(n - 1),
           NEW S, NEW b \in [0..(n - 1) -> S]
    PROVE  /\ Ring(b, t, h, n) \in Seq(S)
           /\ Len(Ring(b, t, h, n)) = Mod(h - t, n)
           /\ h = t => Ring(b, t, h, n) = << >>
           /\ h # t => Len(Ring(b, t, h, n)) > 0 /\ Ring(b, t, h, n)[1] = b[t]
<1> DEFINE d == Mod(h - t, n)
<1>1. /\ d \in 0..(n - 1)
      /\ d = IF h >= t THEN h - t ELSE h - t + n
  BY Distance
<1>2. \A i \in 1..d : Mod(t + i - 1, n) \in 0..(n - 1)
  <2>1. \A i \in 1..n : Mod(t + i - 1, n) = IF t + i - 1 < n THEN t + i - 1 ELSE t + i - 1 - n
    BY Distance
  <2> QED
    BY <2>1, <1>1
<1>3. Ring(b, t, h, n) = [i \in 1..d |-> b[Mod(t + i - 1, n)]]
  BY DEF Ring
<1> HIDE DEF d
<1>4. /\ Ring(b, t, h, n) \in Seq(S)
      /\ Len(Ring(b, t, h, n)) = d
  <2> DEFINE e(i) == b[Mod(t + i - 1, n)]
  <2>1. \A i \in 1..d : e(i) \in S
    BY <1>2
  <2> HIDE DEF e
  <2>2. [i \in 1..d |-> e(i)] \in Seq(S) /\ Len([i \in 1..d |-> e(i)]) = d
    BY <1>1, <2>1
  <2> QED
    BY <1>3, <2>2 DEF e
<1>5. h = t => Ring(b, t, h, n) = << >>
  BY <1>1, <1>4, EmptySeq
<1>6. h # t => Len(Ring(b, t, h, n)) > 0 /\ Ring(b, t, h, n)[1] = b[t]
  <2>1. Mod(t + 1 - 1, n) = t
    BY Wrap
  <2> QED
    BY <1>1, <1>3, <1>4, <2>1
<1> QED
  BY <1>4, <1>5, <1>6 DEF d

LEMMA RingFirst ==
    ASSUME NEW n \in Nat \ {0}, NEW t \in 0..(n - 1), NEW h \in 0..(n - 1),
           NEW S, NEW b \in [0..(n - 1) -> S], h # t
    PROVE  Len(Ring(b, t, h, n)) > 0 /\ Ring(b, t, h, n)[1] = b[t]
<1>1. Len(Ring(b, t, h, n)) = Mod(h - t, n)
  BY RingIsSeq
<1>2. Mod(h - t, n) = (IF h >= t THEN h - t ELSE h - t + n) /\ Mod(t + 1 - 1, n) = t
  BY Distance, Wrap
<1> QED
  BY <1>1, <1>2 DEF Ring

LEMMA FirstOnly ==
    ASSUME NEW S, NEW s \in Seq(S), Len(s) > 0
    PROVE  SubSeq(s, 1, 1) = <<s[1]>>
<1>1. s[1] \in S
  OBVIOUS
<1>2. /\ SubSeq(s, 1, 1) \in Seq(S) /\ Len(SubSeq(s, 1, 1)) = 1
      /\ SubSeq(s, 1, 1)[1] = s[1]
  BY <1>1, SubSeqProperties
<1> DEFINE a == SubSeq(s, 1, 1)
           b == <<s[1]>>
<1>3. b \in Seq(S) /\ Len(b) = 1 /\ b[1] = s[1]
  BY <1>1
<1>4. a \in Seq(S) /\ Len(a) = 1 /\ a[1] = s[1]
  BY <1>2
<1> HIDE DEF a, b
<1>5. a = b
  <2>1. \A i \in 1..Len(a) : a[i] = b[i]
    BY <1>3, <1>4
  <2> QED
    BY <1>3, <1>4, <2>1, SeqEqual
<1> QED
  BY <1>5 DEF a, b

(***************************************************************************)
(* Writing at the head and stepping on appends, if that does not meet the  *)
(* tail; the ring then had room.                                           *)
(***************************************************************************)
LEMMA RingPut ==
    ASSUME NEW n \in Nat \ {0}, NEW t \in 0..(n - 1), NEW h \in 0..(n - 1),
           NEW S, NEW b \in [0..(n - 1) -> S], NEW x \in S, Mod(h + 1, n) # t
    PROVE  /\ Ring([b EXCEPT ![h] = x], t, Mod(h + 1, n), n) = Append(Ring(b, t, h, n), x)
           /\ Len(Ring(b, t, h, n)) < n - 1
<1> DEFINE c == [b EXCEPT ![h] = x]
           d == Mod(h - t, n)
           old == Ring(b, t, h, n)
           new == Ring(c, t, Mod(h + 1, n), n)
<1>1. /\ Mod(Mod(h + 1, n) - t, n) = d + 1
      /\ d < n - 1
      /\ Mod(t + (d + 1) - 1, n) = h
      /\ \A i \in 1..d : Mod(t + i - 1, n) \in (0..(n - 1)) \ {h}
  BY Longer, Zenon
<1>2. c \in [0..(n - 1) -> S] /\ c[h] = x /\ \A i \in (0..(n - 1)) \ {h} : c[i] = b[i]
  OBVIOUS
<1>3. Mod(h + 1, n) \in 0..(n - 1)
  BY NextSlot
<1>4. d \in 0..(n - 1)
  BY Distance
<1>5. old = [i \in 1..d |-> b[Mod(t + i - 1, n)]]
  BY DEF Ring
<1>6. new = [i \in 1..(d + 1) |-> c[Mod(t + i - 1, n)]]
  BY <1>1 DEF Ring
<1>7. old \in Seq(S) /\ Len(old) = d
  BY RingIsSeq
<1>8. new \in Seq(S) /\ Len(new) = d + 1
  <2> DEFINE g == Mod(h + 1, n)
  <2>1. g \in 0..(n - 1) /\ Mod(g - t, n) = d + 1 /\ c \in [0..(n - 1) -> S]
    BY <1>1, <1>2, <1>3
  <2> HIDE DEF g, c, d
  <2>2. Ring(c, t, g, n) \in Seq(S) /\ Len(Ring(c, t, g, n)) = Mod(g - t, n)
    BY <2>1, RingIsSeq
  <2> QED
    BY <2>1, <2>2 DEF g
<1> HIDE DEF old, new, c, d
<1>9. /\ Append(old, x) \in Seq(S)
      /\ Len(Append(old, x)) = d + 1
      /\ \A i \in 1..d : Append(old, x)[i] = old[i]
      /\ Append(old, x)[d + 1] = x
  BY <1>7, AppendProperties
<1>10. ASSUME NEW i \in 1..(d + 1)
       PROVE  new[i] = Append(old, x)[i]
  <2>1. CASE i = d + 1
    <3>1. new[i] = c[Mod(t + i - 1, n)]
      BY <1>6
    <3>2. Mod(t + i - 1, n) = h
      BY <1>1, <2>1
    <3> QED
      BY <3>1, <3>2, <2>1, <1>2, <1>9
  <2>2. CASE i # d + 1
    <3>1. i \in 1..d
      BY <2>2, <1>4
    <3>2. new[i] = c[Mod(t + i - 1, n)] /\ old[i] = b[Mod(t + i - 1, n)]
      BY <1>5, <1>6, <3>1
    <3> QED
      BY <3>1, <3>2, <1>1, <1>2, <1>9
  <2> QED
    BY <2>1, <2>2
<1>11. new = Append(old, x)
  BY <1>8, <1>9, <1>10, SeqEqual
<1> QED
  BY <1>1, <1>7, <1>11 DEF old, new, c, d

(***************************************************************************)
(* Stepping the tail over the first k items leaves the others.             *)
(***************************************************************************)
LEMMA RingTake ==
    ASSUME NEW n \in Nat \ {0}, NEW t \in 0..(n - 1), NEW h \in 0..(n - 1),
           NEW S, NEW b \in [0..(n - 1) -> S], NEW k \in 0..Mod(h - t, n)
    PROVE  Ring(b, Mod(t + k, n), h, n) = SubSeq(Ring(b, t, h, n), k + 1, Len(Ring(b, t, h, n)))
<1> DEFINE d == Mod(h - t, n)
           s == Mod(t + k, n)
           old == Ring(b, t, h, n)
           new == Ring(b, s, h, n)
           rest == SubSeq(old, k + 1, Len(old))
<1>1. /\ s \in 0..(n - 1)
      /\ Mod(h - s, n) = d - k
      /\ \A i \in 1..(d - k) : Mod(s + i - 1, n) = Mod(t + (k + i) - 1, n)
  <2>1. s \in 0..(n - 1)
    BY Shorter
  <2>2. Mod(h - s, n) = d - k
    BY Shorter
  <2>3. ASSUME NEW i \in 1..(d - k) PROVE Mod(s + i - 1, n) = Mod(t + (k + i) - 1, n)
    BY Shorter
  <2> QED
    BY <2>1, <2>2, <2>3
<1>2. d \in 0..(n - 1)
  BY Distance
<1>3. old = [i \in 1..d |-> b[Mod(t + i - 1, n)]] /\ old \in Seq(S) /\ Len(old) = d
  <2>1. old \in Seq(S) /\ Len(old) = d
    BY RingIsSeq
  <2> QED
    BY <2>1 DEF Ring
<1>4. new = [i \in 1..(d - k) |-> b[Mod(s + i - 1, n)]]
  BY <1>1 DEF Ring
<1>5. new \in Seq(S) /\ Len(new) = d - k
  BY <1>1, RingIsSeq
<1>6. k \in 0..d
  OBVIOUS
<1> HIDE DEF d, s, old, new
<1>7. /\ rest \in Seq(S)
      /\ Len(rest) = d - k
      /\ \A i \in 1..(d - k) : rest[i] = old[k + i]
  <2>1. old \in Seq(S) /\ k + 1 \in 1..(Len(old) + 1) /\ Len(old) \in (k + 1 - 1)..Len(old)
    BY <1>2, <1>3, <1>6
  <2>2. /\ rest \in Seq(S)
        /\ Len(rest) = IF k + 1 <= Len(old) THEN Len(old) - (k + 1) + 1 ELSE 0
        /\ \A i \in 1..(Len(old) - (k + 1) + 1) : rest[i] = old[k + 1 + i - 1]
    BY <2>1, SubSeqProperties
  <2> HIDE DEF rest
  <2>3. ASSUME NEW i \in 1..(d - k)
        PROVE  rest[i] = old[k + i]
    <3>1. i \in 1..(Len(old) - (k + 1) + 1) /\ k + 1 + i - 1 = k + i
      BY <1>2, <1>3, <1>6
    <3> QED
      BY <2>2, <3>1
  <2> QED
    BY <2>2, <2>3, <1>2, <1>3, <1>6
<1>8. ASSUME NEW i \in 1..(d - k)
      PROVE  new[i] = rest[i]
  <2>1. k + i \in 1..d
    BY <1>2, <1>6
  <2>2. old[k + i] = b[Mod(t + (k + i) - 1, n)]
    BY <2>1, <1>3
  <2> QED
    BY <2>2, <1>1, <1>4, <1>7
<1>9. new = rest
  BY <1>5, <1>7, <1>8, SeqEqual
<1> QED
  BY <1>9 DEF new, old, s
-----------------------------------------------------------------------------
(***************************************************************************)
(* The keyboard.  A reader that is inside keyboard_getchar_nonblock holds  *)
(* copies of what it read: as long as nobody else has moved the tail they  *)
(* are still what the ring says, because the handler writes at the head,   *)
(* which is not the tail.                                                  *)
(***************************************************************************)
KType ==
    /\ kbd_buf \in [Slots -> Chars \cup {NoChar}]
    /\ kbd_head \in Slots /\ kbd_tail \in Slots
    /\ shift_pressed \in BOOLEAN
    /\ loop \in [Readers -> {"out", "poll", "fetch", "load", "store"}]
    /\ char \in [Readers -> Chars \cup {NoChar}]
    /\ sum \in [Readers -> Slots]
    /\ raced \in BOOLEAN

CopiesCurrent ==
    \A r \in Readers :
        /\ loop[r] \in {"fetch", "load", "store"} => kbd_head # kbd_tail
        /\ loop[r] \in {"load", "store"} => char[r] = kbd_buf[kbd_tail]
        /\ loop[r] = "store" => sum[r] = Mod(kbd_tail + 1, KBD_BUF_SIZE)

KInv == KType /\ (~raced => CopiesCurrent)

LEMMA WaitingIsRing ==
    /\ Waiting = Ring(kbd_buf, kbd_tail, kbd_head, KBD_BUF_SIZE)
    /\ Count = Mod(kbd_head - kbd_tail, KBD_BUF_SIZE)
  BY DEF Waiting, Count, Ring, Mod

(***************************************************************************)
(* The readers the observer calls inside are the ones of CopiesCurrent.    *)
(***************************************************************************)
LEMMA NobodyInside ==
    ASSUME NEW r \in Readers
    PROVE  /\ Inside = {} => loop[r] \notin {"fetch", "load", "store"}
           /\ loop[r] = "store" /\ Inside = {r} =>
                \A s \in Readers \ {r} : loop[s] \notin {"fetch", "load", "store"}
  BY DEF Inside

(***************************************************************************)
(* SYS_READ takes at most what it finds.                                   *)
(***************************************************************************)
LEMMA TakesWhatIsThere ==
    ASSUME KType, NEW n \in 1..MaxWant
    PROVE  /\ Count \in 0..(KBD_BUF_SIZE - 1)
           /\ (IF Count < n THEN Count ELSE n) \in 0..Count
           /\ Mod(kbd_tail, KBD_BUF_SIZE) = kbd_tail
<1>1. KBD_BUF_SIZE \in Nat \ {0} /\ kbd_tail \in 0..(KBD_BUF_SIZE - 1)
      /\ kbd_head \in 0..(KBD_BUF_SIZE - 1) /\ MaxWant \in Nat
  BY KeyboardAssumption DEF KType, Slots
<1>2. Count \in 0..(KBD_BUF_SIZE - 1)
  BY <1>1, Distance, WaitingIsRing
<1>3. Mod(kbd_tail, KBD_BUF_SIZE) = kbd_tail
  BY <1>1, Wrap
<1> QED
  BY <1>1, <1>2, <1>3

LEMMA KTypeStep ==
    ASSUME KType, KNext
    PROVE  KType'
<1> DEFINE N == KBD_BUF_SIZE
<1>1. N \in Nat \ {0} /\ Slots = 0..(N - 1)
  BY KeyboardAssumption DEF Slots
<1>2. \A x \in Slots : (x + 1) % N \in Slots
  BY <1>1, NextSlot DEF Mod
<1> USE DEF KType, ring
<1>3. ASSUME NEW d \in BOOLEAN, Shift(d) PROVE KType'
  BY <1>3 DEF Shift
<1>4. ASSUME NEW k \in Plain \cup Letters, KeyDown(k) PROVE KType'
  <2>1. Character(k) \in Chars
    BY DEF Character, Chars
  <2> DEFINE next == (kbd_head + 1) % N
  <2>2. next \in Slots
    BY <1>2
  <2> HIDE DEF N, next
  <2>3. UNCHANGED ring \/ (kbd_buf' = [kbd_buf EXCEPT ![kbd_head] = Character(k)] /\ kbd_head' = next)
    BY <1>4 DEF KeyDown, next, N
  <2>4. kbd_buf' \in [Slots -> Chars \cup {NoChar}] /\ kbd_head' \in Slots
    BY <2>1, <2>2, <2>3
  <2> QED
    BY <1>4, <2>4 DEF KeyDown
<1>5. ASSUME NEW r \in Readers, NEW n \in 1..MaxWant, SysRead(r, n) PROVE KType'
  <2> DEFINE k == IF Count < n THEN Count ELSE n
  <2>1. k \in 0..Count
    BY TakesWhatIsThere
  <2>2. Mod(kbd_tail + k, N) \in Slots
    <3>1. Count = Mod(kbd_head - kbd_tail, N)
      BY WaitingIsRing
    <3> HIDE DEF k
    <3> QED
      BY <1>1, <2>1, <3>1, Shorter
  <2>3. kbd_tail' = Mod(kbd_tail + k, N)
    BY <1>5 DEF SysRead, Mod
  <2>4. kbd_tail' \in Slots
    BY <2>2, <2>3
  <2>5. /\ UNCHANGED <<ring, shift_pressed, char, sum>> /\ raced' \in BOOLEAN
        /\ loop' = [loop EXCEPT ![r] = "out"] \/ loop' = [loop EXCEPT ![r] = "poll"]
    BY <1>5 DEF SysRead
  <2> QED
    BY <2>4, <2>5
<1>6. ASSUME NEW r \in Readers, Poll(r) PROVE KType'
  BY <1>6 DEF Poll
<1>7. ASSUME NEW r \in Readers, Fetch(r) PROVE KType'
  BY <1>7 DEF Fetch
<1>8. ASSUME NEW r \in Readers, Load(r) PROVE KType'
  <2>1. (kbd_tail + 1) % N \in Slots
    BY <1>2
  <2> DEFINE x == (kbd_tail + 1) % N
  <2>2. sum' = [sum EXCEPT ![r] = x]
    BY <1>8 DEF Load
  <2> HIDE DEF x
  <2>3. sum' \in [Readers -> Slots]
    BY <2>1, <2>2 DEF x
  <2> QED
    BY <1>8, <2>3 DEF Load
<1>9. ASSUME NEW r \in Readers, Store(r) PROVE KType'
  <2>1. 0 \in Slots
    BY <1>1
  <2>2. loop' = [loop EXCEPT ![r] = "out"] \/ loop' = [loop EXCEPT ![r] = "poll"]
    BY <1>9 DEF Store
  <2> QED
    BY <1>9, <2>1, <2>2 DEF Store
<1>10. ASSUME ExitDrain PROVE KType'
  BY <1>10 DEF ExitDrain
<1> QED
  BY <1>3, <1>4, <1>5, <1>6, <1>7, <1>8, <1>9, <1>10 DEF KNext

(***************************************************************************)
(* The copies stay current as long as no race is observed.                 *)
(***************************************************************************)
LEMMA CopiesStep ==
    ASSUME KType, ~raced => CopiesCurrent, KNext, ~raced'
    PROVE  CopiesCurrent'
<1> DEFINE N == KBD_BUF_SIZE
<1>1. N \in Nat \ {0} /\ Slots = 0..(N - 1)
  BY KeyboardAssumption DEF Slots
<1>2. CASE \E d \in BOOLEAN : Shift(d)
  BY <1>2 DEF Shift, CopiesCurrent, ring
<1>3. ASSUME NEW k \in Plain \cup Letters, KeyDown(k) PROVE CopiesCurrent'
  <2>1. /\ UNCHANGED <<kbd_tail, loop, char, sum, raced>>
        /\ \/ UNCHANGED ring
           \/ /\ kbd_buf' = [kbd_buf EXCEPT ![kbd_head] = Character(k)]
              /\ kbd_head' # kbd_tail
    BY <1>3 DEF KeyDown, IsFull
  <2>2. CopiesCurrent
    BY <2>1
  <2>3. kbd_head \in Slots /\ kbd_tail \in Slots /\ kbd_buf \in [Slots -> Chars \cup {NoChar}]
    BY DEF KType
  <2>4. CASE UNCHANGED ring
    BY <2>1, <2>2, <2>4 DEF CopiesCurrent, ring
  <2>5. CASE kbd_buf' = [kbd_buf EXCEPT ![kbd_head] = Character(k)] /\ kbd_head' # kbd_tail
    <3>1. kbd_head # kbd_tail => kbd_buf'[kbd_tail] = kbd_buf[kbd_tail]
      BY <2>3, <2>5
    <3> QED
      BY <2>1, <2>2, <2>5, <3>1 DEF CopiesCurrent
  <2> QED
    BY <2>1, <2>4, <2>5
<1>4. ASSUME NEW r \in Readers, NEW n \in 1..MaxWant, SysRead(r, n) PROVE CopiesCurrent'
  <2> DEFINE k == IF Count < n THEN Count ELSE n
  <2>1. /\ ~raced /\ (k > 0 => Inside = {})
        /\ UNCHANGED <<ring, shift_pressed, char, sum>>
        /\ kbd_tail' = Mod(kbd_tail + k, N)
    BY <1>4 DEF SysRead, Mod
  <2>2. loop \in [Readers -> {"out", "poll", "fetch", "load", "store"}]
        /\ (loop' = [loop EXCEPT ![r] = "out"] \/ loop' = [loop EXCEPT ![r] = "poll"])
    BY <1>4 DEF SysRead, KType
  <2>3. \A s \in Readers : loop'[s] \in {"fetch", "load", "store"} => s \in Inside /\ loop'[s] = loop[s]
    BY <2>2 DEF Inside
  <2>4. k \in 0..Count /\ Count \in 0..(N - 1) /\ Mod(kbd_tail, N) = kbd_tail
    BY TakesWhatIsThere
  <2> HIDE DEF k, N
  <2>5. CASE k > 0
    BY <2>1, <2>3, <2>5 DEF CopiesCurrent
  <2>6. CASE k = 0
    <3>1. kbd_tail + k = kbd_tail
      BY <2>6 DEF KType, Slots
    <3>2. kbd_tail' = kbd_tail
      BY <2>1, <2>4, <3>1
    <3> QED
      BY <2>1, <2>3, <3>2 DEF CopiesCurrent, ring, N
  <2> QED
    BY <2>4, <2>5, <2>6, <1>1
<1>5. ASSUME NEW r \in Readers, Poll(r) PROVE CopiesCurrent'
  BY <1>5 DEF Poll, CopiesCurrent, KType, ring
<1>6. ASSUME NEW r \in Readers, Fetch(r) PROVE CopiesCurrent'
  BY <1>6 DEF Fetch, CopiesCurrent, KType, ring
<1>7. ASSUME NEW r \in Readers, Load(r) PROVE CopiesCurrent'
  <2>1. sum' = [sum EXCEPT ![r] = Mod(kbd_tail + 1, KBD_BUF_SIZE)]
    BY <1>7 DEF Load, Mod
  <2> QED
    BY <1>7, <2>1 DEF Load, CopiesCurrent, KType, ring
<1>8. ASSUME NEW r \in Readers, Store(r) PROVE CopiesCurrent'
  <2>1. Inside = {r} /\ loop[r] = "store"
    BY <1>8 DEF Store
  <2>2. loop' = [loop EXCEPT ![r] = "out"] \/ loop' = [loop EXCEPT ![r] = "poll"]
    BY <1>8 DEF Store
  <2>3. \A s \in Readers : loop'[s] \notin {"fetch", "load", "store"}
    BY <2>1, <2>2, NobodyInside DEF KType
  <2> QED
    BY <2>3 DEF CopiesCurrent
<1>9. CASE ExitDrain
  <2>1. ~raced /\ (kbd_tail = kbd_head \/ Inside = {})
    BY <1>9 DEF ExitDrain
  <2>2. CASE kbd_tail = kbd_head
    BY <1>9, <2>1, <2>2 DEF ExitDrain, CopiesCurrent, ring
  <2>3. CASE Inside = {}
    <3>1. \A s \in Readers : loop'[s] \notin {"fetch", "load", "store"}
      BY <1>9, <2>3 DEF ExitDrain, Inside
    <3> QED
      BY <3>1 DEF CopiesCurrent
  <2> QED
    BY <2>1, <2>2, <2>3
<1> QED
  BY <1>2, <1>3, <1>4, <1>5, <1>6, <1>7, <1>8, <1>9 DEF KNext

(***************************************************************************)
(* One step of the keyboard is one step of the queue.                      *)
(***************************************************************************)
LEMMA KQueueStep ==
    ASSUME KInv, KInv', KNext
    PROVE  raced' \/ KQueue!QNext \/ UNCHANGED <<Waiting, given, kcall>>
<1> DEFINE N == KBD_BUF_SIZE
           S == Chars \cup {NoChar}
<1>1. N \in Nat \ {0} /\ Slots = 0..(N - 1) /\ N - 1 \in Nat
  BY KeyboardAssumption DEF Slots
<1>2. /\ kbd_buf \in [0..(N - 1) -> S] /\ kbd_head \in 0..(N - 1) /\ kbd_tail \in 0..(N - 1)
      /\ shift_pressed \in BOOLEAN
  BY <1>1 DEF KInv, KType
<1>3. /\ Waiting = Ring(kbd_buf, kbd_tail, kbd_head, N)
      /\ Count = Mod(kbd_head - kbd_tail, N)
      /\ Waiting' = Ring(kbd_buf', kbd_tail', kbd_head', N)
  <2>1. Waiting' = Ring(kbd_buf', kbd_tail', kbd_head', N)
    BY DEF Waiting, Count, Ring, Mod
  <2> QED
    BY <2>1, WaitingIsRing
<1>4. /\ Waiting \in Seq(S) /\ Len(Waiting) = Count /\ Count \in 0..(N - 1)
      /\ kbd_head # kbd_tail => Count > 0 /\ Waiting[1] = kbd_buf[kbd_tail]
  <2> HIDE DEF N, S
  <2>1. /\ Ring(kbd_buf, kbd_tail, kbd_head, N) \in Seq(S)
        /\ Len(Ring(kbd_buf, kbd_tail, kbd_head, N)) = Mod(kbd_head - kbd_tail, N)
        /\ kbd_head # kbd_tail =>
              /\ Len(Ring(kbd_buf, kbd_tail, kbd_head, N)) > 0
              /\ Ring(kbd_buf, kbd_tail, kbd_head, N)[1] = kbd_buf[kbd_tail]
    BY <1>1, <1>2, RingIsSeq
  <2>2. Mod(kbd_head - kbd_tail, N) \in 0..(N - 1)
    BY <1>1, <1>2, Distance
  <2> QED
    BY <1>3, <2>1, <2>2
<1> HIDE DEF N, S
<1>5. ASSUME NEW k \in 0..Count, UNCHANGED ring, kbd_tail' = Mod(kbd_tail + k, N)
      PROVE  Waiting' = SubSeq(Waiting, k + 1, Len(Waiting))
  BY <1>1, <1>2, <1>3, <1>5, RingTake DEF ring
<1>6. CASE \E d \in BOOLEAN : Shift(d)
  BY <1>3, <1>6 DEF Shift, ring
<1>7. ASSUME NEW k \in Plain \cup Letters, KeyDown(k)
      PROVE  KQueue!QNext
  <2> DEFINE c == Character(k)
  <2>1. c \in Chars /\ c \in S
    BY <1>2 DEF Character, Chars, S
  <2>4. kcall' = <<"offer", c, 1 - kcall[3]>> /\ kbd_tail' = kbd_tail /\ given' = given
    BY <1>7 DEF KeyDown
  <2> HIDE DEF c
  <2>2. CASE Mod(kbd_head + 1, N) = kbd_tail
    <3>1. UNCHANGED ring
      BY <1>7, <2>2 DEF KeyDown, IsFull, Mod, N
    <3>2. Mod(kbd_head + 1, N) = IF kbd_head + 1 < N THEN kbd_head + 1 ELSE 0
      BY <1>1, <1>2, NextSlot
    <3>3. Mod(kbd_head - kbd_tail, N)
            = IF kbd_head >= kbd_tail THEN kbd_head - kbd_tail ELSE kbd_head - kbd_tail + N
      BY <1>1, <1>2, Distance
    <3>4. ~(Len(Waiting) < N - 1)
      BY <1>1, <1>2, <1>3, <1>4, <2>2, <3>2, <3>3
    <3>5. Waiting' = Waiting
      BY <1>3, <2>4, <3>1 DEF ring
    <3>6. KQueue!Offer(c)
      BY <2>4, <3>4, <3>5 DEF KQueue!Offer, KQueue!Called, N
    <3> QED
      BY <2>1, <3>6 DEF KQueue!QNext, KQueue!Flow
  <2>3. CASE Mod(kbd_head + 1, N) # kbd_tail
    <3>1. /\ kbd_buf' = [kbd_buf EXCEPT ![kbd_head] = c]
          /\ kbd_head' = Mod(kbd_head + 1, N) /\ kbd_head' # kbd_tail
          /\ kbd_tail' = kbd_tail /\ given' = given
      BY <1>7, <2>3 DEF KeyDown, IsFull, Mod, N, c
    <3>2. /\ Ring([kbd_buf EXCEPT ![kbd_head] = c], kbd_tail, Mod(kbd_head + 1, N), N)
               = Append(Ring(kbd_buf, kbd_tail, kbd_head, N), c)
          /\ Len(Ring(kbd_buf, kbd_tail, kbd_head, N)) < N - 1
      BY <1>1, <1>2, <2>1, <3>1, RingPut
    <3>3. Waiting' = Append(Waiting, c) /\ Len(Waiting) < N - 1
      BY <1>3, <3>1, <3>2
    <3>4. KQueue!Offer(c)
      BY <2>4, <3>3 DEF KQueue!Offer, KQueue!Called, N
    <3> QED
      BY <2>1, <3>4 DEF KQueue!QNext, KQueue!Flow
  <2> QED
    BY <2>2, <2>3
<1>8. ASSUME NEW r \in Readers, NEW n \in 1..MaxWant, SysRead(r, n)
      PROVE  KQueue!QNext \/ UNCHANGED <<Waiting, given, kcall>>
  <2> DEFINE k == IF Count < n THEN Count ELSE n
  <2>1. /\ kbd_tail' = Mod(kbd_tail + k, N) /\ UNCHANGED ring
        /\ given' = IF k = 0 THEN given ELSE SubSeq(Waiting, 1, k)
        /\ kcall' = IF k = 0 THEN kcall ELSE <<"take", NoChar, 1 - kcall[3]>>
    BY <1>8 DEF SysRead, Mod, N
  <2>2. k \in 0..Count
    BY TakesWhatIsThere DEF KInv
  <2>3. Mod(kbd_tail, N) = kbd_tail
    BY TakesWhatIsThere DEF KInv, N
  <2> HIDE DEF k
  <2>4. CASE k = 0
    <3>1. kbd_tail + k = kbd_tail
      BY <1>2, <2>4
    <3> QED
      BY <1>3, <2>1, <2>3, <2>4, <3>1 DEF ring
  <2>5. CASE k # 0
    <3>1. Waiting' = SubSeq(Waiting, k + 1, Len(Waiting))
      BY <1>5, <2>1, <2>2
    <3>2. KQueue!Take(k)
      BY <2>1, <2>5, <3>1 DEF KQueue!Take, KQueue!Called
    <3>3. k \in 1..Len(Waiting)
      BY <1>4, <2>2, <2>5
    <3> QED
      BY <3>2, <3>3 DEF KQueue!QNext, KQueue!Flow
  <2> QED
    BY <2>4, <2>5
<1>9. ASSUME NEW r \in Readers, Poll(r) \/ Fetch(r) \/ Load(r)
      PROVE  UNCHANGED <<Waiting, given, kcall>>
  BY <1>3, <1>9 DEF Poll, Fetch, Load, ring
<1>10. ASSUME NEW r \in Readers, Store(r), ~raced' PROVE KQueue!QNext
  <2>1. /\ ~raced /\ loop[r] = "store" /\ UNCHANGED ring
        /\ kbd_tail' = sum[r] /\ given' = <<char[r]>>
        /\ kcall' = <<"take", NoChar, 1 - kcall[3]>>
    BY <1>10 DEF Store
  <2>2. /\ kbd_head # kbd_tail /\ char[r] = kbd_buf[kbd_tail]
        /\ sum[r] = Mod(kbd_tail + 1, N)
    BY <2>1 DEF KInv, CopiesCurrent, N
  <2>3. 1 \in 0..Count /\ 1 \in 1..Len(Waiting)
    BY <1>4, <2>2
  <2>4. Waiting' = SubSeq(Waiting, 1 + 1, Len(Waiting))
    BY <1>5, <2>1, <2>2, <2>3
  <2>5. given' = SubSeq(Waiting, 1, 1)
    <3>1. given' = <<Waiting[1]>>
      BY <1>4, <2>1, <2>2
    <3>2. SubSeq(Waiting, 1, 1) = <<Waiting[1]>>
      BY <1>4, <2>3, FirstOnly
    <3> QED
      BY <3>1, <3>2
  <2>6. KQueue!Take(1)
    BY <2>1, <2>4, <2>5 DEF KQueue!Take, KQueue!Called
  <2> QED
    BY <2>3, <2>6 DEF KQueue!QNext, KQueue!Flow
<1>11. CASE ExitDrain
  <2>1. kbd_tail' = kbd_head' /\ kbd_head' = kbd_head /\ kbd_buf' = kbd_buf /\ given' = given
        /\ kcall' = <<"clear", NoChar, 1 - kcall[3]>>
    BY <1>11 DEF ExitDrain, ring
  <2>2. Ring(kbd_buf, kbd_head, kbd_head, N) = << >>
    BY <1>1, <1>2, RingIsSeq
  <2>3. Waiting' = << >>
    BY <1>3, <2>1, <2>2
  <2> QED
    BY <2>1, <2>3 DEF KQueue!QNext, KQueue!Clear, KQueue!Called
<1> QED
  BY <1>6, <1>7, <1>8, <1>9, <1>10, <1>11 DEF KNext

LEMMA KInvStart ==
    ASSUME KInit
    PROVE  KInv
<1>1. 0 \in Slots
  BY KeyboardAssumption DEF Slots
<1> QED
  BY <1>1 DEF KInit, KInv, KType, CopiesCurrent

(***************************************************************************)
(* keyboard_handler and SYS_READ never disagree about a character: for a   *)
(* ring of any size and any number of readers the ring is a bounded queue  *)
(* until one reader moves the tail under another, although the handler     *)
(* runs between any two accesses of the reader.                            *)
(***************************************************************************)
THEOREM KeyboardIsQueue == KSpec => KeysDelivered
<1>1. KInit => KInv
  BY KInvStart
<1>2. KInv /\ [KNext]_kvars => KInv'
  <2> SUFFICES ASSUME KInv, [KNext]_kvars PROVE KInv'
    OBVIOUS
  <2>1. CASE KNext
    <3>1. KType'
      BY <2>1, KTypeStep DEF KInv
    <3> QED
      BY <2>1, <3>1, CopiesStep DEF KInv
  <2>2. CASE UNCHANGED kvars
    BY <2>2 DEF KInv, KType, CopiesCurrent, kvars
  <2> QED
    BY <2>1, <2>2
<1>3. KInv /\ KInv' /\ [KNext]_kvars => [raced' \/ KQueue!QNext]_<<Waiting, given, kcall>>
  <2> SUFFICES ASSUME KInv, KInv', [KNext]_kvars
               PROVE  raced' \/ KQueue!QNext \/ UNCHANGED <<Waiting, given, kcall>>
    OBVIOUS
  <2>1. CASE KNext
    BY <2>1, KQueueStep
  <2>2. CASE UNCHANGED kvars
    BY <2>2 DEF kvars, Waiting, Count
  <2> QED
    BY <2>1, <2>2
<1> QED
  BY <1>1, <1>2, <1>3, PTL DEF KSpec, KeysDelivered

-----------------------------------------------------------------------------
(***************************************************************************)
(* The network card: the packets net_test may send.                        *)
(***************************************************************************)
Sent == {"none", "arp_request", "echo_request", "query", "syn_host", "syn_gateway"}

(***************************************************************************)
(* The requests net_test has made before a stage.                          *)
(***************************************************************************)
Before == [arp |-> 0, icmp |-> 1, dns |-> 2, tcp |-> 3, over |-> 4]

NType ==
    /\ rx_ring \in [RxSlots -> Packets \cup {"none"}] /\ rx_status \in [RxSlots -> BOOLEAN]
    /\ rdh \in RxSlots /\ rx_cur \in RxSlots
    /\ tx_ring \in [TxSlots -> Sent] /\ tdh \in TxSlots /\ tx_cur \in TxSlots
    /\ stage \in {"arp", "icmp", "dns", "tcp", "over"} /\ tries \in Int
    /\ dns_result \in BOOLEAN /\ due \in BOOLEAN
    /\ asked \in Seq(Sent) /\ wire \in Seq(Sent)

(***************************************************************************)
(* The receive side: the driver has given every descriptor behind its      *)
(* index back, and every packet that has arrived has its DD bit.           *)
(***************************************************************************)
RxInv ==
    /\ rdt = Mod(rx_cur - 1, NUM_RX_DESC)
    /\ \A i \in 1..Mod(rdh - rx_cur, NUM_RX_DESC) :
         rx_status[Mod(rx_cur + i - 1, NUM_RX_DESC)] = TRUE

(***************************************************************************)
(* The send side: net_test makes at most one request per stage, which is   *)
(* fewer than the ring has descriptors.                                    *)
(***************************************************************************)
TxInv ==
    /\ tdt = tx_cur
    /\ stage = "over" => tries = 0
    /\ Len(asked) <= Before[stage] + (IF tries = 0 THEN 0 ELSE 1)
    /\ TxInOrder

(***************************************************************************)
(* The polls: an answer that was there when they began is no further away  *)
(* than there are polls left.                                              *)
(***************************************************************************)
PollInv ==
    /\ tries <= 0 => ~due
    /\ due => \E i \in 1..Len(Arrived) : i <= tries /\ Arrived[i] \in Answers[stage]

NInv == NType /\ RxInv /\ TxInv /\ PollInv

LEMMA CardRings ==
    /\ Arrived = Ring(rx_ring, rx_cur, rdh, NUM_RX_DESC)
    /\ Unsent = Ring(tx_ring, tdh, tdt, NUM_TX_DESC)
  BY DEF Arrived, Unsent, Ring, Mod

LEMMA CardSizes ==
    /\ NUM_RX_DESC \in Nat \ {0} /\ RxSlots = 0..(NUM_RX_DESC - 1)
    /\ NUM_TX_DESC \in Nat \ {0} /\ TxSlots = 0..(NUM_TX_DESC - 1)
    /\ NUM_RX_DESC > 1 /\ NUM_TX_DESC > 4 /\ Tries \in Nat /\ Tries >= NUM_RX_DESC - 1
  BY E1000Assumption DEF RxSlots, TxSlots

(***************************************************************************)
(* What the receive ring looks like.                                       *)
(***************************************************************************)
LEMMA RxShape ==
    ASSUME NType
    PROVE  /\ Arrived \in Seq(Packets \cup {"none"})
           /\ Len(Arrived) \in 0..(NUM_RX_DESC - 1)
           /\ Len(Arrived) = Mod(rdh - rx_cur, NUM_RX_DESC)
           /\ rdh = rx_cur => Len(Arrived) = 0
           /\ rdh # rx_cur => Len(Arrived) > 0 /\ Arrived[1] = rx_ring[rx_cur]
<1> DEFINE N == NUM_RX_DESC
           P == Packets \cup {"none"}
           A == Ring(rx_ring, rx_cur, rdh, N)
<1>1. /\ N \in Nat \ {0} /\ N - 1 \in Nat /\ rx_ring \in [0..(N - 1) -> P]
      /\ rdh \in 0..(N - 1) /\ rx_cur \in 0..(N - 1)
  BY CardSizes DEF NType
<1>2. Arrived = A
  BY CardRings
<1> HIDE DEF N, P
<1>3. A \in Seq(P)
  BY <1>1, RingIsSeq
<1>4. Len(A) = Mod(rdh - rx_cur, N)
  BY <1>1, RingIsSeq
<1>5. rdh # rx_cur => Len(A) > 0 /\ A[1] = rx_ring[rx_cur]
  BY <1>1, RingIsSeq
<1>6. Mod(rdh - rx_cur, N) \in 0..(N - 1) /\ (rdh = rx_cur => Mod(rdh - rx_cur, N) = 0)
  BY <1>1, Distance
<1> QED
  BY <1>2, <1>3, <1>4, <1>5, <1>6 DEF N, P

(***************************************************************************)
(* e1000_recv finds a packet exactly when one has arrived.                 *)
(***************************************************************************)
LEMMA PacketSeen ==
    ASSUME NType, RxInv
    PROVE  /\ HasPacket <=> rdh # rx_cur
           /\ HasPacket => Len(Arrived) > 0 /\ Arrived[1] = rx_ring[rx_cur]
<1>1. Mod(rx_cur + 1 - 1, NUM_RX_DESC) = rx_cur
  BY CardSizes, Wrap DEF NType
<1>2. rdh # rx_cur => rx_status[rx_cur] = TRUE
  BY <1>1, RxShape DEF RxInv
<1> QED
  BY <1>2, RxShape DEF HasPacket

(***************************************************************************)
(* The card stands at the tail only when all but one descriptor are full.  *)
(***************************************************************************)
LEMMA RxFull ==
    ASSUME NType, RxInv, rdh = rdt
    PROVE  ~(Len(Arrived) < NUM_RX_DESC - 1)
<1> DEFINE N == NUM_RX_DESC
<1>1. N \in Nat \ {0} /\ rdh \in 0..(N - 1) /\ rx_cur \in 0..(N - 1) /\ N > 1
  BY CardSizes DEF NType
<1>2. Len(Arrived) = Mod(rdh - rx_cur, N) /\ rdh = Mod(rx_cur - 1, N)
  BY RxShape DEF RxInv
<1> HIDE DEF N
<1>3. Mod(rx_cur - 1, N) = IF rx_cur > 0 THEN rx_cur - 1 ELSE N - 1
  BY <1>1, NextSlot
<1>4. Mod(rdh - rx_cur, N) = IF rdh >= rx_cur THEN rdh - rx_cur ELSE rdh - rx_cur + N
  BY <1>1, Distance
<1> QED
  BY <1>1, <1>2, <1>3, <1>4 DEF N

(***************************************************************************)
(* The card appends, since the tail is the one slot behind the driver.     *)
(***************************************************************************)
LEMMA CardAppends ==
    ASSUME NType, RxInv, NEW p \in Packets, CardReceives(p)
    PROVE  /\ Arrived' = Append(Arrived, p)
           /\ Len(Arrived) < NUM_RX_DESC - 1
           /\ rdh' \in RxSlots
           /\ RxInv'
<1> DEFINE N == NUM_RX_DESC
           P == Packets \cup {"none"}
           g == Mod(rdh + 1, N)
           d == Mod(rdh - rx_cur, N)
<1>1. /\ N \in Nat \ {0} /\ rx_ring \in [0..(N - 1) -> P]
      /\ rdh \in 0..(N - 1) /\ rx_cur \in 0..(N - 1) /\ RxSlots = 0..(N - 1)
  BY CardSizes DEF NType
<1>2. /\ rx_ring' = [rx_ring EXCEPT ![rdh] = p] /\ rx_status' = [rx_status EXCEPT ![rdh] = TRUE]
      /\ rdh' = g /\ rx_cur' = rx_cur /\ rdh # rdt /\ rdt' = rdt
  BY DEF CardReceives, Mod
<1>3. /\ Arrived = Ring(rx_ring, rx_cur, rdh, N)
      /\ Arrived' = Ring(rx_ring', rx_cur', rdh', N)
  BY DEF Arrived, Ring, Mod
<1>4. rx_status \in [0..(N - 1) -> BOOLEAN]
  BY <1>1 DEF NType
<1> HIDE DEF N, P
<1>5. g \in 0..(N - 1) /\ g # rx_cur
  <2>1. /\ Mod(rdh + 1, N) = IF rdh + 1 < N THEN rdh + 1 ELSE 0
        /\ Mod(rx_cur - 1, N) = IF rx_cur > 0 THEN rx_cur - 1 ELSE N - 1
    BY <1>1, NextSlot
  <2>2. rdt = Mod(rx_cur - 1, N)
    BY DEF RxInv, N
  <2> QED
    BY <1>1, <1>2, <2>1, <2>2
<1>6. p \in P
  BY DEF P
<1>7. /\ Ring([rx_ring EXCEPT ![rdh] = p], rx_cur, g, N) = Append(Ring(rx_ring, rx_cur, rdh, N), p)
      /\ Len(Ring(rx_ring, rx_cur, rdh, N)) < N - 1
  BY <1>1, <1>5, <1>6, RingPut
<1>8. /\ Mod(g - rx_cur, N) = d + 1
      /\ Mod(rx_cur + (d + 1) - 1, N) = rdh
      /\ \A i \in 1..d : Mod(rx_cur + i - 1, N) \in (0..(N - 1)) \ {rdh}
  <2>1. Mod(g - rx_cur, N) = d + 1
    BY <1>1, <1>5, Longer
  <2>2. Mod(rx_cur + (d + 1) - 1, N) = rdh
    BY <1>1, <1>5, Longer
  <2>3. \A i \in 1..d : Mod(rx_cur + i - 1, N) \in (0..(N - 1)) \ {rdh}
    BY <1>1, <1>5, Longer
  <2> QED
    BY <2>1, <2>2, <2>3
<1>9. d \in Nat
  BY RxShape, CardSizes DEF N
<1>10. \A i \in 1..d : rx_status[Mod(rx_cur + i - 1, N)] = TRUE
  BY DEF RxInv, N
<1> HIDE DEF g, d
<1>11. Arrived' = Append(Arrived, p) /\ Len(Arrived) < N - 1
  BY <1>2, <1>3, <1>7
<1>12. ASSUME NEW i \in 1..(d + 1)
       PROVE  rx_status'[Mod(rx_cur + i - 1, N)] = TRUE
  <2>1. CASE i = d + 1
    <3>1. Mod(rx_cur + i - 1, N) = rdh
      BY <1>8, <2>1
    <3> QED
      BY <1>1, <1>2, <1>4, <3>1
  <2>2. CASE i \in 1..d
    BY <1>2, <1>4, <1>8, <1>10, <2>2
  <2>3. i = d + 1 \/ i \in 1..d
    BY <1>9
  <2> QED
    BY <2>1, <2>2, <2>3, Zenon
<1>13. RxInv'
  <2>1. Mod(rdh' - rx_cur', N) = d + 1
    BY <1>2, <1>8
  <2>2. \A i \in 1..(d + 1) : rx_status'[Mod(rx_cur' + i - 1, N)] = TRUE
    BY <1>2, <1>12
  <2>3. rdt' = Mod(rx_cur' - 1, N)
    BY <1>2 DEF RxInv, N
  <2> QED
    BY <2>1, <2>2, <2>3 DEF RxInv, N
<1> QED
  BY <1>1, <1>2, <1>5, <1>11, <1>13 DEF N

(***************************************************************************)
(* e1000_recv takes the first packet and its DD bit, and returns the one   *)
(* slot behind it.                                                         *)
(***************************************************************************)
LEMMA DriverTakes ==
    ASSUME NType, RxInv, PollCard, HasPacket
    PROVE  /\ Arrived' = SubSeq(Arrived, 2, Len(Arrived))
           /\ rx_cur' \in RxSlots
           /\ RxInv'
<1> DEFINE N == NUM_RX_DESC
           P == Packets \cup {"none"}
           c == Mod(rx_cur + 1, N)
           d == Mod(rdh - rx_cur, N)
<1>1. /\ N \in Nat \ {0} /\ rx_ring \in [0..(N - 1) -> P]
      /\ rdh \in 0..(N - 1) /\ rx_cur \in 0..(N - 1) /\ RxSlots = 0..(N - 1)
  BY CardSizes DEF NType
<1>2. /\ rx_ring' = rx_ring /\ rdh' = rdh /\ rdt' = rx_cur
      /\ rx_status' = [rx_status EXCEPT ![rx_cur] = FALSE] /\ rx_cur' = c
  BY DEF PollCard, Mod
<1>3. /\ Arrived = Ring(rx_ring, rx_cur, rdh, N)
      /\ Arrived' = Ring(rx_ring', rx_cur', rdh', N)
  BY DEF Arrived, Ring, Mod
<1>4. rx_status \in [0..(N - 1) -> BOOLEAN]
  BY <1>1 DEF NType
<1> HIDE DEF N, P
<1>5. 1 \in 0..d /\ d \in 0..(N - 1)
  BY RxShape, PacketSeen DEF N
<1>6. Ring(rx_ring, c, rdh, N)
        = SubSeq(Ring(rx_ring, rx_cur, rdh, N), 1 + 1, Len(Ring(rx_ring, rx_cur, rdh, N)))
  BY <1>1, <1>5, RingTake
<1>7. c \in 0..(N - 1) /\ c = IF rx_cur + 1 < N THEN rx_cur + 1 ELSE 0
  BY <1>1, NextSlot
<1>8. /\ Mod(rdh - c, N) = d - 1
      /\ \A i \in 1..(d - 1) : Mod(c + i - 1, N) = Mod(rx_cur + (1 + i) - 1, N)
  BY <1>1, <1>5, Shorter
<1>9. \A i \in 1..d : rx_status[Mod(rx_cur + i - 1, N)] = TRUE
  BY DEF RxInv, N
<1>10. ASSUME NEW i \in 1..(d - 1)
       PROVE  rx_status'[Mod(c + i - 1, N)] = TRUE
  <2> HIDE DEF d
  <2>1. i \in 1..N /\ i <= N - 2 /\ 1 + i \in 1..d
    BY <1>1, <1>5
  <2>2. Mod(c + i - 1, N) = IF c + i - 1 < N THEN c + i - 1 ELSE c + i - 1 - N
    BY <1>1, <1>7, <2>1, Distance
  <2>3. Mod(c + i - 1, N) # rx_cur /\ Mod(c + i - 1, N) \in 0..(N - 1)
    BY <1>1, <1>7, <2>1, <2>2
  <2>4. Mod(c + i - 1, N) = Mod(rx_cur + (1 + i) - 1, N)
    BY <1>8
  <2>5. rx_status[Mod(c + i - 1, N)] = TRUE
    BY <1>9, <2>1, <2>4
  <2> QED
    BY <1>2, <1>4, <2>3, <2>5
<1>11. rdt' = Mod(rx_cur' - 1, N)
  <2>1. Mod(c - 1, N) = IF c > 0 THEN c - 1 ELSE N - 1
    BY <1>1, <1>7, NextSlot
  <2> QED
    BY <1>1, <1>2, <1>7, <2>1
<1> HIDE DEF c, d
<1>12. Arrived' = SubSeq(Arrived, 2, Len(Arrived))
  BY <1>2, <1>3, <1>6
<1>13. RxInv'
  <2>1. Mod(rdh' - rx_cur', N) = d - 1
    BY <1>2, <1>8
  <2>2. \A i \in 1..(d - 1) : rx_status'[Mod(rx_cur' + i - 1, N)] = TRUE
    BY <1>2, <1>10
  <2> QED
    BY <1>11, <2>1, <2>2 DEF RxInv, N
<1> QED
  BY <1>1, <1>2, <1>7, <1>12, <1>13 DEF N

(***************************************************************************)
(* Two facts about the sequence of packets on their way: the one that      *)
(* leaves the ring joins the wire, the one that joins the ring joins all.  *)
(***************************************************************************)
LEMMA MoveFirst ==
    ASSUME NEW S, NEW s \in Seq(S), NEW t \in Seq(S), Len(t) > 0
    PROVE  Append(s, t[1]) \o SubSeq(t, 2, Len(t)) = s \o t
<1> DEFINE x == t[1]
           b == SubSeq(t, 1 + 1, Len(t))
<1>1. x \in S
  OBVIOUS
<1>2. <<x>> \in Seq(S)
  BY <1>1
<1>3. b \in Seq(S)
  BY SubSeqProperties
<1>4. SubSeq(t, 1, Len(t)) = <<x>> \o b
  <2>1. 1 \in 1..Len(t) /\ Len(t) \in 1..Len(t)
    OBVIOUS
  <2> QED
    BY <2>1, SubSeqRecursiveFirst
<1>5. SubSeq(t, 1, Len(t)) = t
  BY SubSeqFull
<1> HIDE DEF x, b
<1>6. Append(s, x) = s \o <<x>>
  BY <1>1, AppendIsConcat
<1>7. (s \o <<x>>) \o b = s \o (<<x>> \o b)
  BY <1>2, <1>3, ConcatAssociative
<1>8. Append(s, x) \o b = s \o t
  BY <1>4, <1>5, <1>6, <1>7
<1>9. SubSeq(t, 2, Len(t)) = b
  BY DEF b
<1> QED
  BY <1>8, <1>9 DEF x

LEMMA AppendLast ==
    ASSUME NEW S, NEW s \in Seq(S), NEW t \in Seq(S), NEW x \in S
    PROVE  s \o Append(t, x) = Append(s \o t, x)
<1>1. Append(t, x) = t \o <<x>> /\ Append(s \o t, x) = (s \o t) \o <<x>>
  BY AppendIsConcat, ConcatProperties
<1>2. <<x>> \in Seq(S)
  OBVIOUS
<1> QED
  BY <1>1, <1>2, ConcatAssociative

(***************************************************************************)
(* A ring that is not full has room for one more.                          *)
(***************************************************************************)
LEMMA Room ==
    ASSUME NEW n \in Nat \ {0}, NEW t \in 0..(n - 1), NEW h \in 0..(n - 1),
           Mod(h - t, n) < n - 1
    PROVE  Mod(h + 1, n) # t
<1>1. Mod(h - t, n) = IF h >= t THEN h - t ELSE h - t + n
  BY Distance
<1>2. Mod(h + 1, n) = IF h + 1 < n THEN h + 1 ELSE 0
  BY NextSlot
<1> QED
  BY <1>1, <1>2

(***************************************************************************)
(* What the send ring looks like.                                          *)
(***************************************************************************)
LEMMA TxShape ==
    ASSUME NType, tdt = tx_cur
    PROVE  /\ Unsent \in Seq(Sent)
           /\ Len(Unsent) = Mod(tdt - tdh, NUM_TX_DESC)
           /\ tdt # tdh => Len(Unsent) > 0 /\ Unsent[1] = tx_ring[tdh]
<1> DEFINE N == NUM_TX_DESC
           A == Ring(tx_ring, tdh, tdt, N)
<1>1. /\ N \in Nat \ {0} /\ N - 1 \in Nat /\ tx_ring \in [0..(N - 1) -> Sent]
      /\ tdh \in 0..(N - 1) /\ tdt \in 0..(N - 1)
  BY CardSizes DEF NType
<1>2. Unsent = A
  BY CardRings
<1> HIDE DEF N
<1>3. A \in Seq(Sent)
  BY <1>1, RingIsSeq
<1>4. Len(A) = Mod(tdt - tdh, N)
  BY <1>1, RingIsSeq
<1>5. ASSUME tdt # tdh PROVE Len(A) > 0 /\ A[1] = tx_ring[tdh]
  BY <1>1, <1>5, RingFirst
<1> QED
  BY <1>2, <1>3, <1>4, <1>5 DEF N

(***************************************************************************)
(* The card sends the oldest request.                                      *)
(***************************************************************************)
LEMMA CardSendsFirst ==
    ASSUME NType, TxInv, CardSends
    PROVE  /\ TxInOrder' /\ tdh' \in TxSlots /\ wire' \in Seq(Sent)
<1> DEFINE N == NUM_TX_DESC
           c == Mod(tdh + 1, N)
<1>1. /\ N \in Nat \ {0} /\ N - 1 \in Nat /\ tx_ring \in [0..(N - 1) -> Sent]
      /\ tdh \in 0..(N - 1) /\ tdt \in 0..(N - 1) /\ TxSlots = 0..(N - 1)
  BY CardSizes DEF NType, TxInv
<1>2. /\ tdh # tdt /\ wire' = Append(wire, tx_ring[tdh]) /\ tdh' = c
      /\ tx_ring' = tx_ring /\ tdt' = tdt /\ asked' = asked
  BY DEF CardSends, Mod
<1>3. /\ Unsent = Ring(tx_ring, tdh, tdt, N)
      /\ Unsent' = Ring(tx_ring', tdh', tdt', N)
  BY DEF Unsent, Ring, Mod
<1>4. /\ Unsent \in Seq(Sent) /\ Len(Unsent) = Mod(tdt - tdh, N)
      /\ Len(Unsent) > 0 /\ Unsent[1] = tx_ring[tdh]
  BY <1>2, TxShape DEF TxInv
<1> HIDE DEF N
<1>5. 1 \in 0..Mod(tdt - tdh, N)
  BY <1>4
<1>6. Ring(tx_ring, c, tdt, N)
        = SubSeq(Ring(tx_ring, tdh, tdt, N), 1 + 1, Len(Ring(tx_ring, tdh, tdt, N)))
  BY <1>1, <1>5, RingTake
<1>7. c \in 0..(N - 1)
  BY <1>1, NextSlot
<1> HIDE DEF c
<1>8. Unsent' = SubSeq(Unsent, 2, Len(Unsent))
  BY <1>2, <1>3, <1>6
<1>9. wire \in Seq(Sent)
  BY DEF NType
<1>10. wire' \o Unsent' = wire \o Unsent
  BY <1>2, <1>4, <1>8, <1>9, MoveFirst
<1>11. TxInOrder'
  BY <1>2, <1>10 DEF TxInOrder, TxInv
<1>12. wire' \in Seq(Sent)
  BY <1>1, <1>2, <1>9
<1> QED
  BY <1>1, <1>2, <1>7, <1>11, <1>12

(***************************************************************************)
(* e1000_send overwrites no request the card has yet to send: there are    *)
(* fewer requests than descriptors.                                        *)
(***************************************************************************)
LEMMA SendAppends ==
    ASSUME NType, TxInv, SendRequest
    PROVE  /\ TxInOrder' /\ tx_ring' \in [TxSlots -> Sent]
           /\ tx_cur' \in TxSlots /\ tdt' = tx_cur'
           /\ asked' \in Seq(Sent) /\ Len(asked') = Len(asked) + 1
<1> DEFINE N == NUM_TX_DESC
           r == Request[stage]
           g == Mod(tx_cur + 1, N)
<1>1. /\ N \in Nat \ {0} /\ N - 1 \in Nat /\ N > 4 /\ tx_ring \in [0..(N - 1) -> Sent]
      /\ tdh \in 0..(N - 1) /\ tx_cur \in 0..(N - 1) /\ TxSlots = 0..(N - 1) /\ tdt = tx_cur
      /\ wire \in Seq(Sent) /\ asked \in Seq(Sent)
  BY CardSizes DEF NType, TxInv
<1>2. r \in Sent
  <2>1. stage \in {"arp", "icmp", "dns", "tcp"}
    BY DEF SendRequest, NType
  <2> QED
    BY <2>1 DEF Request, ArpRequest, Ping, DnsQuery, TcpSyn, Sent
<1>3. /\ tx_ring' = [tx_ring EXCEPT ![tx_cur] = r] /\ tx_cur' = g /\ tdt' = g
      /\ asked' = Append(asked, r) /\ tdh' = tdh /\ wire' = wire
  BY DEF SendRequest, TailAfterSend, Mod
<1>4. /\ Unsent = Ring(tx_ring, tdh, tdt, N)
      /\ Unsent' = Ring(tx_ring', tdh', tdt', N)
  BY DEF Unsent, Ring, Mod
<1>5. Unsent \in Seq(Sent) /\ Len(Unsent) = Mod(tdt - tdh, N)
  BY <1>1, TxShape
<1>6. Len(asked) <= 3
  <2>1. stage \in {"arp", "icmp", "dns", "tcp"} /\ tries = 0
    BY DEF SendRequest, NType
  <2>2. Before[stage] \in 0..3
    BY <2>1 DEF Before
  <2> QED
    BY <1>1, <2>1, <2>2 DEF TxInv
<1>7. wire \o Unsent = asked
  BY DEF TxInv, TxInOrder
<1>8. Len(Unsent) <= 3
  BY <1>1, <1>5, <1>6, <1>7, ConcatProperties
<1> HIDE DEF N, r
<1>9. g \in 0..(N - 1) /\ g # tdh
  <2>1. Mod(tx_cur - tdh, N) < N - 1
    BY <1>1, <1>5, <1>8
  <2> QED
    BY <1>1, <2>1, NextSlot, Room
<1>10. /\ Ring([tx_ring EXCEPT ![tx_cur] = r], tdh, g, N) = Append(Ring(tx_ring, tdh, tx_cur, N), r)
       /\ Len(Ring(tx_ring, tdh, tx_cur, N)) < N - 1
  <2>1. /\ N \in Nat \ {0} /\ tx_ring \in [0..(N - 1) -> Sent]
        /\ tdh \in 0..(N - 1) /\ tx_cur \in 0..(N - 1)
    BY <1>1
  <2> QED
    BY <2>1, <1>2, <1>9, RingPut
<1> HIDE DEF g
<1>11. Unsent' = Append(Unsent, r)
  BY <1>1, <1>3, <1>4, <1>10
<1>12. wire \o Append(Unsent, r) = Append(wire \o Unsent, r)
  BY <1>1, <1>2, <1>5, AppendLast
<1>13. TxInOrder'
  BY <1>3, <1>7, <1>11, <1>12 DEF TxInOrder
<1> QED
  BY <1>1, <1>2, <1>3, <1>9, <1>13

(***************************************************************************)
(* One round of a polling loop, written without its case distinction.      *)
(***************************************************************************)
LEMMA PollEnds ==
    ASSUME NType, TxInv, PollCard
    PROVE  /\ tries > 0 /\ stage \in {"arp", "icmp", "dns", "tcp"}
           /\ Found \/ GivesUp => /\ tries' = 0
                                  /\ stage' \in {"icmp", "dns", "tcp", "over"}
                                  /\ Before[stage'] >= Before[stage] + 1
           /\ ~(Found \/ GivesUp) => tries' = tries - 1 /\ stage' = stage
<1>1. tries > 0 /\ stage \in {"arp", "icmp", "dns", "tcp"}
  BY DEF PollCard, TxInv, NType
<1>2. stage' = CASE Found -> After[stage]
                 [] ~Found /\ ~GivesUp -> stage
                 [] ~Found /\ GivesUp -> IF stage = "arp" THEN "over" ELSE After[stage]
  BY Zenon DEF PollCard
<1>3. tries' = IF Found \/ GivesUp THEN 0 ELSE tries - 1
  BY Zenon DEF PollCard
<1>4. ~(Found \/ GivesUp) => stage' = stage
  BY <1>2, Zenon
<1>5. Found \/ GivesUp => stage' = After[stage] \/ (stage = "arp" /\ stage' = "over")
  BY <1>2, Zenon
<1>6. /\ After[stage] \in {"icmp", "dns", "tcp", "over"}
      /\ Before[After[stage]] >= Before[stage] + 1
      /\ Before["over"] >= Before["arp"] + 1
  BY <1>1 DEF After, Before
<1> QED
  BY <1>1, <1>3, <1>4, <1>5, <1>6

(***************************************************************************)
(* A poll takes one packet, so an answer comes one place nearer while one  *)
(* poll is used up; at the first place it is found.                        *)
(***************************************************************************)
LEMMA PollNearer ==
    ASSUME NType, RxInv, TxInv, PollInv, PollCard
    PROVE  PollInv'
<1>1. /\ tries > 0 /\ tries \in Int
      /\ ~(Found \/ GivesUp) => tries' = tries - 1 /\ stage' = stage
  BY PollEnds DEF NType
<1>2. due' = (due /\ ~Found)
  BY DEF PollCard
<1>3. CASE ~due \/ Found
  BY <1>2, <1>3 DEF PollInv
<1>4. CASE due /\ ~Found
  <2>1. PICK i \in 1..Len(Arrived) : i <= tries /\ Arrived[i] \in Answers[stage]
    BY <1>4 DEF PollInv
  <2>2. Arrived \in Seq(Packets \cup {"none"}) /\ Len(Arrived) \in Nat
    BY RxShape
  <2>3. HasPacket /\ Arrived[1] = rx_ring[rx_cur]
    BY <2>1, <2>2, RxShape, PacketSeen
  <2>4. i # 1
    BY <1>4, <2>1, <2>3 DEF Found
  <2>5. tries >= 2 /\ ~GivesUp
    BY <1>1, <2>1, <2>2, <2>4 DEF GivesUp
  <2>6. tries' = tries - 1 /\ stage' = stage
    BY <1>1, <1>4, <2>5
  <2>7. Arrived' = SubSeq(Arrived, 2, Len(Arrived))
    BY <2>3, DriverTakes
  <2> DEFINE b == SubSeq(Arrived, 2, Len(Arrived))
             S == Packets \cup {"none"}
             A == Arrived
  <2>8. i \in 2..Len(A) /\ A \in Seq(S)
    BY <2>1, <2>2, <2>4
  <2> HIDE DEF S, A
  <2>9. /\ Len(SubSeq(A, 2, Len(A))) = Len(A) - 1
        /\ \A k \in 1..(Len(A) - 1) : SubSeq(A, 2, Len(A))[k] = A[k + 1]
    <3>1. Len(A) \in Int /\ \A k \in 2..Len(A) : A[k] \in S
      BY <2>8
    <3>2. /\ Len(SubSeq(A, 2, Len(A))) = IF 2 <= Len(A) THEN Len(A) - 2 + 1 ELSE 0
          /\ \A k \in 1..(Len(A) - 2 + 1) : SubSeq(A, 2, Len(A))[k] = A[2 + k - 1]
      BY <3>1, SubSeqProperties
    <3>3. Len(A) - 2 + 1 = Len(A) - 1 /\ 2 <= Len(A) /\ \A k \in 1..(Len(A) - 1) : 2 + k - 1 = k + 1
      BY <2>8
    <3> QED
      BY <3>2, <3>3
  <2>10. i - 1 \in 1..Len(b) /\ b[i - 1] = Arrived[i]
    BY <2>8, <2>9 DEF A
  <2>11. \E k \in 1..Len(Arrived') : k <= tries' /\ Arrived'[k] \in Answers[stage']
    <3>1. i - 1 <= tries'
      BY <1>1, <2>1, <2>2, <2>6
    <3> QED
      BY <2>1, <2>6, <2>7, <2>10, <3>1
  <2>12. ~(tries' <= 0)
    BY <1>1, <2>5, <2>6
  <2> QED
    BY <2>11, <2>12 DEF PollInv
<1> QED
  BY <1>3, <1>4 DEF NType

(***************************************************************************)
(* The ring holds no more packets than there are polls, so whatever has    *)
(* arrived when the polls begin is within their reach.                     *)
(***************************************************************************)
LEMMA PollsReach ==
    ASSUME NType, BeginPolling
    PROVE  PollInv' /\ tries' \in Int /\ tries' # 0 /\ due' \in BOOLEAN
<1>1. /\ tries' = Tries /\ Arrived' = Arrived /\ stage' = stage
      /\ due' = \E i \in DOMAIN Arrived : Arrived[i] \in Answers[stage]
  BY DEF BeginPolling, Polls, rxvars, Arrived
<1>2. DOMAIN Arrived = 1..Len(Arrived) /\ Len(Arrived) \in 0..(NUM_RX_DESC - 1)
  BY RxShape
<1>3. Tries \in Nat /\ Tries >= NUM_RX_DESC - 1 /\ NUM_RX_DESC > 1 /\ NUM_RX_DESC \in Nat
  BY CardSizes
<1>4. due' => \E i \in 1..Len(Arrived') : i <= tries' /\ Arrived'[i] \in Answers[stage']
  <2> SUFFICES ASSUME due' PROVE \E i \in 1..Len(Arrived) : i <= Tries /\ Arrived[i] \in Answers[stage]
    BY <1>1
  <2>1. PICK i \in 1..Len(Arrived) : Arrived[i] \in Answers[stage]
    BY <1>1, <1>2
  <2>2. i <= Tries
    BY <1>2, <1>3
  <2> QED
    BY <2>1, <2>2
<1>5. ~(tries' <= 0)
  BY <1>1, <1>3
<1> QED
  BY <1>1, <1>3, <1>4, <1>5 DEF PollInv

LEMMA NInvStart ==
    ASSUME NInit
    PROVE  NInv
<1>1. NType
  BY CardSizes DEF NInit, NType, Sent
<1>2. RxInv
  <2>1. Mod(0 - 1, NUM_RX_DESC) = NUM_RX_DESC - 1 /\ Mod(0 - 0, NUM_RX_DESC) = 0
    BY CardSizes, Wrap
  <2> QED
    BY <2>1 DEF NInit, RxInv
<1>3. TxInv
  <2>1. Len(Unsent) = Mod(0 - 0, NUM_TX_DESC) /\ Unsent \in Seq(Sent)
    BY <1>1, TxShape DEF NInit
  <2>2. Mod(0 - 0, NUM_TX_DESC) = 0
    BY CardSizes, Wrap
  <2>3. Unsent = << >>
    BY <2>1, <2>2, EmptySeq
  <2>4. << >> \o << >> = << >>
    BY ConcatEmptySeq, EmptySeq
  <2>5. TxInOrder
    BY <2>3, <2>4 DEF NInit, TxInOrder
  <2> QED
    BY <2>5 DEF NInit, TxInv, Before
<1>4. PollInv
  BY DEF NInit, PollInv
<1> QED
  BY <1>1, <1>2, <1>3, <1>4 DEF NInv

(***************************************************************************)
(* Every step of the card and of net_test keeps the invariant.             *)
(***************************************************************************)
LEMMA NInvStep ==
    ASSUME NInv, NNext
    PROVE  NInv'
<1> USE DEF NInv
<1>1. ASSUME NEW p \in Packets, CardReceives(p) PROVE NInv'
  <2>1. /\ Arrived' = Append(Arrived, p) /\ rdh' \in RxSlots /\ RxInv'
    BY <1>1, CardAppends
  <2>2. UNCHANGED <<rx_cur, txvars, stage, tries, dns_result, due>>
    BY <1>1 DEF CardReceives
  <2>3. NType'
    <3>1. rx_ring' \in [RxSlots -> Packets \cup {"none"}] /\ rx_status' \in [RxSlots -> BOOLEAN]
      BY <1>1 DEF CardReceives, NType
    <3> QED
      BY <2>1, <2>2, <3>1 DEF NType, txvars
  <2>4. TxInv'
    BY <2>2 DEF TxInv, TxInOrder, Unsent, txvars
  <2>5. PollInv'
    <3>1. Arrived \in Seq(Packets \cup {"none"}) /\ p \in Packets \cup {"none"}
      BY RxShape
    <3>2. /\ Len(Arrived') = Len(Arrived) + 1 /\ Len(Arrived) \in Nat
          /\ \A i \in 1..Len(Arrived) : Arrived'[i] = Arrived[i]
      BY <2>1, <3>1, AppendProperties
    <3> QED
      BY <2>2, <3>2 DEF PollInv
  <2> QED
    BY <2>1, <2>3, <2>4, <2>5
<1>6. ASSUME NEW p \in Packets, CardDrops(p) PROVE NInv'
  <2>1. UNCHANGED <<rx_ring, rx_status, rdh, rdt, rx_cur, txvars, stage, tries, dns_result, due>>
    BY <1>6 DEF CardDrops
  <2>2. NType' /\ RxInv'
    BY <2>1 DEF NType, RxInv, txvars
  <2>3. TxInv' /\ PollInv'
    BY <2>1 DEF TxInv, TxInOrder, Unsent, PollInv, Arrived, txvars
  <2> QED
    BY <2>2, <2>3
<1>2. ASSUME CardSends PROVE NInv'
  <2>1. /\ TxInOrder' /\ tdh' \in TxSlots /\ wire' \in Seq(Sent)
    BY <1>2, CardSendsFirst
  <2>2. UNCHANGED <<rxvars, tx_ring, tdt, tx_cur, asked, stage, tries, dns_result, due>>
    BY <1>2 DEF CardSends
  <2>3. NType' /\ TxInv'
    BY <2>1, <2>2 DEF NType, TxInv, rxvars
  <2>4. RxInv' /\ PollInv'
    BY <2>2 DEF RxInv, PollInv, Arrived, rxvars
  <2> QED
    BY <2>3, <2>4
<1>3. ASSUME SendRequest PROVE NInv'
  <2>1. /\ TxInOrder' /\ tx_ring' \in [TxSlots -> Sent]
        /\ tx_cur' \in TxSlots /\ tdt' = tx_cur'
        /\ asked' \in Seq(Sent) /\ Len(asked') = Len(asked) + 1
    BY <1>3, SendAppends
  <2>2. UNCHANGED <<rxvars, tdh, wire, stage, dns_result, due>> /\ tries = 0 /\ tries' = -1 /\ stage # "over"
    BY <1>3 DEF SendRequest
  <2>3. NType'
    BY <2>1, <2>2 DEF NType, rxvars
  <2>4. TxInv'
    <3>1. Before[stage] \in Nat /\ Len(asked) \in Nat
      BY DEF NType, Before
    <3>2. Len(asked') <= Before[stage'] + 1
      BY <2>1, <2>2, <3>1 DEF TxInv
    <3> QED
      BY <2>1, <2>2, <3>2 DEF TxInv
  <2>5. RxInv' /\ PollInv'
    BY <2>2 DEF RxInv, PollInv, Arrived, rxvars
  <2> QED
    BY <2>3, <2>4, <2>5
<1>4. ASSUME BeginPolling PROVE NInv'
  <2>1. PollInv' /\ tries' \in Int /\ tries' # 0 /\ due' \in BOOLEAN
    BY <1>4, PollsReach
  <2>2. UNCHANGED <<rxvars, txvars, stage, dns_result>> /\ tries = -1
    BY <1>4 DEF BeginPolling
  <2>3. NType'
    BY <2>1, <2>2 DEF NType, rxvars, txvars
  <2>4. RxInv'
    BY <2>2 DEF RxInv, rxvars
  <2>5. TxInv'
    <3>1. TxInOrder' /\ tdt' = tx_cur'
      BY <2>2 DEF TxInv, TxInOrder, Unsent, txvars
    <3>2. stage' # "over" /\ Len(asked') <= Before[stage'] + 1
      BY <2>2 DEF TxInv, txvars
    <3> QED
      BY <2>1, <3>1, <3>2 DEF TxInv
  <2> QED
    BY <2>1, <2>3, <2>4, <2>5
<1>5. ASSUME PollCard PROVE NInv'
  <2>1. /\ tries > 0 /\ stage \in {"arp", "icmp", "dns", "tcp"}
        /\ Found \/ GivesUp => /\ tries' = 0
                               /\ stage' \in {"icmp", "dns", "tcp", "over"}
                               /\ Before[stage'] >= Before[stage] + 1
        /\ ~(Found \/ GivesUp) => tries' = tries - 1 /\ stage' = stage
    BY <1>5, PollEnds
  <2>2. PollInv'
    BY <1>5, PollNearer
  <2>3. UNCHANGED <<rx_ring, rdh, txvars>>
    BY <1>5 DEF PollCard
  <2>4. RxInv' /\ rx_cur' \in RxSlots /\ rx_status' \in [RxSlots -> BOOLEAN]
    <3>1. CASE HasPacket
      BY <1>5, <3>1, DriverTakes DEF PollCard, NType
    <3>2. CASE ~HasPacket
      <4>1. UNCHANGED <<rx_status, rdt, rx_cur>>
        BY <1>5, <3>2 DEF PollCard
      <4> QED
        BY <2>3, <4>1 DEF NType, RxInv
    <3> QED
      BY <3>1, <3>2
  <2>5. dns_result' \in BOOLEAN /\ due' \in BOOLEAN
    BY <1>5 DEF PollCard
  <2>6. tries' \in Int /\ stage' \in {"arp", "icmp", "dns", "tcp", "over"}
    BY <2>1 DEF NType
  <2>7. NType'
    BY <2>3, <2>4, <2>5, <2>6 DEF NType, txvars
  <2>8. TxInv'
    <3>1. TxInOrder' /\ tdt' = tx_cur' /\ asked' = asked
      BY <2>3 DEF TxInv, TxInOrder, Unsent, txvars
    <3>2. Len(asked) <= Before[stage] + 1 /\ Before[stage] \in Nat /\ Len(asked) \in Nat
      BY <2>1 DEF TxInv, NType, Before
    <3>3. CASE Found \/ GivesUp
      <4>1. Before[stage'] \in Nat
        BY <2>1, <3>3 DEF Before
      <4> QED
        BY <2>1, <3>1, <3>2, <3>3, <4>1 DEF TxInv
    <3>4. CASE ~(Found \/ GivesUp)
      <4>1. tries' # 0 /\ stage' = stage /\ stage # "over"
        BY <2>1, <3>4 DEF GivesUp, NType
      <4> QED
        BY <3>1, <3>2, <4>1 DEF TxInv
    <3> QED
      BY <3>3, <3>4
  <2> QED
    BY <2>2, <2>4, <2>7, <2>8
<1> QED
  BY <1>1, <1>2, <1>3, <1>4, <1>5, <1>6 DEF NNext

(***************************************************************************)
(* One step of the card or of net_test is one step of the receive queue.   *)
(***************************************************************************)
LEMMA RxQueueStep ==
    ASSUME NInv, NNext
    PROVE  RxQueue!Flow \/ UNCHANGED <<Arrived, taken, rxcall>>
<1> USE DEF NInv
<1>1. ASSUME NEW p \in Packets, CardReceives(p) PROVE RxQueue!Flow
  <2>1. Arrived' = Append(Arrived, p) /\ Len(Arrived) < NUM_RX_DESC - 1
    BY <1>1, CardAppends
  <2>2. taken' = taken /\ rxcall' = <<"offer", p, 1 - rxcall[3]>>
    BY <1>1 DEF CardReceives
  <2> QED
    BY <2>1, <2>2 DEF RxQueue!Flow, RxQueue!Offer, RxQueue!Called
<1>5. ASSUME NEW p \in Packets, CardDrops(p) PROVE RxQueue!Flow
  <2>1. /\ rdh = rdt /\ UNCHANGED <<rx_ring, rdh, rx_cur, taken>>
        /\ rxcall' = <<"offer", p, 1 - rxcall[3]>>
    BY <1>5 DEF CardDrops
  <2>2. ~(Len(Arrived) < NUM_RX_DESC - 1)
    BY <2>1, RxFull
  <2>3. Arrived' = Arrived
    BY <2>1 DEF Arrived
  <2> QED
    BY <2>1, <2>2, <2>3 DEF RxQueue!Flow, RxQueue!Offer, RxQueue!Called
<1>2. CASE CardSends \/ SendRequest \/ BeginPolling
  BY <1>2 DEF CardSends, SendRequest, BeginPolling, Arrived, rxvars
<1>3. ASSUME PollCard, HasPacket PROVE RxQueue!Flow
  <2>1. Arrived' = SubSeq(Arrived, 1 + 1, Len(Arrived))
    BY <1>3, DriverTakes
  <2>2. taken' = <<rx_ring[rx_cur]>> /\ rxcall' = <<"take", "none", 1 - rxcall[3]>>
    BY <1>3 DEF PollCard
  <2>3. Len(Arrived) > 0 /\ Arrived[1] = rx_ring[rx_cur] /\ Arrived \in Seq(Packets \cup {"none"})
    BY <1>3, PacketSeen, RxShape
  <2>4. taken' = SubSeq(Arrived, 1, 1)
    BY <2>2, <2>3, FirstOnly
  <2>5. 1 \in 1..Len(Arrived)
    BY <2>3
  <2> QED
    BY <2>1, <2>2, <2>4, <2>5 DEF RxQueue!Flow, RxQueue!Take, RxQueue!Called
<1>4. ASSUME PollCard, ~HasPacket PROVE UNCHANGED <<Arrived, taken, rxcall>>
  BY <1>4 DEF PollCard, Arrived
<1> QED
  BY <1>1, <1>2, <1>3, <1>4, <1>5 DEF NNext

(***************************************************************************)
(* The rings of the card, for any number of descriptors and any packets.   *)
(***************************************************************************)
THEOREM CardInvariance == NSpec => []NInv
<1>1. NInit => NInv
  BY NInvStart
<1>2. NInv /\ [NNext]_nvars => NInv'
  <2> SUFFICES ASSUME NInv, [NNext]_nvars PROVE NInv'
    OBVIOUS
  <2>1. CASE NNext
    BY <2>1, NInvStep
  <2>2. CASE UNCHANGED nvars
    BY <2>2 DEF NInv, NType, RxInv, TxInv, PollInv, TxInOrder, Arrived, Unsent, nvars
  <2> QED
    BY <2>1, <2>2
<1> QED
  BY <1>1, <1>2, PTL DEF NSpec

(***************************************************************************)
(* e1000_send loses, repeats or reorders no request of net_test, although  *)
(* it never asks whether the card has sent the descriptor's old packet.    *)
(***************************************************************************)
THEOREM SendsInOrder == NSpec => []TxInOrder
<1>1. NInv => TxInOrder
  BY DEF NInv, TxInv
<1> QED
  BY <1>1, CardInvariance, PTL

(***************************************************************************)
(* net_test does not give up on an answer that had arrived before its      *)
(* first poll, with at least as many polls as the ring holds packets.      *)
(***************************************************************************)
THEOREM AnswersFound == NSpec => []NoReplyMissed
<1>1. NInv => NoReplyMissed
  BY DEF NInv, PollInv, NoReplyMissed
<1> QED
  BY <1>1, CardInvariance, PTL

(***************************************************************************)
(* The receive ring implements the bounded queue, whoever moves first.     *)
(***************************************************************************)
THEOREM ReceiveIsQueue == NSpec => RxImplements
<1>1. NInv /\ [NNext]_nvars => [RxQueue!Flow]_<<Arrived, taken, rxcall>>
  <2> SUFFICES ASSUME NInv, [NNext]_nvars
               PROVE  RxQueue!Flow \/ UNCHANGED <<Arrived, taken, rxcall>>
    OBVIOUS
  <2>1. CASE NNext
    BY <2>1, RxQueueStep
  <2>2. CASE UNCHANGED nvars
    BY <2>2 DEF nvars, Arrived
  <2> QED
    BY <2>1, <2>2
<1> QED
  BY <1>1, CardInvariance, PTL DEF NSpec, RxImplements
=============================================================================
