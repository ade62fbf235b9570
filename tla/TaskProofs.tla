----------------------------- MODULE TaskProofs -----------------------------
(***************************************************************************)
(* Proofs about module Task, for every number of tasks, slots and          *)
(* semaphores, and then about module Shell, whose programs run on it: the  *)
(* lock around output, for any number of tasks and any use of the kill     *)
(* command.                                                                *)
(***************************************************************************)
EXTENDS Shell, FiniteSetTheorems, TLAPS

(***************************************************************************)
(* The inductive invariant.  Blocking is sound only because schedule()     *)
(* finds somebody else, which needs kmain on the list and runnable; waking *)
(* is sound only because a woken task waits nowhere else.  So the parts    *)
(* hold together or not at all.                                            *)
(***************************************************************************)
IInv == /\ TypeOK
        /\ RingOK
        /\ OneRunning
        /\ WaitsInOnePlace
        /\ BlockedIsFindable
        /\ SemBalance

(***************************************************************************)
(* r is a list of tasks without repetition, and r2 has the same tasks.     *)
(***************************************************************************)
IsRing(r) == /\ r \in Seq(Ids) /\ Len(r) >= 1
             /\ \A i, j \in 1..Len(r) : r[i] = r[j] => i = j

Member(t, r) == \E i \in 1..Len(r) : r[i] = t

(***************************************************************************)
(* Turning the list so that another task is current loses and repeats      *)
(* nobody: the walk of schedule() leaves ->next alone.                     *)
(***************************************************************************)
LEMMA RotateLemma ==
    ASSUME NEW r, IsRing(r), NEW i \in 2..Len(r)
    PROVE  /\ IsRing(Rotate(r, i))
           /\ Rotate(r, i)[1] = r[i]
           /\ \A t \in Ids : Member(t, Rotate(r, i)) <=> Member(t, r)
<1> DEFINE q == Rotate(r, i)
           n == Len(r)
<1>1. /\ r \in Seq(Ids) /\ n \in Nat /\ n >= 2 /\ i \in 2..n
      /\ \A j \in 1..n : r[j] \in Ids
  BY DEF IsRing
<1>2. \A j \in 1..n : q[j] = IF j + i - 1 <= n THEN r[j + i - 1] ELSE r[j + i - 1 - n]
  BY <1>1 DEF Rotate
<1>3. q = [j \in DOMAIN q |-> q[j]] /\ DOMAIN q = 1..n
  BY DEF Rotate
<1> HIDE DEF q, n
<1>4. \A j \in 1..n : q[j] \in Ids
  BY <1>1, <1>2
<1>5. q \in [1..n -> Ids]
  BY <1>3, <1>4
<1>6. q \in Seq(Ids) /\ Len(q) = n
  BY <1>1, <1>5
<1>7. \A j, k \in 1..n : q[j] = q[k] => j = k
  <2> SUFFICES ASSUME NEW j \in 1..n, NEW k \in 1..n, q[j] = q[k]
               PROVE  j = k
    OBVIOUS
  <2>1. \A a, b \in 1..n : r[a] = r[b] => a = b
    BY DEF IsRing, n
  <2>2. CASE j + i - 1 <= n /\ k + i - 1 <= n
    BY <1>1, <1>2, <2>1, <2>2
  <2>3. CASE j + i - 1 > n /\ k + i - 1 > n
    BY <1>1, <1>2, <2>1, <2>3
  <2>4. CASE j + i - 1 <= n /\ k + i - 1 > n
    BY <1>1, <1>2, <2>1, <2>4
  <2>5. CASE j + i - 1 > n /\ k + i - 1 <= n
    BY <1>1, <1>2, <2>1, <2>5
  <2> QED
    BY <1>1, <2>2, <2>3, <2>4, <2>5
<1>8. ASSUME NEW t \in Ids
      PROVE  Member(t, q) <=> Member(t, r)
  <2>1. ASSUME NEW j \in 1..n, q[j] = t
        PROVE  Member(t, r)
    <3>1. CASE j + i - 1 <= n
      <4>1. j + i - 1 \in 1..n /\ r[j + i - 1] = t
        BY <1>1, <1>2, <2>1, <3>1
      <4> QED
        BY <4>1 DEF Member, n
    <3>2. CASE j + i - 1 > n
      <4>1. j + i - 1 - n \in 1..n /\ r[j + i - 1 - n] = t
        BY <1>1, <1>2, <2>1, <3>2
      <4> QED
        BY <4>1 DEF Member, n
    <3> QED
      BY <1>1, <3>1, <3>2
  <2>2. ASSUME NEW j \in 1..n, r[j] = t
        PROVE  Member(t, q)
    <3>1. CASE j >= i
      <4>1. PICK m \in 1..n : m = j - i + 1
        BY <1>1, <3>1
      <4>2. m + i - 1 = j /\ m + i - 1 <= n
        BY <1>1, <4>1
      <4>3. q[m] = r[j]
        BY <1>2, <4>2
      <4> QED
        BY <1>6, <2>2, <4>3 DEF Member, n
    <3>2. CASE j < i
      <4>1. PICK m \in 1..n : m = j - i + 1 + n
        BY <1>1, <3>2
      <4>2. m + i - 1 - n = j /\ ~ (m + i - 1 <= n)
        BY <1>1, <4>1
      <4>3. q[m] = r[j]
        BY <1>2, <4>2
      <4> QED
        BY <1>6, <2>2, <4>3 DEF Member, n
    <3> QED
      BY <1>1, <3>1, <3>2
  <2> QED
    BY <1>6, <2>1, <2>2 DEF Member, n
<1>9. q[1] = r[i]
  <2>1. 1 \in 1..n /\ 1 + i - 1 = i /\ i <= n
    BY <1>1
  <2> QED
    BY <1>2, <2>1
<1> QED
  BY <1>1, <1>6, <1>7, <1>8, <1>9 DEF IsRing, q, n

(***************************************************************************)
(* Putting a new task after the current one adds it and loses nobody.      *)
(***************************************************************************)
LEMMA InsertLemma ==
    ASSUME NEW r, IsRing(r), NEW x \in Ids, ~ Member(x, r)
    PROVE  /\ IsRing(InsertAfterCurrent(r, x))
           /\ InsertAfterCurrent(r, x)[1] = r[1]
           /\ \A t \in Ids : Member(t, InsertAfterCurrent(r, x)) <=> (t = x \/ Member(t, r))
<1> DEFINE q == InsertAfterCurrent(r, x)
           n == Len(r)
<1>1. /\ r \in Seq(Ids) /\ n \in Nat /\ n >= 1
      /\ \A j \in 1..n : r[j] \in Ids
  BY DEF IsRing
<1>2. \A j \in 1..(n + 1) :
         q[j] = IF j = 1 THEN r[1] ELSE IF j = 2 THEN x ELSE r[j - 1]
  BY <1>1 DEF InsertAfterCurrent
<1>3. q = [j \in DOMAIN q |-> q[j]] /\ DOMAIN q = 1..(n + 1)
  BY DEF InsertAfterCurrent
<1> HIDE DEF q, n
<1>4. \A j \in 1..(n + 1) : q[j] \in Ids
  BY <1>1, <1>2
<1>5. q \in [1..(n + 1) -> Ids]
  BY <1>3, <1>4
<1>6. q \in Seq(Ids) /\ Len(q) = n + 1
  BY <1>1, <1>5
<1>7. \A j, k \in 1..(n + 1) : q[j] = q[k] => j = k
  <2>1. \A a, b \in 1..n : r[a] = r[b] => a = b
    BY DEF IsRing, n
  <2>2. \A a \in 1..n : r[a] # x
    BY DEF Member, n
  <2> QED
    BY <1>1, <1>2, <2>1, <2>2
<1>8. ASSUME NEW t \in Ids
      PROVE  Member(t, q) <=> (t = x \/ Member(t, r))
  <2>1. ASSUME NEW j \in 1..(n + 1), q[j] = t
        PROVE  t = x \/ Member(t, r)
    BY <1>1, <1>2, <2>1 DEF Member, n
  <2>2. Member(x, q)
    <3>1. 2 \in 1..(n + 1) /\ q[2] = x
      BY <1>1, <1>2
    <3> QED
      BY <1>6, <3>1 DEF Member, n
  <2>3. ASSUME NEW j \in 1..n, r[j] = t
        PROVE  Member(t, q)
    <3>1. CASE j = 1
      <4>1. 1 \in 1..(n + 1) /\ q[1] = r[1]
        BY <1>1, <1>2
      <4> QED
        BY <1>6, <2>3, <3>1, <4>1 DEF Member, n
    <3>2. CASE j > 1
      <4>1. j + 1 \in 1..(n + 1) /\ q[j + 1] = r[j]
        BY <1>1, <1>2, <3>2
      <4> QED
        BY <1>6, <2>3, <4>1 DEF Member, n
    <3> QED
      BY <1>1, <3>1, <3>2
  <2> QED
    BY <1>6, <2>1, <2>2, <2>3 DEF Member, n
<1>9. q[1] = r[1]
  BY <1>1, <1>2
<1> QED
  BY <1>1, <1>6, <1>7, <1>8, <1>9 DEF IsRing, q, n

-----------------------------------------------------------------------------
(***************************************************************************)
(* The invariant over given values, so that it can be stated of the values *)
(* a handler has computed before it calls schedule().                      *)
(***************************************************************************)
Placed(t, w, sl) == \/ \E k \in Slots : sl[k] = t
                    \/ \E q \in Queues : \E i \in 1..Len(w[q]) : w[q][i] = t

OncePlaced(w, sl) ==
    /\ \A q1, q2 \in Queues :
          \A i1 \in 1..Len(w[q1]), i2 \in 1..Len(w[q2]) :
             w[q1][i1] = w[q2][i2] => q1 = q2 /\ i1 = i2
    /\ \A q \in Queues : \A i \in 1..Len(w[q]) : \A k \in Slots : sl[k] # w[q][i]
    /\ \A k, l \in Slots : sl[k] # NoTask /\ sl[k] = sl[l] => k = l

Listed(r, s, n) == /\ IsRing(r)
                   /\ \A t \in Ids : Member(t, r) <=> t < n
                   /\ \A t \in Ids : s[t] = "NONE" <=> t >= n

Runs(r, s) == /\ s[r[1]] \in {"RUNNING", "DEAD"}
              /\ \A t \in Ids : s[t] = "RUNNING" => t = r[1]
              /\ s[0] \in {"READY", "RUNNING"}

Waits(r, s, w, sl) ==
    /\ OncePlaced(w, sl)
    /\ \A t \in Ids : Placed(t, w, sl) => t # r[1] /\ s[t] \in {"BLOCKED", "DEAD"}
    /\ \A t \in Ids : s[t] = "BLOCKED" => Placed(t, w, sl)

Core == /\ Listed(ring, st, next_id)
        /\ Runs(ring, st)
        /\ Waits(ring, st, wq, sleeper)

(***************************************************************************)
(* That is what the parts of IInv say.                                     *)
(***************************************************************************)
LEMMA CoreIff ==
    TypeOK => (Core <=> RingOK /\ OneRunning /\ WaitsInOnePlace /\ BlockedIsFindable)
<1> SUFFICES ASSUME TypeOK
             PROVE  Core <=> RingOK /\ OneRunning /\ WaitsInOnePlace /\ BlockedIsFindable
  OBVIOUS
<1>1. Listed(ring, st, next_id) <=> RingOK
  BY DEF Listed, IsRing, Member, RingOK, TypeOK
<1>2. Runs(ring, st) <=> OneRunning
  BY DEF Runs, OneRunning, current
<1>3. \A q \in Queues : \A i \in 1..Len(wq[q]) : wq[q][i] \in Ids
  BY DEF TypeOK
<1>4. \A k \in Slots : sleeper[k] # NoTask => sleeper[k] \in Ids
  BY DEF TypeOK
<1>5. NoTask \notin Ids
  BY DEF NoTask, Ids
<1>6. ASSUME Waits(ring, st, wq, sleeper)
      PROVE  WaitsInOnePlace /\ BlockedIsFindable
  <2>1. QueuedOnce
    BY <1>6 DEF Waits, OncePlaced, QueuedOnce
  <2>2. QueuedOff
    BY <1>3, <1>6 DEF Waits, OncePlaced, Placed, QueuedOff, current
  <2>3. AsleepOff
    BY <1>4, <1>6 DEF Waits, OncePlaced, Placed, AsleepOff, current
  <2>4. BlockedIsFindable
    BY <1>6 DEF Waits, Placed, BlockedIsFindable
  <2> QED
    BY <2>1, <2>2, <2>3, <2>4 DEF WaitsInOnePlace
<1>7. ASSUME WaitsInOnePlace, BlockedIsFindable
      PROVE  Waits(ring, st, wq, sleeper)
  <2>1. OncePlaced(wq, sleeper)
    BY <1>7 DEF WaitsInOnePlace, QueuedOnce, QueuedOff, AsleepOff, OncePlaced
  <2>2. ASSUME NEW t \in Ids, Placed(t, wq, sleeper)
        PROVE  t # ring[1] /\ st[t] \in {"BLOCKED", "DEAD"}
    BY <1>5, <1>7, <2>2 DEF WaitsInOnePlace, QueuedOff, AsleepOff, Placed, current
  <2>3. ASSUME NEW t \in Ids, st[t] = "BLOCKED"
        PROVE  Placed(t, wq, sleeper)
    BY <1>7, <2>3 DEF BlockedIsFindable, Placed
  <2> QED
    BY <2>1, <2>2, <2>3 DEF Waits
<1> QED
  BY <1>1, <1>2, <1>6, <1>7 DEF Core

(***************************************************************************)
(* The invariant, regrouped: the types, the part about list, queues and    *)
(* slots that every handler shares, and the semaphores.                    *)
(***************************************************************************)
LEMMA InvIff == IInv <=> TypeOK /\ Core /\ SemBalance
  BY CoreIff DEF IInv

(***************************************************************************)
(* The same in the next state.                                             *)
(***************************************************************************)
LEMMA InvIffNext == IInv' <=> TypeOK' /\ Core' /\ SemBalance'
  BY InvIff, PTL

-----------------------------------------------------------------------------
(***************************************************************************)
(* schedule(), called with the states s and with kmain runnable: the task  *)
(* it leaves on the processor is RUNNING and no other is, and a task that  *)
(* was blocked or dead still is.                                           *)
(***************************************************************************)
CanSchedule(s, r) == /\ s \in [Ids -> States]
                     /\ IsRing(r)
                     /\ Member(0, r)
                     /\ s[0] \in {"READY", "RUNNING"}
                     /\ s[r[1]] # "READY"
                     /\ \A t \in Ids : s[t] = "RUNNING" => t = r[1]

Scheduled(s, r, s2, r2) ==
    /\ s2 \in [Ids -> States]
    /\ IsRing(r2)
    /\ \A t \in Ids : Member(t, r2) <=> Member(t, r)
    /\ s2[r2[1]] = "RUNNING"
    /\ Runs(r2, s2)
    /\ \A t \in Ids : \A x \in {"NONE", "BLOCKED", "DEAD"} : s2[t] = x <=> s[t] = x

(***************************************************************************)
(* schedule(), called with a list and states that satisfy the shared part  *)
(* except that the current task may not be running, restores it.           *)
(***************************************************************************)
LEMMA ScheduleLemma ==
    ASSUME NEW s, NEW r, CanSchedule(s, r), Schedule(s, r)
    PROVE  Scheduled(s, r, st', ring')
<1> USE MaxTaskAssumption
<1>0. 0 \in Ids /\ \A i \in 1..Len(r) : r[i] \in Ids
  BY DEF Ids, CanSchedule, IsRing
<1>a. /\ Len(r) \in Nat /\ Len(r) >= 1 /\ r[1] \in Ids
      /\ \A i, j \in 1..Len(r) : r[i] = r[j] => i = j
  BY <1>0 DEF CanSchedule, IsRing
<1>1. CASE \E i \in 2..Len(r) : s[r[i]] = "READY"
  <2>1. PICK i \in 2..Len(r) : /\ FirstReady(s, r, i)
                               /\ ring' = Rotate(r, i)
                               /\ st' = SwitchTo(s, r, i)
    BY <1>1 DEF Schedule
  <2>2. s[r[i]] = "READY" /\ r[i] \in Ids /\ r[i] # r[1]
    BY <1>0, <1>a, <2>1 DEF FirstReady
  <2>3. \A t \in Ids : st'[t] = IF t = r[i] THEN "RUNNING"
                                ELSE IF t = r[1] THEN Preempted(s[t]) ELSE s[t]
    BY <2>1 DEF SwitchTo
  <2>4. st' \in [Ids -> States]
    BY <2>1 DEF SwitchTo, Preempted, CanSchedule, States
  <2>5. IsRing(ring') /\ ring'[1] = r[i] /\ \A t \in Ids : Member(t, ring') <=> Member(t, r)
    BY <2>1, RotateLemma DEF CanSchedule
  <2>6. Runs(ring', st')
    BY <1>0, <2>2, <2>3, <2>5 DEF Runs, CanSchedule, Preempted
  <2>7. \A t \in Ids : \A x \in {"NONE", "BLOCKED", "DEAD"} : st'[t] = x <=> s[t] = x
    BY <2>2, <2>3 DEF Preempted
  <2> QED
    BY <2>2, <2>3, <2>4, <2>5, <2>6, <2>7 DEF Scheduled
<1>2. CASE ~ \E i \in 2..Len(r) : s[r[i]] = "READY"
  <2>1. ring' = r /\ st' = s
    BY <1>2 DEF Schedule
  <2>2. PICK k \in 1..Len(r) : r[k] = 0
    BY DEF CanSchedule, Member
  <2>3. k = 1
    BY <1>0, <1>a, <1>2, <2>2 DEF CanSchedule
  <2>4. s[r[1]] = "RUNNING"
    BY <2>2, <2>3 DEF CanSchedule
  <2> QED
    BY <2>1, <2>4 DEF Scheduled, Runs, CanSchedule
<1> QED
  BY <1>1, <1>2

-----------------------------------------------------------------------------
(***************************************************************************)
(* How the operations on queues and slots change who is placed where.      *)
(***************************************************************************)
PlacesOK(w, sl) == /\ w \in [Queues -> Seq(Ids)]
                   /\ sl \in [Slots -> Ids \cup {NoTask}]
                   /\ OncePlaced(w, sl)

(***************************************************************************)
(* task_block puts the current task, which waits nowhere, at the end of a  *)
(* queue.                                                                  *)
(***************************************************************************)
LEMMA AppendLemma ==
    ASSUME NEW w, NEW sl, PlacesOK(w, sl), NEW q \in Queues,
           NEW x \in Ids, ~ Placed(x, w, sl)
    PROVE  LET w2 == [w EXCEPT ![q] = Append(@, x)]
           IN  /\ PlacesOK(w2, sl)
               /\ \A t \in Ids : Placed(t, w2, sl) <=> (t = x \/ Placed(t, w, sl))
<1> DEFINE w2 == [w EXCEPT ![q] = Append(@, x)]
<1>1. w[q] \in Seq(Ids) /\ Len(w[q]) \in Nat
  BY DEF PlacesOK
<1>2. w2 \in [Queues -> Seq(Ids)]
  BY <1>1 DEF PlacesOK
<1>3. \A p \in Queues : p # q => w2[p] = w[p]
  BY DEF PlacesOK
<1>4. /\ Len(w2[q]) = Len(w[q]) + 1
      /\ w2[q][Len(w[q]) + 1] = x
      /\ \A i \in 1..Len(w[q]) : w2[q][i] = w[q][i]
  BY <1>1 DEF PlacesOK
<1>5. \A p \in Queues : Len(w2[p]) \in Nat /\ Len(w[p]) \in Nat
  BY <1>2 DEF PlacesOK
<1> HIDE DEF w2
<1>6. \A p \in Queues : \A i \in 1..Len(w2[p]) :
         \/ i \in 1..Len(w[p]) /\ w2[p][i] = w[p][i]
         \/ p = q /\ i = Len(w[q]) + 1 /\ w2[p][i] = x
  BY <1>1, <1>3, <1>4, <1>5
<1>7. /\ \A p \in Queues : \A i \in 1..Len(w[p]) : w[p][i] # x
      /\ \A k \in Slots : sl[k] # x
  BY DEF Placed
<1>8. OncePlaced(w2, sl)
  <2>1. ASSUME NEW q1 \in Queues, NEW q2 \in Queues,
               NEW i1 \in 1..Len(w2[q1]), NEW i2 \in 1..Len(w2[q2]),
               w2[q1][i1] = w2[q2][i2]
        PROVE  q1 = q2 /\ i1 = i2
    <3>1. \A a, b \in Queues : \A i \in 1..Len(w[a]), j \in 1..Len(w[b]) :
             w[a][i] = w[b][j] => a = b /\ i = j
      BY DEF PlacesOK, OncePlaced
    <3>2. CASE i1 \in 1..Len(w[q1]) /\ w2[q1][i1] = w[q1][i1]
      <4>1. i2 \in 1..Len(w[q2]) /\ w2[q2][i2] = w[q2][i2]
        <5>1. w[q1][i1] # x
          BY <1>7, <3>2
        <5>2. \/ i2 \in 1..Len(w[q2]) /\ w2[q2][i2] = w[q2][i2]
              \/ q2 = q /\ i2 = Len(w[q]) + 1 /\ w2[q2][i2] = x
          BY <1>6
        <5> QED
          BY <2>1, <3>2, <5>1, <5>2
      <4>2. w[q1][i1] = w[q2][i2]
        BY <2>1, <3>2, <4>1
      <4>3. i1 \in 1..Len(w[q1]) /\ i2 \in 1..Len(w[q2])
        BY <3>2, <4>1
      <4> QED
        BY <3>1, <4>2, <4>3
    <3>3. CASE q1 = q /\ i1 = Len(w[q]) + 1 /\ w2[q1][i1] = x
      BY <1>6, <1>7, <2>1, <3>3
    <3> QED
      BY <1>6, <3>2, <3>3
  <2>2. ASSUME NEW p \in Queues, NEW i \in 1..Len(w2[p]), NEW k \in Slots
        PROVE  sl[k] # w2[p][i]
    BY <1>6, <1>7 DEF PlacesOK, OncePlaced
  <2> QED
    BY <2>1, <2>2 DEF PlacesOK, OncePlaced
<1>9. ASSUME NEW t \in Ids
      PROVE  Placed(t, w2, sl) <=> (t = x \/ Placed(t, w, sl))
  <2>1. Placed(t, w2, sl) => (t = x \/ Placed(t, w, sl))
    BY <1>6 DEF Placed
  <2>2. Placed(x, w2, sl)
    <3>1. Len(w[q]) + 1 \in 1..Len(w2[q])
      BY <1>1, <1>4
    <3> QED
      BY <1>4, <3>1 DEF Placed
  <2>3. \A p \in Queues : \A i \in 1..Len(w[p]) : i \in 1..Len(w2[p]) /\ w2[p][i] = w[p][i]
    BY <1>1, <1>3, <1>4, <1>5
  <2>4. Placed(t, w, sl) => Placed(t, w2, sl)
    BY <2>3 DEF Placed
  <2> QED
    BY <2>1, <2>2, <2>4
<1> QED
  BY <1>2, <1>8, <1>9 DEF PlacesOK, w2

(***************************************************************************)
(* wait_queue_wake_one takes the head off its queue: it waits nowhere else. *)
(***************************************************************************)
LEMMA TailLemma ==
    ASSUME NEW w, NEW sl, PlacesOK(w, sl), NEW q \in Queues, w[q] # << >>
    PROVE  LET w2 == [w EXCEPT ![q] = Tail(@)]
           IN  /\ PlacesOK(w2, sl)
               /\ \A t \in Ids : Placed(t, w2, sl) <=> (Placed(t, w, sl) /\ t # Head(w[q]))
<1> DEFINE w2 == [w EXCEPT ![q] = Tail(@)]
<1>1. w[q] \in Seq(Ids) /\ Len(w[q]) \in Nat /\ Len(w[q]) >= 1 /\ Head(w[q]) = w[q][1]
  BY DEF PlacesOK
<1>2. w2 \in [Queues -> Seq(Ids)]
  BY <1>1 DEF PlacesOK
<1>3. \A p \in Queues : p # q => w2[p] = w[p]
  BY DEF PlacesOK
<1>4. /\ Len(w2[q]) = Len(w[q]) - 1
      /\ \A i \in 1..(Len(w[q]) - 1) : w2[q][i] = w[q][i + 1]
  BY <1>1 DEF PlacesOK
<1>5. \A p \in Queues : Len(w2[p]) \in Nat /\ Len(w[p]) \in Nat
  BY <1>2 DEF PlacesOK
<1> HIDE DEF w2
<1>6. \A i \in 1..Len(w2[q]) : i + 1 \in 1..Len(w[q]) /\ w2[q][i] = w[q][i + 1]
  BY <1>1, <1>4, <1>5
<1>7. OncePlaced(w2, sl)
  <2>1. ASSUME NEW q1 \in Queues, NEW q2 \in Queues,
               NEW i1 \in 1..Len(w2[q1]), NEW i2 \in 1..Len(w2[q2]),
               w2[q1][i1] = w2[q2][i2]
        PROVE  q1 = q2 /\ i1 = i2
    <3>1. \A a, b \in Queues : \A i \in 1..Len(w[a]), j \in 1..Len(w[b]) :
             w[a][i] = w[b][j] => a = b /\ i = j
      BY DEF PlacesOK, OncePlaced
    <3>2. CASE q1 = q /\ q2 = q
      <4>1. /\ i1 + 1 \in 1..Len(w[q]) /\ i2 + 1 \in 1..Len(w[q])
            /\ w[q][i1 + 1] = w[q][i2 + 1]
        BY <1>6, <2>1, <3>2
      <4>2. i1 + 1 = i2 + 1
        BY <3>1, <4>1
      <4> QED
        BY <1>5, <3>2, <4>2
    <3>3. CASE q1 = q /\ q2 # q
      <4>1. i1 + 1 \in 1..Len(w[q]) /\ w2[q][i1] = w[q][i1 + 1]
        BY <1>6, <3>3
      <4>2. i2 \in 1..Len(w[q2]) /\ w[q2][i2] = w[q][i1 + 1]
        BY <1>3, <2>1, <3>3, <4>1
      <4> QED
        BY <3>1, <3>3, <4>1, <4>2
    <3>4. CASE q1 # q /\ q2 = q
      <4>1. i2 + 1 \in 1..Len(w[q]) /\ w2[q][i2] = w[q][i2 + 1]
        BY <1>6, <3>4
      <4>2. i1 \in 1..Len(w[q1]) /\ w[q1][i1] = w[q][i2 + 1]
        BY <1>3, <2>1, <3>4, <4>1
      <4> QED
        BY <3>1, <3>4, <4>1, <4>2
    <3>5. CASE q1 # q /\ q2 # q
      BY <1>3, <2>1, <3>1, <3>5
    <3> QED
      BY <3>2, <3>3, <3>4, <3>5
  <2>2. ASSUME NEW p \in Queues, NEW i \in 1..Len(w2[p]), NEW k \in Slots
        PROVE  sl[k] # w2[p][i]
    <3>1. CASE p = q
      <4>1. i + 1 \in 1..Len(w[q]) /\ w2[p][i] = w[q][i + 1]
        BY <1>6, <3>1
      <4>2. \A j \in 1..Len(w[q]) : sl[k] # w[q][j]
        BY DEF PlacesOK, OncePlaced
      <4> QED
        BY <4>1, <4>2
    <3>2. CASE p # q
      BY <1>3, <3>2 DEF PlacesOK, OncePlaced
    <3> QED
      BY <3>1, <3>2
  <2> QED
    BY <2>1, <2>2 DEF PlacesOK, OncePlaced
<1>8. ASSUME NEW t \in Ids
      PROVE  Placed(t, w2, sl) <=> (Placed(t, w, sl) /\ t # Head(w[q]))
  <2>1. 1 \in 1..Len(w[q])
    BY <1>1
  <2>2. ASSUME NEW p \in Queues, NEW i \in 1..Len(w2[p]), w2[p][i] = t
        PROVE  Placed(t, w, sl) /\ t # Head(w[q])
    <3>1. CASE p = q
      <4>1. i + 1 \in 1..Len(w[q]) /\ w[q][i + 1] = t /\ i + 1 # 1
        BY <1>5, <1>6, <2>2, <3>1
      <4> QED
        BY <1>1, <2>1, <4>1 DEF Placed, PlacesOK, OncePlaced
    <3>2. CASE p # q
      BY <1>1, <1>3, <2>1, <2>2, <3>2 DEF Placed, PlacesOK, OncePlaced
    <3> QED
      BY <3>1, <3>2
  <2>3. ASSUME NEW k \in Slots, sl[k] = t
        PROVE  t # Head(w[q])
    BY <1>1, <2>1, <2>3 DEF PlacesOK, OncePlaced
  <2>4. ASSUME NEW p \in Queues, NEW i \in 1..Len(w[p]), w[p][i] = t, t # Head(w[q])
        PROVE  Placed(t, w2, sl)
    <3>1. CASE p = q
      <4>1. i # 1
        BY <1>1, <2>4, <3>1
      <4>2. i - 1 \in 1..Len(w2[q]) /\ w2[q][i - 1] = t
        BY <1>1, <1>4, <2>4, <3>1, <4>1
      <4> QED
        BY <4>2 DEF Placed
    <3>2. CASE p # q
      BY <1>3, <2>4, <3>2 DEF Placed
    <3> QED
      BY <3>1, <3>2
  <2> QED
    BY <2>2, <2>3, <2>4 DEF Placed
<1> QED
  BY <1>2, <1>7, <1>8 DEF PlacesOK, w2

(***************************************************************************)
(* wait_queue_wake_all empties its queue.                                  *)
(***************************************************************************)
LEMMA ClearQueueLemma ==
    ASSUME NEW w, NEW sl, PlacesOK(w, sl), NEW q \in Queues
    PROVE  LET w2 == [w EXCEPT ![q] = << >>]
           IN  /\ PlacesOK(w2, sl)
               /\ \A t \in Ids : Placed(t, w2, sl) <=>
                      (Placed(t, w, sl) /\ \A i \in 1..Len(w[q]) : w[q][i] # t)
<1> DEFINE w2 == [w EXCEPT ![q] = << >>]
<1>1. w2 \in [Queues -> Seq(Ids)]
  BY DEF PlacesOK
<1>2. (\A p \in Queues : p # q => w2[p] = w[p]) /\ Len(w2[q]) = 0
  BY DEF PlacesOK
<1> HIDE DEF w2
<1>3. \A p \in Queues : \A i \in 1..Len(w2[p]) : p # q /\ w2[p] = w[p]
  BY <1>2
<1>4. OncePlaced(w2, sl)
  BY <1>3 DEF PlacesOK, OncePlaced
<1>5. ASSUME NEW t \in Ids
      PROVE  Placed(t, w2, sl) <=> (Placed(t, w, sl) /\ \A i \in 1..Len(w[q]) : w[q][i] # t)
  <2>1. ASSUME NEW p \in Queues, NEW i \in 1..Len(w2[p]), w2[p][i] = t
        PROVE  Placed(t, w, sl) /\ \A j \in 1..Len(w[q]) : w[q][j] # t
    BY <1>3, <2>1 DEF Placed, PlacesOK, OncePlaced
  <2>2. ASSUME NEW k \in Slots, sl[k] = t
        PROVE  \A j \in 1..Len(w[q]) : w[q][j] # t
    BY <2>2 DEF PlacesOK, OncePlaced
  <2>3. ASSUME NEW p \in Queues, NEW i \in 1..Len(w[p]), w[p][i] = t,
               \A j \in 1..Len(w[q]) : w[q][j] # t
        PROVE  Placed(t, w2, sl)
    BY <1>2, <2>3 DEF Placed
  <2> QED
    BY <2>1, <2>2, <2>3 DEF Placed
<1> QED
  BY <1>1, <1>4, <1>5 DEF PlacesOK, w2

(***************************************************************************)
(* task_sleep puts the current task, which waits nowhere, in a free slot.  *)
(***************************************************************************)
LEMMA SlotLemma ==
    ASSUME NEW w, NEW sl, PlacesOK(w, sl), NEW k \in Slots, sl[k] = NoTask,
           NEW x \in Ids, ~ Placed(x, w, sl)
    PROVE  LET sl2 == [sl EXCEPT ![k] = x]
           IN  /\ PlacesOK(w, sl2)
               /\ \A t \in Ids : Placed(t, w, sl2) <=> (t = x \/ Placed(t, w, sl))
<1> DEFINE sl2 == [sl EXCEPT ![k] = x]
<1>1. /\ sl2 \in [Slots -> Ids \cup {NoTask}]
      /\ sl2[k] = x
      /\ \A l \in Slots : l # k => sl2[l] = sl[l]
  BY DEF PlacesOK
<1>2. NoTask \notin Ids
  BY DEF NoTask, Ids
<1>3. /\ \A q \in Queues : \A i \in 1..Len(w[q]) : w[q][i] # x
      /\ \A l \in Slots : sl[l] # x
  BY DEF Placed
<1> HIDE DEF sl2
<1>4. OncePlaced(w, sl2)
  BY <1>1, <1>3 DEF PlacesOK, OncePlaced
<1>5. ASSUME NEW t \in Ids
      PROVE  Placed(t, w, sl2) <=> (t = x \/ Placed(t, w, sl))
  BY <1>1, <1>2 DEF Placed
<1> QED
  BY <1>1, <1>4, <1>5 DEF PlacesOK, sl2

(***************************************************************************)
(* scheduler_tick empties the slots that have expired.                     *)
(***************************************************************************)
LEMMA FreeSlotsLemma ==
    ASSUME NEW w, NEW sl, PlacesOK(w, sl), NEW F,
           NEW sl2, sl2 = [k \in Slots |-> IF k \in F THEN NoTask ELSE sl[k]]
    PROVE  /\ PlacesOK(w, sl2)
           /\ \A t \in Ids : Placed(t, w, sl2) <=>
                  (Placed(t, w, sl) /\ \A k \in Slots : k \in F => sl[k] # t)
<1>1. /\ sl2 \in [Slots -> Ids \cup {NoTask}]
      /\ \A k \in Slots : sl2[k] = IF k \in F THEN NoTask ELSE sl[k]
  BY DEF PlacesOK
<1>2. NoTask \notin Ids
  BY DEF NoTask, Ids
<1>3. \A q \in Queues : \A i \in 1..Len(w[q]) : w[q][i] \in Ids
  BY DEF PlacesOK
<1>4. OncePlaced(w, sl2)
  BY <1>1, <1>2, <1>3 DEF PlacesOK, OncePlaced
<1>5. ASSUME NEW t \in Ids
      PROVE  Placed(t, w, sl2) <=>
                (Placed(t, w, sl) /\ \A k \in Slots : k \in F => sl[k] # t)
  <2>1. ASSUME NEW k \in Slots, sl2[k] = t
        PROVE  Placed(t, w, sl) /\ \A l \in Slots : l \in F => sl[l] # t
    BY <1>1, <1>2, <2>1 DEF Placed, PlacesOK, OncePlaced
  <2>2. ASSUME NEW q \in Queues, NEW i \in 1..Len(w[q]), w[q][i] = t
        PROVE  Placed(t, w, sl) /\ Placed(t, w, sl2) /\ \A l \in Slots : sl[l] # t
    BY <2>2 DEF Placed, PlacesOK, OncePlaced
  <2>3. ASSUME NEW k \in Slots, sl[k] = t, \A l \in Slots : l \in F => sl[l] # t
        PROVE  Placed(t, w, sl2)
    BY <1>1, <2>3 DEF Placed
  <2> QED
    BY <2>1, <2>2, <2>3 DEF Placed
<1> QED
  BY <1>1, <1>4, <1>5 DEF PlacesOK

-----------------------------------------------------------------------------
(***************************************************************************)
(* A handler that ends in schedule() keeps the invariant if the values it  *)
(* calls schedule() with place exactly the blocked tasks.                  *)
(***************************************************************************)
RingType == ring \in Seq(Ids) /\ Len(ring) >= 1 /\ st \in [Ids -> States]

(***************************************************************************)
(* The switch of a handler that has changed only states before it called   *)
(* schedule().                                                             *)
(***************************************************************************)
LEMMA SwitchLemma ==
    ASSUME NEW s, CanSchedule(s, ring), Schedule(s, ring),
           Listed(ring, s, next_id), next_id' = next_id,
           OncePlaced(wq', sleeper'),
           \A t \in Ids : Placed(t, wq', sleeper') => s[t] \in {"BLOCKED", "DEAD"},
           \A t \in Ids : s[t] = "BLOCKED" => Placed(t, wq', sleeper')
    PROVE  Core' /\ RingType'
<1>1. Scheduled(s, ring, st', ring')
  BY ScheduleLemma
<1>2. Listed(ring', st', next_id')
  BY <1>1 DEF Scheduled, Listed
<1>3. Runs(ring', st')
  BY <1>1 DEF Scheduled
<1>4. \A t \in Ids : Placed(t, wq', sleeper') =>
         t # ring'[1] /\ st'[t] \in {"BLOCKED", "DEAD"}
  BY <1>1 DEF Scheduled
<1>5. \A t \in Ids : st'[t] = "BLOCKED" => Placed(t, wq', sleeper')
  BY <1>1 DEF Scheduled
<1>6. Waits(ring', st', wq', sleeper')
  BY <1>4, <1>5 DEF Waits
<1>7. RingType'
  BY <1>1 DEF RingType, Scheduled, IsRing
<1> QED
  BY <1>2, <1>3, <1>6, <1>7 DEF Core

(***************************************************************************)
(* What the invariant says of the current task and of kmain.               *)
(***************************************************************************)
LEMMA Facts ==
    ASSUME TypeOK, Core
    PROVE  /\ PlacesOK(wq, sleeper)
           /\ IsRing(ring) /\ current \in Ids /\ 0 \in Ids
           /\ st \in [Ids -> States]
           /\ Member(0, ring) /\ Member(current, ring)
           /\ ~ Placed(current, wq, sleeper)
           /\ st[current] # "READY" /\ st[current] # "NONE"
  BY MaxTaskAssumption DEF Core, PlacesOK, TypeOK, Waits, Listed, Runs, IsRing, Member,
                           current, Ids

(***************************************************************************)
(* The current task, not kmain, blocks in one new place.                   *)
(***************************************************************************)
LEMMA BlockLemma ==
    ASSUME TypeOK, Core, current # 0,
           Schedule([st EXCEPT ![current] = "BLOCKED"], ring), next_id' = next_id,
           PlacesOK(wq', sleeper'),
           \A t \in Ids : Placed(t, wq', sleeper') <=> (t = current \/ Placed(t, wq, sleeper))
    PROVE  Core' /\ RingType'
<1> DEFINE s == [st EXCEPT ![current] = "BLOCKED"]
<1>1. /\ s \in [Ids -> States]
      /\ s[current] = "BLOCKED"
      /\ \A t \in Ids : t # current => s[t] = st[t]
  BY Facts DEF States
<1> HIDE DEF s
<1>2. CanSchedule(s, ring)
  BY <1>1, Facts DEF CanSchedule, Core, Runs, current
<1>3. Listed(ring, s, next_id)
  BY <1>1, Facts DEF Core, Listed
<1>4. \A t \in Ids : Placed(t, wq', sleeper') => s[t] \in {"BLOCKED", "DEAD"}
  BY <1>1 DEF Core, Waits
<1>5. \A t \in Ids : s[t] = "BLOCKED" => Placed(t, wq', sleeper')
  BY <1>1 DEF Core, Waits
<1>6. Schedule(s, ring)
  BY DEF s
<1> QED
  BY <1>2, <1>3, <1>4, <1>5, <1>6, SwitchLemma DEF PlacesOK

(***************************************************************************)
(* task_block keeps the shared part.                                       *)
(***************************************************************************)
LEMMA TaskBlockLemma ==
    ASSUME TypeOK, Core, current # 0, NEW q \in Queues, TaskBlock(q),
           next_id' = next_id, sleeper' = sleeper
    PROVE  /\ Core' /\ RingType' /\ wq' \in [Queues -> Seq(Ids)]
           /\ Len(wq'[q]) = Len(wq[q]) + 1
           /\ \A p \in Queues : p # q => wq'[p] = wq[p]
<1>1. wq' = [wq EXCEPT ![q] = Append(@, current)]
  BY DEF TaskBlock
<1>2. /\ PlacesOK(wq', sleeper')
      /\ \A t \in Ids : Placed(t, wq', sleeper') <=> (t = current \/ Placed(t, wq, sleeper))
  BY <1>1, Facts, AppendLemma
<1>3. Core' /\ RingType'
  BY <1>2, BlockLemma DEF TaskBlock
<1>4. wq \in [Queues -> Seq(Ids)] /\ current \in Ids
  BY Facts DEF TypeOK
<1>5. Len(wq'[q]) = Len(wq[q]) + 1 /\ \A p \in Queues : p # q => wq'[p] = wq[p]
  BY <1>1, <1>4
<1> QED
  BY <1>2, <1>3, <1>5 DEF PlacesOK

(***************************************************************************)
(* task_sleep takes the current task to a free slot, or does nothing.      *)
(***************************************************************************)
LEMMA SleepTicksType ==
    ASSUME NEW ms \in Nat
    PROVE  SleepTicks(ms) \in Nat
<1> DEFINE m == (ms + 9) % WORD
<1>1. m \in Nat
  BY WordAssumption
<1> HIDE DEF m
<1>2. (m \div 10) \in Nat
  BY <1>1
<1> QED
  BY <1>2 DEF SleepTicks, m

(***************************************************************************)
(* task_sleep keeps the invariant, with a free slot or without.            *)
(***************************************************************************)
LEMMA TaskSleepLemma ==
    ASSUME TypeOK, Core, current # 0, NEW ms \in Nat, TaskSleep(ms),
           next_id' = next_id, wq' = wq
    PROVE  /\ Core' /\ RingType'
           /\ sleeper' \in [Slots -> Ids \cup {NoTask}] /\ left' \in [Slots -> Nat]
<1>1. CASE \A i \in Slots : sleeper[i] # NoTask
  <2>1. ring' = ring /\ st' = st /\ sleeper' = sleeper /\ left' = left
    BY <1>1 DEF TaskSleep, ringVars, sleepVars
  <2> QED
    BY <2>1 DEF Core, RingType, TypeOK
<1>2. CASE ~ \A i \in Slots : sleeper[i] # NoTask
  <2>1. PICK i \in Slots :
           /\ FreeSlot(i)
           /\ sleeper' = [sleeper EXCEPT ![i] = current]
           /\ left' = [left EXCEPT ![i] = SleepTicks(ms)]
           /\ Schedule([st EXCEPT ![current] = "BLOCKED"], ring)
    BY <1>2 DEF TaskSleep
  <2>2. /\ PlacesOK(wq', sleeper')
        /\ \A t \in Ids : Placed(t, wq', sleeper') <=> (t = current \/ Placed(t, wq, sleeper))
    BY <2>1, Facts, SlotLemma DEF FreeSlot
  <2>3. Core' /\ RingType'
    BY <2>1, <2>2, BlockLemma
  <2>4. left' \in [Slots -> Nat]
    BY <2>1, SleepTicksType DEF TypeOK
  <2> QED
    BY <2>2, <2>3, <2>4 DEF PlacesOK
<1> QED
  BY <1>1, <1>2

-----------------------------------------------------------------------------
(***************************************************************************)
(* The handlers.                                                           *)
(***************************************************************************)
LEMMA InitLemma == Init => IInv
<1> SUFFICES ASSUME Init
             PROVE  IInv
  OBVIOUS
<1> USE MaxTaskAssumption, TimesliceAssumption, SleepersAssumption, SemAssumption
<1>1. TypeOK
  <2>1. ring \in Seq(Ids) /\ Len(ring) >= 1
    BY DEF Init, Ids
  <2>2. st \in [Ids -> States]
    BY DEF Init, States
  <2>3. next_id \in 2..(MaxTask + 1) /\ tick_in_slice \in 0..(TIMESLICE - 1) /\ 1 \in Ids
    BY DEF Init, Ids
  <2>4. count \in [Sems -> Int]
    BY DEF Init
  <2>5. wq \in [Queues -> Seq(Ids)]
    BY DEF Init
  <2> QED
    BY <2>1, <2>2, <2>3, <2>4, <2>5 DEF TypeOK, Init
<1>2. RingOK
  <2>1. /\ ring[1] = 0 /\ ring[2] = 1 /\ Len(ring) = 2 /\ next_id = 2
        /\ \A t \in Ids : st[t] = IF t = 0 THEN "RUNNING" ELSE IF t = 1 THEN "READY" ELSE "NONE"
    BY DEF Init
  <2> QED
    BY <2>1 DEF RingOK, Ids
<1>3. OneRunning
  BY DEF Init, OneRunning, current, Ids
<1>4. WaitsInOnePlace
  BY DEF Init, WaitsInOnePlace, QueuedOnce, QueuedOff, AsleepOff
<1>5. BlockedIsFindable
  BY DEF Init, BlockedIsFindable
<1>6. SemBalance
  BY DEF Init, SemBalance, Queues
<1> QED
  BY <1>1, <1>2, <1>3, <1>4, <1>5, <1>6 DEF IInv

(***************************************************************************)
(* The timer interrupt keeps the invariant.                                *)
(***************************************************************************)
LEMMA TickLemma == IInv /\ Tick => IInv'
<1> SUFFICES ASSUME TypeOK, Core, SemBalance, Tick
             PROVE  TypeOK' /\ Core' /\ SemBalance'
  BY InvIff, InvIffNext
<1> USE TimesliceAssumption
<1>0. /\ next_id' = next_id /\ wq' = wq /\ count' = count
      /\ sleeper' = [i \in Slots |-> IF Expired(i) THEN NoTask ELSE sleeper[i]]
  BY DEF Tick, taskVars
<1> DEFINE F == {i \in Slots : Expired(i)}
           s == WakeSleepers
<1>1. /\ PlacesOK(wq', sleeper')
      /\ \A t \in Ids : Placed(t, wq', sleeper') <=>
             (Placed(t, wq, sleeper) /\ \A k \in Slots : k \in F => sleeper[k] # t)
  <2>1. sleeper' = [k \in Slots |-> IF k \in F THEN NoTask ELSE sleeper[k]]
    BY <1>0
  <2> HIDE DEF F
  <2> QED
    BY <1>0, <2>1, Facts, FreeSlotsLemma
<1>2. \A t \in Ids : s[t] = IF \E k \in F : sleeper[k] = t THEN Woken(st[t]) ELSE st[t]
  BY DEF WakeSleepers
<1>3. s \in [Ids -> States]
  BY Facts DEF WakeSleepers, Woken, States
<1>4. \A t \in Ids : (\E k \in F : sleeper[k] = t) => Placed(t, wq, sleeper)
  BY DEF Placed
<1> HIDE DEF s
<1>5. \A t \in Ids : /\ s[t] = st[t] \/ (st[t] = "BLOCKED" /\ s[t] = "READY")
                     /\ s[t] = "BLOCKED" => st[t] = "BLOCKED" /\ \A k \in F : sleeper[k] # t
                     /\ ~ Placed(t, wq, sleeper) => s[t] = st[t]
  BY <1>2, <1>4 DEF Woken
<1>6. CanSchedule(s, ring)
  BY <1>3, <1>5, Facts DEF CanSchedule, Core, Runs, current
<1>7. Listed(ring, s, next_id)
  BY <1>5 DEF Core, Listed
<1>8. \A t \in Ids : Placed(t, wq', sleeper') => s[t] \in {"BLOCKED", "DEAD"}
  BY <1>1, <1>2 DEF Core, Waits, F
<1>9. \A t \in Ids : s[t] = "BLOCKED" => Placed(t, wq', sleeper')
  BY <1>1, <1>5 DEF Core, Waits
<1>10. Core' /\ RingType'
  <2>1. CASE tick_in_slice + 1 >= TIMESLICE
    <3>1. Schedule(s, ring)
      BY <2>1 DEF Tick, s
    <3> QED
      BY <1>0, <1>1, <1>6, <1>7, <1>8, <1>9, <3>1, SwitchLemma DEF PlacesOK
  <2>2. CASE ~ (tick_in_slice + 1 >= TIMESLICE)
    <3>1. ring' = ring /\ st' = s
      BY <2>2 DEF Tick, s
    <3>2. Runs(ring', st')
      BY <1>5, <3>1, Facts DEF Core, Runs, current
    <3>3. \A t \in Ids : Placed(t, wq', sleeper') => t # ring'[1]
      BY <1>1, <3>1 DEF Core, Waits
    <3>4. Waits(ring', st', wq', sleeper')
      BY <1>1, <1>8, <1>9, <3>1, <3>3 DEF Waits, PlacesOK
    <3>5. Listed(ring', st', next_id')
      BY <1>0, <1>7, <3>1
    <3>6. RingType'
      BY <1>3, <3>1 DEF RingType, TypeOK
    <3> QED
      BY <3>2, <3>4, <3>5, <3>6 DEF Core
  <2> QED
    BY <2>1, <2>2
<1>11. TypeOK'
  <2>1. left' \in [Slots -> Nat]
    BY DEF Tick, TypeOK, Countdown
  <2>2. tick_in_slice' \in 0..(TIMESLICE - 1)
    BY DEF Tick, TypeOK
  <2>3. sleeper' \in [Slots -> Ids \cup {NoTask}]
    BY <1>1 DEF PlacesOK
  <2> QED
    BY <1>10, <2>1, <2>2, <2>3 DEF TypeOK, RingType, Tick, taskVars, fgVars
<1>12. SemBalance'
  BY <1>0 DEF SemBalance
<1> QED
  BY <1>10, <1>11, <1>12

(***************************************************************************)
(* SYS_SLEEP and SYS_READ keep the invariant.                              *)
(***************************************************************************)
LEMMA SleepLemma ==
    ASSUME IInv, NEW ms \in Nat, InSyscall, TaskSleep(ms),
           UNCHANGED <<taskVars, tick_in_slice, wq, count, fgVars, halted>>
    PROVE  IInv'
<1>1. TypeOK /\ Core /\ SemBalance
  BY InvIff
<1>2. /\ Core' /\ RingType'
      /\ sleeper' \in [Slots -> Ids \cup {NoTask}] /\ left' \in [Slots -> Nat]
  BY <1>1, TaskSleepLemma DEF InSyscall, taskVars
<1>3. TypeOK'
  BY <1>1, <1>2 DEF TypeOK, RingType, taskVars, fgVars
<1>4. SemBalance'
  BY <1>1 DEF SemBalance
<1> QED
  BY <1>2, <1>3, <1>4, InvIffNext

(***************************************************************************)
(* sem_wait keeps the invariant: the count falls below zero exactly when   *)
(* the queue grows.                                                        *)
(***************************************************************************)
LEMMA SemWaitLemma ==
    ASSUME IInv, NEW id \in Sems, SysSemWait(id)
    PROVE  IInv'
<1>1. TypeOK /\ Core /\ SemBalance
  BY InvIff
<1>2. /\ next_id' = next_id /\ sleeper' = sleeper /\ left' = left /\ current # 0
      /\ count' = [count EXCEPT ![id] = @ - 1]
      /\ id \in Queues /\ \A p \in Sems : p \in Queues
  BY DEF SysSemWait, taskVars, sleepVars, InSyscall, Queues
<1>3. count \in [Sems -> Int] /\ wq \in [Queues -> Seq(Ids)]
  BY <1>1 DEF TypeOK
<1>4. count' \in [Sems -> Int]
  BY <1>2, <1>3
<1>5. CASE count[id] - 1 < 0
  <2>1. TaskBlock(id)
    BY <1>5 DEF SysSemWait, SemBlocks
  <2>2. /\ Core' /\ RingType' /\ wq' \in [Queues -> Seq(Ids)]
        /\ Len(wq'[id]) = Len(wq[id]) + 1
        /\ \A p \in Queues : p # id => wq'[p] = wq[p]
    BY <1>1, <1>2, <2>1, TaskBlockLemma
  <2>3. SemBalance'
    <3> SUFFICES ASSUME NEW p \in Sems
                 PROVE  Len(wq'[p]) = IF count'[p] < 0 THEN -count'[p] ELSE 0
      BY DEF SemBalance
    <3>1. Len(wq[p]) = IF count[p] < 0 THEN -count[p] ELSE 0
      BY <1>1 DEF SemBalance
    <3>2. count[p] \in Int /\ count'[p] = IF p = id THEN count[p] - 1 ELSE count[p]
      BY <1>2, <1>3
    <3> QED
      BY <1>2, <1>5, <2>2, <3>1, <3>2
  <2> QED
    BY <1>1, <1>2, <1>4, <2>2, <2>3, InvIffNext
       DEF TypeOK, RingType, SysSemWait, taskVars, fgVars
<1>6. CASE ~ (count[id] - 1 < 0)
  <2>1. ring' = ring /\ st' = st /\ wq' = wq
    BY <1>6 DEF SysSemWait, SemBlocks, ringVars
  <2>2. Core'
    BY <1>1, <1>2, <2>1 DEF Core
  <2>3. SemBalance'
    <3> SUFFICES ASSUME NEW p \in Sems
                 PROVE  Len(wq'[p]) = IF count'[p] < 0 THEN -count'[p] ELSE 0
      BY DEF SemBalance
    <3>1. Len(wq[p]) = IF count[p] < 0 THEN -count[p] ELSE 0
      BY <1>1 DEF SemBalance
    <3>2. count[p] \in Int /\ count'[p] = IF p = id THEN count[p] - 1 ELSE count[p]
      BY <1>2, <1>3
    <3> QED
      BY <1>6, <2>1, <3>1, <3>2
  <2> QED
    BY <1>1, <1>2, <1>4, <2>1, <2>2, <2>3, InvIffNext
       DEF TypeOK, SysSemWait, taskVars, fgVars
<1> QED
  BY <1>5, <1>6

(***************************************************************************)
(* sem_post keeps the invariant: the count rises from below zero exactly   *)
(* when the queue shrinks.                                                 *)
(***************************************************************************)
LEMMA SemPostLemma ==
    ASSUME IInv, NEW id \in Sems, SysSemPost(id)
    PROVE  IInv'
<1>1. TypeOK /\ Core /\ SemBalance
  BY InvIff
<1>2. /\ ring' = ring /\ next_id' = next_id /\ sleeper' = sleeper /\ left' = left
      /\ count' = [count EXCEPT ![id] = @ + 1]
      /\ id \in Queues /\ \A p \in Sems : p \in Queues
  BY DEF SysSemPost, taskVars, sleepVars, Queues
<1>3. count \in [Sems -> Int] /\ wq \in [Queues -> Seq(Ids)]
  BY <1>1 DEF TypeOK
<1>4. /\ count' \in [Sems -> Int]
      /\ \A p \in Sems : /\ count[p] \in Int
                         /\ count'[p] = IF p = id THEN count[p] + 1 ELSE count[p]
  BY <1>2, <1>3
<1>5. \A p \in Sems : Len(wq[p]) = IF count[p] < 0 THEN -count[p] ELSE 0
  BY <1>1 DEF SemBalance
<1>6. CASE count[id] + 1 <= 0
  <2>1. wq[id] # << >>
    BY <1>3, <1>4, <1>5, <1>6, <1>2
  <2>2. /\ wq' = [wq EXCEPT ![id] = Tail(@)]
        /\ st' = [st EXCEPT ![Head(wq[id])] = Woken(@)]
    BY <1>6, <2>1 DEF SysSemPost, SemWakes, WakeOne
  <2> DEFINE h == Head(wq[id])
  <2>3. h \in Ids /\ h = wq[id][1] /\ 1 \in 1..Len(wq[id])
    BY <1>2, <1>3, <2>1
  <2>4. Placed(h, wq, sleeper)
    BY <1>2, <2>3 DEF Placed
  <2>5. /\ PlacesOK(wq', sleeper')
        /\ \A t \in Ids : Placed(t, wq', sleeper') <=> (Placed(t, wq, sleeper) /\ t # h)
    BY <1>1, <1>2, <2>1, <2>2, Facts, TailLemma
  <2>6. st' \in [Ids -> States] /\ \A t \in Ids : st'[t] = IF t = h THEN Woken(st[t]) ELSE st[t]
    BY <1>1, <2>2, <2>3, Facts DEF Woken, States
  <2> HIDE DEF h
  <2>7. h # current /\ st[h] \in {"BLOCKED", "DEAD"} /\ st'[h] \in {"READY", "DEAD"}
    BY <1>1, <2>3, <2>4, <2>6 DEF Core, Waits, current, Woken
  <2>8. Listed(ring', st', next_id')
    BY <1>1, <1>2, <2>6, <2>7 DEF Core, Listed
  <2>9. Runs(ring', st')
    BY <1>1, <1>2, <2>6, <2>7, Facts DEF Core, Runs, current
  <2>10. Waits(ring', st', wq', sleeper')
    BY <1>1, <1>2, <2>5, <2>6, <2>7 DEF Core, Waits, PlacesOK
  <2>11. SemBalance'
    <3>1. /\ Len(wq'[id]) = Len(wq[id]) - 1
          /\ \A p \in Sems : p # id => wq'[p] = wq[p]
      BY <1>2, <1>3, <2>1, <2>2
    <3> SUFFICES ASSUME NEW p \in Sems
                 PROVE  Len(wq'[p]) = IF count'[p] < 0 THEN -count'[p] ELSE 0
      BY DEF SemBalance
    <3> QED
      BY <1>4, <1>5, <1>6, <3>1
  <2>12. TypeOK'
    BY <1>1, <1>2, <1>4, <2>5, <2>6 DEF TypeOK, PlacesOK, SysSemPost, taskVars, fgVars
  <2> QED
    BY <2>8, <2>9, <2>10, <2>11, <2>12, InvIffNext DEF Core
<1>7. CASE ~ (count[id] + 1 <= 0)
  <2>1. wq' = wq /\ st' = st
    BY <1>7 DEF SysSemPost, SemWakes
  <2>2. Core'
    BY <1>1, <1>2, <2>1 DEF Core
  <2>3. SemBalance'
    <3> SUFFICES ASSUME NEW p \in Sems
                 PROVE  Len(wq'[p]) = IF count'[p] < 0 THEN -count'[p] ELSE 0
      BY DEF SemBalance
    <3> QED
      BY <1>4, <1>5, <1>7, <2>1
  <2>4. TypeOK'
    BY <1>1, <1>2, <1>4, <2>1 DEF TypeOK, SysSemPost, taskVars, fgVars
  <2> QED
    BY <2>2, <2>3, <2>4, InvIffNext
<1> QED
  BY <1>6, <1>7

(***************************************************************************)
(* task_create and task_fork keep the invariant.                           *)
(***************************************************************************)
LEMMA NewTaskLemma ==
    ASSUME IInv, NEW p \in Ids \cup {NoTask}, NewTask(p), spawn_used' \in BOOLEAN,
           UNCHANGED <<tick_in_slice, sleepVars, wq, count, fgVars, halted>>
    PROVE  IInv'
<1>1. TypeOK /\ Core /\ SemBalance
  BY InvIff
<1> DEFINE x == next_id
<1>2. /\ x \in Ids /\ x # 0 /\ next_id' = x + 1 /\ next_id' \in 2..(MaxTask + 1)
      /\ st' = [st EXCEPT ![x] = "READY"]
      /\ parent' = [parent EXCEPT ![x] = p]
      /\ ring' = InsertAfterCurrent(ring, x)
      /\ wq' = wq /\ sleeper' = sleeper /\ left' = left /\ count' = count
  BY <1>1, MaxTaskAssumption DEF NewTask, TypeOK, Ids, sleepVars
<1>3. ~ Member(x, ring) /\ st[x] = "NONE"
  BY <1>1, <1>2 DEF Core, Listed, TypeOK
<1>4. /\ IsRing(ring') /\ ring'[1] = current
      /\ \A t \in Ids : Member(t, ring') <=> (t = x \/ Member(t, ring))
  BY <1>1, <1>2, <1>3, Facts, InsertLemma DEF current
<1>5. st' \in [Ids -> States] /\ \A t \in Ids : st'[t] = IF t = x THEN "READY" ELSE st[t]
  BY <1>1, <1>2, Facts DEF States
<1> HIDE DEF x
<1>6. x # current
  BY <1>1, <1>3, Facts
<1>7. Listed(ring', st', next_id')
  <2>1. \A t \in Ids : t < next_id' <=> (t = x \/ t < next_id)
    BY <1>2, <1>1 DEF x, Ids, TypeOK
  <2>2. \A t \in Ids : Member(t, ring') <=> t < next_id'
    BY <1>1, <1>4, <2>1 DEF Core, Listed
  <2>3. \A t \in Ids : t >= next_id' <=> ~ (t < next_id')
    BY <1>2, <1>1 DEF Ids
  <2>4. \A t \in Ids : t >= next_id <=> ~ (t < next_id)
    BY <1>1 DEF Ids, TypeOK
  <2>5. \A t \in Ids : st'[t] = "NONE" <=> t >= next_id'
    BY <1>1, <1>5, <2>1, <2>3, <2>4 DEF Core, Listed
  <2> QED
    BY <1>4, <2>2, <2>5 DEF Listed
<1>8. Runs(ring', st')
  BY <1>1, <1>2, <1>4, <1>5, <1>6, Facts DEF Core, Runs, current
<1>9. Waits(ring', st', wq', sleeper')
  BY <1>1, <1>2, <1>3, <1>4, <1>5 DEF Core, Waits, current
<1>10. TypeOK'
  <2>1. parent' \in [Ids -> Ids \cup {NoTask}]
    BY <1>1, <1>2 DEF TypeOK
  <2> QED
    BY <1>1, <1>2, <1>4, <1>5, <2>1 DEF TypeOK, IsRing, fgVars
<1>11. SemBalance'
  BY <1>1, <1>2 DEF SemBalance
<1> QED
  BY <1>7, <1>8, <1>9, <1>10, <1>11, InvIffNext DEF Core

(***************************************************************************)
(* SYS_WAIT keeps the invariant.                                           *)
(***************************************************************************)
LEMMA WaitLemma == IInv /\ SysWait => IInv'
<1> SUFFICES ASSUME IInv, SysWait
             PROVE  IInv'
  OBVIOUS
<1>1. TypeOK /\ Core /\ SemBalance
  BY InvIff
<1>2. /\ next_id' = next_id /\ sleeper' = sleeper /\ count' = count /\ current # 0
      /\ ChildExit \in Queues /\ \A p \in Sems : p \in Queues /\ p # ChildExit
  BY SemAssumption DEF SysWait, taskVars, sleepVars, InSyscall, Queues, ChildExit, Sems
<1>3. /\ Core' /\ RingType' /\ wq' \in [Queues -> Seq(Ids)]
      /\ \A p \in Queues : p # ChildExit => wq'[p] = wq[p]
  BY <1>1, <1>2, TaskBlockLemma DEF SysWait
<1>4. SemBalance'
  BY <1>1, <1>2, <1>3 DEF SemBalance
<1>5. TypeOK'
  BY <1>1, <1>3 DEF TypeOK, RingType, SysWait, taskVars, fgVars, sleepVars
<1> QED
  BY <1>3, <1>4, <1>5, InvIffNext

(***************************************************************************)
(* SYS_EXIT keeps the invariant.                                           *)
(***************************************************************************)
LEMMA ExitLemma == IInv /\ SysExit => IInv'
<1> SUFFICES ASSUME IInv, SysExit
             PROVE  IInv'
  OBVIOUS
<1>1. TypeOK /\ Core /\ SemBalance
  BY InvIff
<1>2. /\ next_id' = next_id /\ sleeper' = sleeper /\ left' = left /\ count' = count
      /\ current # 0
      /\ wq' = [wq EXCEPT ![ChildExit] = << >>]
      /\ ChildExit \in Queues /\ \A p \in Sems : p \in Queues /\ p # ChildExit
  BY SemAssumption DEF SysExit, taskVars, sleepVars, InSyscall, Queues, ChildExit, Sems
<1> DEFINE W == {t \in Ids : \E i \in 1..Len(wq[ChildExit]) : wq[ChildExit][i] = t}
           v == WakeAll(ChildExit)
<1>3. /\ PlacesOK(wq', sleeper')
      /\ \A t \in Ids : Placed(t, wq', sleeper') <=> (Placed(t, wq, sleeper) /\ t \notin W)
  BY <1>1, <1>2, Facts, ClearQueueLemma
<1>4. \A t \in W : Placed(t, wq, sleeper)
  BY <1>2 DEF Placed
<1>5. /\ v \in [Ids -> States]
      /\ \A t \in Ids : v[t] = IF t \in W THEN Woken(st[t]) ELSE st[t]
  BY <1>1, Facts DEF WakeAll, Waiting, Woken, States
<1> HIDE DEF W, v
<1>6. \A t \in Ids : /\ v[t] = st[t] \/ (st[t] = "BLOCKED" /\ v[t] = "READY")
                     /\ v[t] = "BLOCKED" => st[t] = "BLOCKED" /\ t \notin W
                     /\ ~ Placed(t, wq, sleeper) => v[t] = st[t]
  BY <1>4, <1>5 DEF Woken
<1>7. \A t \in Ids : Placed(t, wq', sleeper') => v[t] = st[t] /\ v[t] \in {"BLOCKED", "DEAD"}
  BY <1>1, <1>3, <1>5 DEF Core, Waits
<1>8. \A t \in Ids : v[t] = "BLOCKED" => Placed(t, wq', sleeper')
  BY <1>1, <1>3, <1>6 DEF Core, Waits
<1>9. Core' /\ RingType'
  <2>1. CASE current = 1
    <3>1. ring' = ring /\ st' = v
      BY <2>1 DEF SysExit, v
    <3>2. Listed(ring', st', next_id')
      BY <1>1, <1>2, <1>6, <3>1 DEF Core, Listed
    <3>3. Runs(ring', st')
      BY <1>1, <1>6, <3>1, Facts DEF Core, Runs, current
    <3>4. Waits(ring', st', wq', sleeper')
      BY <1>1, <1>3, <1>7, <1>8, <3>1 DEF Core, Waits, PlacesOK
    <3>5. RingType'
      BY <1>1, <1>5, <3>1 DEF RingType, TypeOK
    <3> QED
      BY <3>2, <3>3, <3>4, <3>5 DEF Core
  <2>2. CASE current # 1
    <3> DEFINE s == [v EXCEPT ![current] = "DEAD"]
    <3>1. Schedule(s, ring)
      BY <2>2 DEF SysExit, v
    <3>2. /\ s \in [Ids -> States]
          /\ s[current] = "DEAD"
          /\ \A t \in Ids : t # current => s[t] = v[t]
      BY <1>1, <1>5, Facts DEF States
    <3> HIDE DEF s
    <3>3. CanSchedule(s, ring)
      BY <1>1, <1>2, <1>6, <3>2, Facts DEF CanSchedule, Core, Runs, current
    <3>4. Listed(ring, s, next_id)
      BY <1>1, <1>6, <3>2, Facts DEF Core, Listed
    <3>5. \A t \in Ids : Placed(t, wq', sleeper') => s[t] \in {"BLOCKED", "DEAD"}
      BY <1>7, <3>2
    <3>6. \A t \in Ids : s[t] = "BLOCKED" => Placed(t, wq', sleeper')
      BY <1>8, <3>2
    <3> QED
      BY <1>2, <1>3, <3>1, <3>3, <3>4, <3>5, <3>6, SwitchLemma DEF PlacesOK
  <2> QED
    BY <2>1, <2>2
<1>10. SemBalance'
  <2>1. \A p \in Sems : wq'[p] = wq[p]
    BY <1>1, <1>2 DEF TypeOK
  <2> QED
    BY <1>1, <1>2, <2>1 DEF SemBalance
<1>11. TypeOK'
  <2>1. foreground' \in Ids /\ child_alive' \in Nat /\ halted' \in BOOLEAN
    BY <1>1, Facts DEF SysExit, ExitForeground, TypeOK
  <2> QED
    BY <1>1, <1>2, <1>3, <1>9, <2>1 DEF TypeOK, RingType, PlacesOK, SysExit, taskVars
<1> QED
  BY <1>9, <1>10, <1>11, InvIffNext

(***************************************************************************)
(* task_kill_by_id keeps the invariant, the victim wherever it waits.      *)
(***************************************************************************)
LEMMA KillLemma ==
    ASSUME IInv, NEW id \in Ids, SysKill(id)
    PROVE  IInv'
<1>1. TypeOK /\ Core /\ SemBalance
  BY InvIff
<1>2. /\ ring' = ring /\ next_id' = next_id /\ wq' = wq /\ sleeper' = sleeper /\ count' = count
      /\ st' = [st EXCEPT ![id] = "DEAD"] /\ id # 0 /\ Member(id, ring)
  BY DEF SysKill, taskVars, sleepVars, Member
<1>3. st' \in [Ids -> States] /\ \A t \in Ids : st'[t] = IF t = id THEN "DEAD" ELSE st[t]
  BY <1>1, <1>2, Facts DEF States
<1>4. Listed(ring', st', next_id')
  BY <1>1, <1>2, <1>3 DEF Core, Listed, TypeOK, Ids
<1>5. Runs(ring', st')
  BY <1>1, <1>2, <1>3, Facts DEF Core, Runs, current
<1>6. Waits(ring', st', wq', sleeper')
  BY <1>1, <1>2, <1>3 DEF Core, Waits
<1>7. TypeOK'
  BY <1>1, <1>2, <1>3 DEF TypeOK, SysKill, taskVars, sleepVars, fgVars
<1>8. SemBalance'
  BY <1>1, <1>2 DEF SemBalance
<1> QED
  BY <1>4, <1>5, <1>6, <1>7, <1>8, InvIffNext DEF Core

(***************************************************************************)
(* Steps that leave the list, the states, the queues and the slots alone.  *)
(***************************************************************************)
LEMMA QuietLemma ==
    ASSUME IInv, foreground' \in Ids, spawn_used' \in BOOLEAN,
           UNCHANGED <<ringVars, parent, next_id, tick_in_slice, sleepVars, wq, count,
                       child_alive, halted>>
    PROVE  IInv'
<1>1. TypeOK /\ Core /\ SemBalance
  BY InvIff
<1>2. TypeOK'
  BY <1>1 DEF TypeOK, ringVars, sleepVars
<1>3. Core'
  BY <1>1 DEF Core, ringVars, sleepVars
<1>4. SemBalance'
  BY <1>1 DEF SemBalance
<1> QED
  BY <1>2, <1>3, <1>4, InvIffNext

(***************************************************************************)
(* The invariant is inductive.                                             *)
(***************************************************************************)
LEMMA StepLemma == IInv /\ [Next]_vars => IInv'
<1> SUFFICES ASSUME IInv, [Next]_vars
             PROVE  IInv'
  OBVIOUS
<1>0. TypeOK /\ current \in Ids
  BY InvIff, Facts
<1>1. CASE Tick
  BY <1>1, TickLemma
<1>2. ASSUME NEW ms \in SleepMs, SysSleep(ms)
      PROVE  IInv'
  BY <1>2, SleepLemma, WordAssumption DEF SysSleep
<1>3. CASE SysRead
  BY <1>3, SleepLemma DEF SysRead
<1>4. ASSUME NEW id \in Sems, SysSemWait(id)
      PROVE  IInv'
  BY <1>4, SemWaitLemma
<1>5. ASSUME NEW id \in Sems, SysSemPost(id)
      PROVE  IInv'
  BY <1>5, SemPostLemma
<1>6. CASE SysFork
  BY <1>0, <1>6, NewTaskLemma DEF SysFork, TypeOK
<1>7. CASE SysSpawn
  BY <1>0, <1>7, NewTaskLemma DEF SysSpawn
<1>8. CASE SysSpawnFails
  BY <1>0, <1>8, QuietLemma DEF SysSpawnFails, TypeOK, fgVars
<1>9. CASE SysWait
  BY <1>9, WaitLemma
<1>10. CASE SysExit
  BY <1>10, ExitLemma
<1>11. ASSUME NEW id \in Ids, SysKill(id)
       PROVE  IInv'
  BY <1>11, KillLemma
<1>12. CASE SysSetFg
  BY <1>0, <1>12, QuietLemma DEF SysSetFg, TypeOK, taskVars
<1>13. CASE UNCHANGED vars
  BY <1>0, <1>13, QuietLemma DEF vars, TypeOK, ringVars, sleepVars
<1> QED
  BY <1>1, <1>2, <1>3, <1>4, <1>5, <1>6, <1>7, <1>8, <1>9, <1>10, <1>11, <1>12, <1>13
     DEF Next

(***************************************************************************)
(* The whole invariant holds in every behaviour of the scheduler.          *)
(***************************************************************************)
THEOREM Invariance == Spec => []IInv
  BY InitLemma, StepLemma, PTL DEF Spec

(***************************************************************************)
(* Every variable keeps its type, and every pointer points to a task that  *)
(* exists, for any number of tasks, slots and semaphores.                  *)
(***************************************************************************)
THEOREM TypeCorrect == Spec => []TypeOK
<1>1. IInv => TypeOK
  BY DEF IInv
<1> QED
  BY <1>1, Invariance, PTL

(***************************************************************************)
(* Inserts and switches keep every task on the circular list exactly once. *)
(***************************************************************************)
THEOREM RingCorrect == Spec => []RingOK
<1>1. IInv => RingOK
  BY DEF IInv
<1> QED
  BY <1>1, Invariance, PTL

(***************************************************************************)
(* A call that blocks always gives up the processor, to exactly one task.  *)
(***************************************************************************)
THEOREM ProcessorCorrect == Spec => []OneRunning
<1>1. IInv => OneRunning
  BY DEF IInv
<1> QED
  BY <1>1, Invariance, PTL

(***************************************************************************)
(* No task is ever in two wait queues or slots, or runs while in one.      *)
(***************************************************************************)
THEOREM PlacesCorrect == Spec => []WaitsInOnePlace
<1>1. IInv => WaitsInOnePlace
  BY DEF IInv
<1> QED
  BY <1>1, Invariance, PTL

(***************************************************************************)
(* No blocked task is out of reach of every waker.                         *)
(***************************************************************************)
THEOREM NobodyForgotten == Spec => []BlockedIsFindable
<1>1. IInv => BlockedIsFindable
  BY DEF IInv
<1> QED
  BY <1>1, Invariance, PTL

(***************************************************************************)
(* The count of a semaphore and the length of its queue agree.             *)
(***************************************************************************)
THEOREM SemCorrect == Spec => []SemBalance
<1>1. IInv => SemBalance
  BY DEF IInv
<1> QED
  BY <1>1, Invariance, PTL

(***************************************************************************)
(* A task that is dead and off the processor stays dead: neither           *)
(* schedule(), nor a tick, a post or an exit that finds it still in a      *)
(* queue or in a slot, makes it runnable.                                  *)
(***************************************************************************)
LEMMA ScheduleDead ==
    ASSUME NEW s, Schedule(s, ring), IsRing(ring), NEW t \in Ids, s[t] = "DEAD",
           s \in [Ids -> States]
    PROVE  st'[t] = "DEAD"
<1>1. CASE \E i \in 2..Len(ring) : s[ring[i]] = "READY"
  BY <1>1 DEF Schedule, FirstReady, SwitchTo, Preempted
<1>2. CASE ~ \E i \in 2..Len(ring) : s[ring[i]] = "READY"
  BY <1>2 DEF Schedule
<1> QED
  BY <1>1, <1>2

(***************************************************************************)
(* No step brings a dead task back once it is off the processor.           *)
(***************************************************************************)
THEOREM DeadCorrect == Spec => DeadStaysDead
<1>1. ASSUME IInv, [Next]_vars, NEW t \in Ids, st[t] = "DEAD", t # current
      PROVE  st'[t] = "DEAD"
  <2>0. TypeOK /\ current \in Ids /\ IsRing(ring) /\ st \in [Ids -> States]
    BY <1>1, InvIff, Facts
  <2> DEFINE b == [st EXCEPT ![current] = "BLOCKED"]
  <2>a. b \in [Ids -> States] /\ b[t] = "DEAD"
    BY <1>1, <2>0 DEF States
  <2>b. Schedule(b, ring) => st'[t] = "DEAD"
    BY <2>0, <2>a, ScheduleDead
  <2>1. CASE Tick
    <3>1. WakeSleepers \in [Ids -> States] /\ WakeSleepers[t] = "DEAD"
      BY <1>1, <2>0 DEF WakeSleepers, Woken, States
    <3>2. Schedule(WakeSleepers, ring) => st'[t] = "DEAD"
      BY <2>0, <3>1, ScheduleDead
    <3> QED
      BY <2>1, <3>1, <3>2 DEF Tick
  <2>2. ASSUME NEW ms, TaskSleep(ms)
        PROVE  st'[t] = "DEAD"
    BY <1>1, <2>2, <2>b DEF TaskSleep, ringVars
  <2>3. ASSUME NEW id \in Sems, SysSemWait(id)
        PROVE  st'[t] = "DEAD"
    BY <1>1, <2>3, <2>b DEF SysSemWait, TaskBlock, ringVars
  <2>4. ASSUME NEW id \in Sems, SysSemPost(id)
        PROVE  st'[t] = "DEAD"
    BY <1>1, <2>0, <2>4 DEF SysSemPost, WakeOne, Woken
  <2>5. ASSUME NEW p, NewTask(p)
        PROVE  st'[t] = "DEAD"
    <3>1. RingOK
      BY <1>1 DEF IInv
    <3>2. next_id \in Ids
      BY <2>0, <2>5, MaxTaskAssumption DEF NewTask, TypeOK, Ids
    <3>3. st[next_id] = "NONE"
      BY <2>0, <3>1, <3>2 DEF RingOK, TypeOK, Ids
    <3> QED
      BY <1>1, <2>0, <2>5, <3>3 DEF NewTask
  <2>6. CASE SysWait
    BY <2>6, <2>b DEF SysWait, TaskBlock
  <2>7. CASE SysExit
    <3> DEFINE v == WakeAll(ChildExit)
    <3>1. v \in [Ids -> States] /\ v[t] = "DEAD"
      BY <1>1, <2>0 DEF WakeAll, Woken, States
    <3> HIDE DEF v
    <3>2. [v EXCEPT ![current] = "DEAD"] \in [Ids -> States]
      BY <2>0, <3>1 DEF States
    <3>3. [v EXCEPT ![current] = "DEAD"][t] = "DEAD"
      BY <1>1, <3>1
    <3>4. Schedule([v EXCEPT ![current] = "DEAD"], ring) => st'[t] = "DEAD"
      BY <2>0, <3>2, <3>3, ScheduleDead
    <3> QED
      BY <2>7, <3>1, <3>4 DEF SysExit, v
  <2>8. ASSUME NEW id \in Ids, SysKill(id)
        PROVE  st'[t] = "DEAD"
    BY <1>1, <2>0, <2>8 DEF SysKill
  <2>9. CASE st' = st
    BY <1>1, <2>9
  <2> QED
    BY <1>1, <2>1, <2>2, <2>3, <2>4, <2>5, <2>6, <2>7, <2>8, <2>9
       DEF Next, SysSleep, SysRead, SysFork, SysSpawn, SysSpawnFails, SysSetFg, ringVars, vars
<1>2. IInv /\ [Next]_vars =>
         [\A t \in Ids : st[t] = "DEAD" /\ t # current => st'[t] = "DEAD"]_vars
  BY <1>1
<1> QED
  BY <1>2, Invariance, PTL DEF Spec, DeadStaysDead

-----------------------------------------------------------------------------
(***************************************************************************)
(* The programs of module Shell.                                           *)
(***************************************************************************)

(***************************************************************************)
(* A step of a program is a step of the scheduler.                         *)
(***************************************************************************)
LEMMA ProgramStep == SNext => [Next]_vars
<1> SUFFICES ASSUME SNext
             PROVE  [Next]_vars
  OBVIOUS
<1>0. 0 \in Sems
  BY SemAssumption DEF Sems
<1>1. CASE STick
  BY <1>1 DEF STick, Next
<1>2. CASE LockStdout \/ UnlockStdout
  BY <1>0, <1>2 DEF LockStdout, UnlockStdout, Next
<1>3. CASE CmdRun \/ RunWait \/ ChildSetFg \/ Exit \/ CmdSpawn \/ CmdSpawnFails \/ Read
  BY <1>3 DEF CmdRun, RunWait, ChildSetFg, Exit, CmdSpawn, CmdSpawnFails, Read, Next
<1>4. CASE BackToShell \/ ChildExecFails \/ \E p \in Progs : ChildExec(p)
  BY <1>4 DEF BackToShell, ChildExec, ChildExecFails
<1>5. CASE \E id \in Victims : CmdKill(id)
  BY <1>5, VictimsAssumption DEF CmdKill, Next
<1>6. CASE \E ms \in SleepMs : Sleep(ms)
  BY <1>6 DEF Sleep, Next
<1> QED
  BY <1>1, <1>2, <1>3, <1>4, <1>5, <1>6 DEF SNext

(***************************************************************************)
(* The programs run on the scheduler as it is: whatever they do is a       *)
(* behaviour of Task, so that what is proved there holds for them.         *)
(***************************************************************************)
THEOREM ProgramsOnTask == SSpec => Spec
<1>1. SInit => Init
  BY DEF SInit
<1>2. [SNext]_allVars => [Next]_vars
  BY ProgramStep DEF allVars, vars
<1> QED
  BY <1>1, <1>2, PTL DEF SSpec, Spec

-----------------------------------------------------------------------------
(***************************************************************************)
(* The inductive invariant of the lock, on top of IInv of the scheduler.   *)
(* The count alone decides who gets in; that it is right needs that it     *)
(* accounts for the tasks in the region one by one, that a task id that is *)
(* given out anew is not among them, and that somebody holds the lock      *)
(* whenever it is not free.                                                *)
(***************************************************************************)
Fresh == \A t \in Ids : pc[t] = "print" => t < next_id

Held == count[0] <= 0 => Holders # {}

LockInv == /\ pc \in [Ids -> Labels]
           /\ Fresh
           /\ count[0] = 1 - Cardinality(Printing)
           /\ Waiting(0) \subseteq Printing
           /\ MutualExclusion
           /\ Held

LEMMA PrintingFinite == IsFiniteSet(Printing) /\ Cardinality(Printing) \in Nat
<1>1. IsFiniteSet(Ids)
  BY MaxTaskAssumption, FS_Interval DEF Ids
<1>2. IsFiniteSet(Printing)
  BY <1>1, FS_Subset DEF Printing
<1> QED
  BY <1>2, FS_CardinalityType

(***************************************************************************)
(* The invariant accounts for the lock: a task in the queue makes the      *)
(* count negative, and a lock that is not free has a holder.               *)
(***************************************************************************)
LEMMA LockInvAccounts == IInv /\ LockInv => LockAccounts
<1> SUFFICES ASSUME IInv, LockInv, Waiting(0) # {}
             PROVE  Holders # {}
  BY DEF LockInv, LockAccounts
<1>0. 0 \in Sems /\ 0 \in Queues
  BY SemAssumption DEF Sems, Queues
<1>1. /\ Len(wq[0]) = IF count[0] < 0 THEN -count[0] ELSE 0
      /\ count[0] \in Int /\ wq[0] \in Seq(Ids)
  BY <1>0 DEF IInv, SemBalance, TypeOK
<1>2. 1..Len(wq[0]) # {}
  BY DEF Waiting
<1>3. count[0] <= 0
  BY <1>1, <1>2
<1> QED
  BY <1>3 DEF LockInv, Held

(***************************************************************************)
(* A step that leaves the semaphore and its queue alone, and in which      *)
(* nobody enters or leaves the locked region.                              *)
(***************************************************************************)
LEMMA ApartLemma ==
    ASSUME LockInv, wq'[0] = wq[0], count'[0] = count[0],
           next_id \in Nat, next_id' \in Nat, next_id' >= next_id,
           pc' \in [Ids -> Labels],
           \A t \in Ids : pc'[t] = "print" <=> pc[t] = "print"
    PROVE  LockInv'
<1>1. Printing' = Printing
  BY DEF Printing
<1>2. Waiting(0)' = Waiting(0)
  BY DEF Waiting
<1>3. Holders' = Holders
  BY <1>1, <1>2 DEF Holders
<1>4. Fresh'
  BY DEF LockInv, Fresh, Ids
<1> QED
  BY <1>1, <1>2, <1>3, <1>4 DEF LockInv, MutualExclusion, Held

(***************************************************************************)
(* Entering: the lock is free and nobody is in the region, or the caller   *)
(* goes to the end of the queue and the holder stays the holder.           *)
(***************************************************************************)
LEMMA EnterLemma == IInv /\ LockInv /\ LockStdout => LockInv'
<1> SUFFICES ASSUME IInv, LockInv, LockStdout
             PROVE  LockInv'
  OBVIOUS
<1>0. 0 \in Sems /\ 0 \in Queues
  BY SemAssumption DEF Sems, Queues
<1>1. /\ TypeOK /\ current \in Ids /\ Member(current, ring)
      /\ count \in [Sems -> Int] /\ wq \in [Queues -> Seq(Ids)] /\ next_id \in Nat
  <2>1. TypeOK /\ Core
    BY InvIff
  <2> QED
    BY <2>1, Facts DEF TypeOK
<1>2. current < next_id
  BY <1>1 DEF IInv, RingOK, Member
<1>3. /\ SysSemWait(0) /\ pc[current] = "loop" /\ next_id' = next_id
      /\ pc' = [pc EXCEPT ![current] = "print"] /\ count'[0] = count[0] - 1
  BY <1>0, <1>1 DEF LockStdout, At, Goto, SysSemWait, taskVars
<1>4. /\ pc' \in [Ids -> Labels]
      /\ \A t \in Ids : pc'[t] = IF t = current THEN "print" ELSE pc[t]
  BY <1>1, <1>3 DEF LockInv, Labels
<1>5. Printing' = Printing \cup {current} /\ current \notin Printing
  BY <1>1, <1>3, <1>4 DEF Printing
<1>6. count'[0] = 1 - Cardinality(Printing')
  <2>1. Cardinality(Printing') = Cardinality(Printing) + 1
    BY <1>5, PrintingFinite, FS_AddElement
  <2> QED
    BY <1>3, <2>1, PrintingFinite DEF LockInv
<1>7. Fresh'
  BY <1>2, <1>3, <1>4 DEF Fresh, LockInv
<1>8. count[0] \in Int /\ wq[0] \in Seq(Ids) /\ Len(wq[0]) \in Nat
  BY <1>0, <1>1
<1>9. CASE count[0] - 1 < 0
  <2>1. wq'[0] = Append(wq[0], current)
    BY <1>0, <1>1, <1>3, <1>9 DEF SysSemWait, SemBlocks, TaskBlock
  <2>2. /\ Len(wq'[0]) = Len(wq[0]) + 1 /\ wq'[0][Len(wq[0]) + 1] = current
        /\ \A i \in 1..Len(wq[0]) : wq'[0][i] = wq[0][i]
    BY <1>8, <2>1
  <2>3. Waiting(0)' = Waiting(0) \cup {current}
    BY <1>8, <2>2 DEF Waiting
  <2>4. Holders' = Holders
    BY <1>5, <2>3 DEF Holders
  <2>5. MutualExclusion'
    BY <2>4 DEF LockInv, MutualExclusion
  <2>6. Held'
    BY <1>8, <1>9, <2>4 DEF LockInv, Held
  <2>7. Waiting(0)' \subseteq Printing'
    BY <1>5, <2>3 DEF LockInv
  <2> QED
    BY <1>4, <1>6, <1>7, <2>5, <2>6, <2>7 DEF LockInv
<1>10. CASE ~ (count[0] - 1 < 0)
  <2>1. wq' = wq
    BY <1>3, <1>10 DEF SysSemWait, SemBlocks
  <2>2. Cardinality(Printing) = 0
    BY <1>8, <1>10, PrintingFinite DEF LockInv
  <2>3. Printing = {}
    BY <2>2, PrintingFinite, FS_EmptySet
  <2>4. Waiting(0) = {} /\ Waiting(0)' = Waiting(0)
    BY <2>1, <2>3 DEF LockInv, Waiting
  <2>5. Printing' = {current} /\ Holders' = {current}
    BY <1>5, <2>3, <2>4 DEF Holders
  <2>6. MutualExclusion' /\ Held'
    BY <2>5 DEF MutualExclusion, Held
  <2> QED
    BY <1>4, <1>6, <1>7, <2>4, <2>6 DEF LockInv
<1> QED
  BY <1>9, <1>10

(***************************************************************************)
(* Leaving: the caller is the one holder, and the head of the queue, dead  *)
(* or alive, becomes the next; without a queue the lock is free.           *)
(***************************************************************************)
LEMMA LeaveLemma == IInv /\ LockInv /\ UnlockStdout => LockInv'
<1> SUFFICES ASSUME IInv, LockInv, UnlockStdout
             PROVE  LockInv'
  OBVIOUS
<1>0. 0 \in Sems /\ 0 \in Queues
  BY SemAssumption DEF Sems, Queues
<1>1. /\ current \in Ids /\ count \in [Sems -> Int] /\ wq \in [Queues -> Seq(Ids)]
      /\ next_id \in Nat
  <2>1. TypeOK /\ Core
    BY InvIff
  <2> QED
    BY <2>1, Facts DEF TypeOK
<1>2. /\ SysSemPost(0) /\ pc[current] = "print" /\ next_id' = next_id
      /\ pc' = [pc EXCEPT ![current] = "loop"] /\ count'[0] = count[0] + 1
  BY <1>0, <1>1 DEF UnlockStdout, At, Goto, SysSemPost, taskVars
<1>3. /\ pc' \in [Ids -> Labels]
      /\ \A t \in Ids : pc'[t] = IF t = current THEN "loop" ELSE pc[t]
  BY <1>1, <1>2 DEF LockInv, Labels
<1>4. Printing' = Printing \ {current} /\ current \in Printing
  BY <1>1, <1>2, <1>3 DEF Printing
<1>5. count'[0] = 1 - Cardinality(Printing')
  <2>1. Cardinality(Printing') = Cardinality(Printing) - 1
    BY <1>4, PrintingFinite, FS_RemoveElement
  <2> QED
    BY <1>2, <2>1, PrintingFinite DEF LockInv
<1>6. Fresh'
  BY <1>2, <1>3 DEF Fresh, LockInv
<1>7. /\ count[0] \in Int /\ wq[0] \in Seq(Ids) /\ Len(wq[0]) \in Nat
      /\ Len(wq[0]) = IF count[0] < 0 THEN -count[0] ELSE 0
  BY <1>0, <1>1 DEF IInv, SemBalance
<1>8. current \notin Waiting(0)
  BY <1>0 DEF IInv, WaitsInOnePlace, QueuedOff, Waiting
<1>9. Holders = {current}
  BY <1>4, <1>8 DEF Holders, LockInv, MutualExclusion
<1>10. Printing \ {current} \subseteq Waiting(0)
  BY <1>9 DEF Holders
<1>11. CASE count[0] + 1 <= 0
  <2>1. wq[0] # << >> /\ Len(wq[0]) >= 1
    BY <1>7, <1>11
  <2>2. wq'[0] = Tail(wq[0])
    BY <1>0, <1>1, <1>2, <1>11, <2>1 DEF SysSemPost, SemWakes, WakeOne
  <2> DEFINE h == wq[0][1]
  <2>3. /\ Len(wq'[0]) = Len(wq[0]) - 1
        /\ \A i \in 1..(Len(wq[0]) - 1) : wq'[0][i] = wq[0][i + 1]
    BY <1>7, <2>1, <2>2
  <2>4. \A i, j \in 1..Len(wq[0]) : wq[0][i] = wq[0][j] => i = j
    BY <1>0 DEF IInv, WaitsInOnePlace, QueuedOnce
  <2>5. Waiting(0)' = Waiting(0) \ {h}
    <3>1. ASSUME NEW x \in Waiting(0)'
          PROVE  x \in Waiting(0) \ {h}
      <4>1. PICK i \in 1..(Len(wq[0]) - 1) : x = wq[0][i + 1]
        BY <1>7, <2>3, <3>1 DEF Waiting
      <4>2. i + 1 \in 1..Len(wq[0]) /\ i + 1 # 1 /\ 1 \in 1..Len(wq[0])
        BY <1>7, <2>1
      <4> QED
        BY <2>4, <4>1, <4>2 DEF Waiting
    <3>2. ASSUME NEW x \in Waiting(0), x # h
          PROVE  x \in Waiting(0)'
      <4>1. PICK i \in 1..Len(wq[0]) : x = wq[0][i]
        BY DEF Waiting
      <4>2. i - 1 \in 1..(Len(wq[0]) - 1) /\ (i - 1) + 1 = i
        BY <1>7, <3>2, <4>1
      <4>3. wq'[0][i - 1] = x
        BY <2>3, <4>1, <4>2
      <4> QED
        BY <2>3, <4>2, <4>3 DEF Waiting
    <3> QED
      BY <3>1, <3>2
  <2>6. h \in Waiting(0)
    BY <1>7, <2>1 DEF Waiting
  <2> HIDE DEF h
  <2>7. h \in Printing /\ h # current
    BY <1>8, <2>6 DEF LockInv
  <2>8. Holders' = {h}
    BY <1>4, <1>10, <2>5, <2>7 DEF Holders
  <2>9. MutualExclusion' /\ Held'
    BY <2>8 DEF MutualExclusion, Held
  <2>10. Waiting(0)' \subseteq Printing'
    BY <1>4, <1>8, <2>5 DEF LockInv
  <2> QED
    BY <1>3, <1>5, <1>6, <2>9, <2>10 DEF LockInv
<1>12. CASE ~ (count[0] + 1 <= 0)
  <2>1. wq' = wq
    BY <1>2, <1>12 DEF SysSemPost, SemWakes
  <2>2. Len(wq[0]) = 0
    BY <1>7, <1>12
  <2>3. Waiting(0) = {} /\ Waiting(0)' = Waiting(0)
    BY <2>1, <2>2 DEF Waiting
  <2>4. Printing' = {} /\ Holders' = {}
    BY <1>4, <1>10, <2>3 DEF Holders
  <2>5. count'[0] > 0
    BY <1>2, <1>7, <1>12
  <2>6. MutualExclusion' /\ Held'
    BY <1>2, <1>7, <2>4, <2>5 DEF MutualExclusion, Held
  <2> QED
    BY <1>3, <1>5, <1>6, <2>3, <2>6 DEF LockInv
<1> QED
  BY <1>11, <1>12

(***************************************************************************)
(* The invariant of the lock is inductive.                                 *)
(***************************************************************************)
LEMMA LockStep == IInv /\ LockInv /\ [SNext]_allVars => LockInv'
<1> SUFFICES ASSUME IInv, LockInv, [SNext]_allVars
             PROVE  LockInv'
  OBVIOUS
<1>0. /\ 0 \in Sems /\ 0 \in Queues /\ 0 # ChildExit
      /\ TypeOK /\ current \in Ids
      /\ wq \in [Queues -> Seq(Ids)] /\ next_id \in Nat /\ next_id + 1 \in Nat
      /\ pc \in [Ids -> Labels]
  <2>1. TypeOK /\ Core
    BY InvIff
  <2>2. 0 \in Sems /\ 0 \in Queues /\ 0 # ChildExit
    BY SemAssumption DEF Sems, Queues, ChildExit
  <2> QED
    BY <2>1, <2>2, Facts DEF TypeOK, LockInv
<1>1. CASE STick
  BY <1>0, <1>1, ApartLemma DEF STick, Tick, shellVars, taskVars
<1>2. CASE LockStdout
  BY <1>2, EnterLemma
<1>3. CASE UnlockStdout
  BY <1>3, LeaveLemma
<1>4. CASE CmdRun
  <2>1. next_id \in Ids /\ pc[next_id] # "print" /\ pc[current] = "loop"
    BY <1>0, <1>4, MaxTaskAssumption
       DEF CmdRun, At, SysFork, NewTask, LockInv, Fresh, Ids
  <2>2. /\ wq' = wq /\ count' = count /\ next_id' = next_id + 1
        /\ pc' = [pc EXCEPT ![current] = "started", ![next_id] = "forked"]
    BY <1>4 DEF CmdRun, SysFork, NewTask
  <2>3. /\ pc' \in [Ids -> Labels]
        /\ \A t \in Ids : pc'[t] = "print" <=> pc[t] = "print"
    BY <1>0, <2>1, <2>2 DEF Labels
  <2>4. /\ wq'[0] = wq[0] /\ count'[0] = count[0]
        /\ next_id' \in Nat /\ next_id' >= next_id
    BY <1>0, <2>2
  <2> QED
    BY <1>0, <2>3, <2>4, ApartLemma
<1>5. CASE RunWait
  <2>1. /\ wq' = [wq EXCEPT ![ChildExit] = Append(@, current)] /\ count' = count
        /\ next_id' = next_id /\ pc' = [pc EXCEPT ![current] = "waiting"]
        /\ pc[current] = "started"
    BY <1>5 DEF RunWait, At, Goto, SysWait, TaskBlock, taskVars
  <2>2. wq'[0] = wq[0]
    BY <1>0, <2>1
  <2>3. /\ pc' \in [Ids -> Labels]
        /\ \A t \in Ids : pc'[t] = "print" <=> pc[t] = "print"
    BY <1>0, <2>1 DEF Labels
  <2> QED
    BY <1>0, <2>1, <2>2, <2>3, ApartLemma
<1>6. CASE BackToShell \/ ChildExecFails \/ ChildSetFg \/ \E p \in Progs : ChildExec(p)
  <2>1. /\ wq' = wq /\ count' = count /\ next_id' = next_id
        /\ pc[current] # "print"
        /\ \E l \in Labels \ {"print"} : pc' = [pc EXCEPT ![current] = l]
    BY <1>6 DEF BackToShell, ChildExecFails, ChildSetFg, ChildExec, At, Goto, Labels, SysSetFg,
                taskVars, vars
  <2>2. /\ pc' \in [Ids -> Labels]
        /\ \A t \in Ids : pc'[t] = "print" <=> pc[t] = "print"
    BY <1>0, <2>1
  <2> QED
    BY <1>0, <2>1, <2>2, ApartLemma
<1>7. CASE Exit
  <2>1. /\ wq' = [wq EXCEPT ![ChildExit] = << >>] /\ count' = count /\ next_id' = next_id
        /\ pc' = pc
    BY <1>7 DEF Exit, SysExit, shellVars, taskVars
  <2>2. wq'[0] = wq[0]
    BY <1>0, <2>1
  <2> QED
    BY <1>0, <2>1, <2>2, ApartLemma
<1>8. CASE CmdSpawn
  BY <1>0, <1>8, ApartLemma DEF CmdSpawn, SysSpawn, NewTask
<1>9. CASE CmdSpawnFails
  BY <1>0, <1>9, ApartLemma DEF CmdSpawnFails, SysSpawnFails, shellVars
<1>10. CASE \E id \in Victims : CmdKill(id)
  BY <1>0, <1>10, ApartLemma DEF CmdKill, SysKill, shellVars, taskVars
<1>11. CASE Read \/ \E ms \in SleepMs : Sleep(ms)
  BY <1>0, <1>11, ApartLemma DEF Sleep, Read, SysSleep, SysRead, shellVars, taskVars
<1>12. CASE UNCHANGED allVars
  BY <1>0, <1>12, ApartLemma DEF allVars, vars
<1> QED
  BY <1>1, <1>2, <1>3, <1>4, <1>5, <1>6, <1>7, <1>8, <1>9, <1>10, <1>11, <1>12 DEF SNext

(***************************************************************************)
(* At the start the lock is free.                                          *)
(***************************************************************************)
LEMMA LockStart == SInit => LockInv
<1> SUFFICES ASSUME SInit
             PROVE  LockInv
  OBVIOUS
<1>1. pc \in [Ids -> Labels] /\ Printing = {} /\ Fresh
  BY DEF SInit, Labels, Printing, Fresh
<1>2. count[0] = 1 /\ wq[0] = << >>
  BY SemAssumption DEF SInit, Init, Sems, Queues, SemUsed
<1>3. Waiting(0) = {}
  BY <1>2 DEF Waiting
<1> QED
  BY <1>1, <1>2, <1>3, FS_EmptySet DEF LockInv, MutualExclusion, Held, Holders

(***************************************************************************)
(* Both invariants hold in every behaviour of the programs.                *)
(***************************************************************************)
THEOREM LockInvariance == SSpec => [](IInv /\ LockInv)
<1>1. SSpec => []IInv
  BY ProgramsOnTask, Invariance, PTL
<1> QED
  BY <1>1, LockStart, LockStep, PTL DEF SSpec

(***************************************************************************)
(* The lock excludes: however ticks, posts, exits and kills fall, two      *)
(* tasks are never both between sys_sem_wait(0) and sys_sem_post(0).       *)
(***************************************************************************)
THEOREM LockExcludes == SSpec => []MutualExclusion
<1>1. LockInv => MutualExclusion
  BY DEF LockInv
<1> QED
  BY <1>1, LockInvariance, PTL

(***************************************************************************)
(* The lock is never lost: the count accounts for every task in the locked *)
(* region, and a task waits for it only while somebody holds it.           *)
(***************************************************************************)
THEOREM LockNotLost == SSpec => []LockAccounts
  BY LockInvAccounts, LockInvariance, PTL
=============================================================================
