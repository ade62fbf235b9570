-------------------------------- MODULE Task --------------------------------
(***************************************************************************)
(* The scheduler of flyos: kernel/task/task.c, the semaphores of           *)
(* kernel/task/sem.c that block on its wait queues, and the system calls   *)
(* of kernel/arch/syscall.c that change either.                            *)
(*                                                                         *)
(* The machine has one processor.  The SYSCALL instruction and every       *)
(* interrupt gate clear IF, so a handler runs to its end, or to the task   *)
(* switch inside schedule(), without interruption: one handler is one      *)
(* action.  The task switch itself is the rotation of `ring'.              *)
(***************************************************************************)
EXTENDS Integers, Sequences

CONSTANTS
    MaxTask,        \* bound: the largest task id (memory limits it in the kernel)
    TIMESLICE,      \* ticks between two forced calls of schedule()
    MAX_SLEEPERS,   \* size of the table of sleeping tasks
    SEM_MAX,        \* size of the table of semaphores
    MaxCount,       \* bound: sem_post is not taken above this count
    WORD,           \* 2^64: the arithmetic of task_sleep is modulo WORD
    SleepMs         \* the arguments of SYS_SLEEP

ASSUME MaxTaskAssumption == MaxTask \in Nat /\ MaxTask >= 1
ASSUME TimesliceAssumption == TIMESLICE \in Nat \ {0}
ASSUME SleepersAssumption == MAX_SLEEPERS \in Nat
ASSUME SemAssumption == SEM_MAX \in Nat \ {0} /\ MaxCount \in Nat \ {0}
ASSUME WordAssumption == WORD \in Nat \ {0} /\ 50 < WORD /\ SleepMs \subseteq 0..(WORD - 1)

NoTask    == -1                     \* the null pointer
Ids       == 0..MaxTask             \* 0 is kmain, 1 the shell
Slots     == 0..(MAX_SLEEPERS - 1)
Sems      == 0..(SEM_MAX - 1)
ChildExit == SEM_MAX                \* the index of child_exit_wq in wq
Queues    == Sems \cup {ChildExit}
States    == {"NONE", "READY", "RUNNING", "BLOCKED", "DEAD"}

VARIABLES
    ring,           \* the circular list of tasks, read from `current' along ->next
    st,             \* task_t.state; "NONE" for an id that is not yet given out
    parent,         \* task_t.parent
    next_id,
    tick_in_slice,
    sleeper,        \* sleepers[i].task, NoTask when sleepers[i].used is 0
    left,           \* sleepers[i].wake_at - global_tick
    wq,             \* the wait queues of the semaphores and child_exit_wq
    count,          \* sems[i].count
    foreground,
    child_alive,
    spawn_used,
    halted          \* the shell has exited: the processor stays in cli; hlt

ringVars  == <<ring, st>>
taskVars  == <<parent, next_id, spawn_used>>
fgVars    == <<foreground, child_alive>>
sleepVars == <<sleeper, left>>
vars      == <<ring, st, parent, next_id, tick_in_slice, sleeper, left, wq,
               count, foreground, child_alive, spawn_used, halted>>

current == ring[1]

(***************************************************************************)
(* sem_init_all and sem_init(0, 1) leave semaphore 0 as the only used one. *)
(***************************************************************************)
SemUsed(id) == id = 0

-----------------------------------------------------------------------------
(***************************************************************************)
(* schedule(): walk the list from current->next to the first READY task.   *)
(* s and r are the states and the list at the time of the call.            *)
(***************************************************************************)
LowestReady(s, r, i) == /\ s[r[i]] = "READY"     \* mutant: by id, not round robin
                        /\ \A j \in 2..Len(r) : s[r[j]] = "READY" => r[i] <= r[j]

FirstReady(s, r, i) == /\ s[r[i]] = "READY"
                       /\ \A j \in 2..(i - 1) : s[r[j]] # "READY"

Rotate(r, i) ==
    [j \in 1..Len(r) |->
        IF j + i - 1 <= Len(r) THEN r[j + i - 1] ELSE r[j + i - 1 - Len(r)]]

StillRunning(state) == state        \* mutant: prev->state is left alone

Preempted(state) == IF state = "RUNNING" THEN "READY" ELSE state

SwitchTo(s, r, i) ==
    [t \in Ids |-> IF t = r[i] THEN "RUNNING"
                   ELSE IF t = r[1] THEN Preempted(s[t]) ELSE s[t]]

Schedule(s, r) ==
    IF \E i \in 2..Len(r) : s[r[i]] = "READY"
    THEN \E i \in 2..Len(r) :
            /\ FirstReady(s, r, i)
            /\ ring' = Rotate(r, i)
            /\ st' = SwitchTo(s, r, i)
    ELSE ring' = r /\ st' = s

(***************************************************************************)
(* t->next = current->next; current->next = t                              *)
(***************************************************************************)
ListOfTwo(r, t) == <<r[1], t>>      \* mutant: t->next = current

InsertAfterCurrent(r, t) ==
    [j \in 1..(Len(r) + 1) |->
        IF j = 1 THEN r[1] ELSE IF j = 2 THEN t ELSE r[j - 1]]

-----------------------------------------------------------------------------
(***************************************************************************)
(* Wait queues: task_block, wait_queue_wake_one, wait_queue_wake_all.      *)
(* A DEAD task that is taken from a queue stays DEAD.                      *)
(***************************************************************************)
AlwaysReady(state) == "READY"       \* mutant: no test for BLOCKED
NeverReady(state)  == state         \* mutant: dequeued and not made READY

Woken(state) == IF state = "BLOCKED" THEN "READY" ELSE state

Waiting(q) == {wq[q][i] : i \in 1..Len(wq[q])}

TaskBlock(q) ==
    /\ wq' = [wq EXCEPT ![q] = Append(@, current)]
    /\ Schedule([st EXCEPT ![current] = "BLOCKED"], ring)

WakeOneKeepsHead(q) ==              \* mutant: the head is not advanced
    IF wq[q] = << >>
    THEN UNCHANGED <<wq, st>>
    ELSE UNCHANGED wq /\ st' = [st EXCEPT ![Head(wq[q])] = Woken(@)]

WakeOne(q) ==
    IF wq[q] = << >>
    THEN UNCHANGED <<wq, st>>
    ELSE /\ wq' = [wq EXCEPT ![q] = Tail(@)]
         /\ st' = [st EXCEPT ![Head(wq[q])] = Woken(@)]

WakeAll(q) ==
    [t \in Ids |-> IF t \in Waiting(q) THEN Woken(st[t]) ELSE st[t]]

(***************************************************************************)
(* task_sleep: the ticks to sleep, in 64-bit arithmetic; then the lowest   *)
(* free slot.  With no free slot the call returns and nothing changes.     *)
(***************************************************************************)
SleepTicks(ms) == LET ticks == ((ms + 9) % WORD) \div 10
                  IN  IF ticks = 0 THEN 1 ELSE ticks

FreeSlot(i) == /\ sleeper[i] = NoTask
               /\ \A j \in Slots : j < i => sleeper[j] # NoTask

TaskSleep(ms) ==
    IF \A i \in Slots : sleeper[i] # NoTask
    THEN UNCHANGED <<ringVars, sleepVars>>
    ELSE \E i \in Slots :
            /\ FreeSlot(i)
            /\ sleeper' = [sleeper EXCEPT ![i] = current]
            /\ left' = [left EXCEPT ![i] = SleepTicks(ms)]
            /\ Schedule([st EXCEPT ![current] = "BLOCKED"], ring)

-----------------------------------------------------------------------------
(***************************************************************************)
(* The state kmain leaves when it enables interrupts and halts: it is the  *)
(* running task, the shell is ready and in the foreground.                 *)
(***************************************************************************)
Init ==
    /\ ring = <<0, 1>>
    /\ st = [t \in Ids |-> CASE t = 0 -> "RUNNING" [] t = 1 -> "READY" [] OTHER -> "NONE"]
    /\ parent = [t \in Ids |-> NoTask]
    /\ next_id = 2
    /\ tick_in_slice = 0
    /\ sleeper = [i \in Slots |-> NoTask]
    /\ left = [i \in Slots |-> 0]
    /\ wq = [q \in Queues |-> << >>]
    /\ count = [s \in Sems |-> IF SemUsed(s) THEN 1 ELSE 0]
    /\ foreground = 1
    /\ child_alive = 0
    /\ spawn_used = FALSE
    /\ halted = FALSE

(***************************************************************************)
(* The timer interrupt: scheduler_tick().  User code and the loop of       *)
(* SYS_READ run with interrupts enabled, so it may come between any two    *)
(* system calls.                                                           *)
(***************************************************************************)
Frozen(ticks) == ticks              \* mutant: global_tick does not advance

Countdown(ticks) == IF ticks > 0 THEN ticks - 1 ELSE 0

Expired(i) == sleeper[i] # NoTask /\ left[i] <= 1

WakeSleepers ==
    [t \in Ids |-> IF \E i \in Slots : Expired(i) /\ sleeper[i] = t
                   THEN Woken(st[t]) ELSE st[t]]

Tick ==
    /\ ~halted
    /\ sleeper' = [i \in Slots |-> IF Expired(i) THEN NoTask ELSE sleeper[i]]
    /\ left' = [i \in Slots |-> Countdown(left[i])]
    /\ IF tick_in_slice + 1 >= TIMESLICE
       THEN tick_in_slice' = 0 /\ Schedule(WakeSleepers, ring)
       ELSE tick_in_slice' = tick_in_slice + 1 /\ st' = WakeSleepers /\ ring' = ring
    /\ UNCHANGED <<taskVars, wq, count, fgVars, halted>>

(***************************************************************************)
(* System calls are made by the current task.  kmain makes none.  A task   *)
(* that has killed itself goes on until the next call of schedule().       *)
(***************************************************************************)
InSyscall == ~halted /\ current # 0

SysSleep(ms) ==
    /\ InSyscall
    /\ TaskSleep(ms)
    /\ UNCHANGED <<taskVars, tick_in_slice, wq, count, fgVars, halted>>

(***************************************************************************)
(* SYS_READ of a task in the background sleeps 50 ms and returns 0.  In    *)
(* the foreground it polls the keyboard and leaves this state alone.       *)
(***************************************************************************)
SysRead ==
    /\ InSyscall
    /\ foreground # NoTask /\ current # foreground
    /\ TaskSleep(50)
    /\ UNCHANGED <<taskVars, tick_in_slice, wq, count, fgVars, halted>>

(***************************************************************************)
(* sem_wait and sem_post decide on the count they have just changed.       *)
(* An id outside the table or of an unused semaphore changes nothing.      *)
(***************************************************************************)
BlocksLate(c) == c < -1             \* mutant: the second task is let in

SemBlocks(c) == c < 0

WakesLate(c) == c < 0               \* mutant: the last waiter is not woken

SemWakes(c) == c <= 0

SysSemWait(id) ==
    /\ InSyscall
    /\ id \in Sems /\ SemUsed(id)
    /\ count' = [count EXCEPT ![id] = @ - 1]
    /\ IF SemBlocks(count[id] - 1) THEN TaskBlock(id) ELSE UNCHANGED <<ringVars, wq>>
    /\ UNCHANGED <<taskVars, tick_in_slice, sleepVars, fgVars, halted>>

SysSemPost(id) ==
    /\ InSyscall
    /\ id \in Sems /\ SemUsed(id)
    /\ count[id] < MaxCount
    /\ count' = [count EXCEPT ![id] = @ + 1]
    /\ IF SemWakes(count[id] + 1) THEN WakeOne(id) ELSE UNCHANGED <<wq, st>>
    /\ UNCHANGED <<ring, taskVars, tick_in_slice, sleepVars, fgVars, halted>>

(***************************************************************************)
(* task_create and task_fork put the new task right after the current one. *)
(* A fork that finds no memory returns -1 and changes nothing here.        *)
(***************************************************************************)
NewTask(p) ==
    /\ next_id <= MaxTask
    /\ next_id' = next_id + 1
    /\ st' = [st EXCEPT ![next_id] = "READY"]
    /\ parent' = [parent EXCEPT ![next_id] = p]
    /\ ring' = InsertAfterCurrent(ring, next_id)

SysFork ==
    /\ InSyscall
    /\ NewTask(current)
    /\ UNCHANGED <<tick_in_slice, sleepVars, wq, count, fgVars, spawn_used, halted>>

(***************************************************************************)
(* kernel_spawn_child works once; the flag is set before the program is    *)
(* loaded, and stays set when loading fails.                               *)
(***************************************************************************)
SysSpawn ==
    /\ InSyscall
    /\ ~spawn_used
    /\ spawn_used' = TRUE
    /\ NewTask(NoTask)
    /\ UNCHANGED <<tick_in_slice, sleepVars, wq, count, fgVars, halted>>

SysSpawnFails ==
    /\ InSyscall
    /\ ~spawn_used
    /\ spawn_used' = TRUE
    /\ UNCHANGED <<ringVars, parent, next_id, tick_in_slice, sleepVars, wq, count,
                   fgVars, halted>>

SysWait ==
    /\ InSyscall
    /\ TaskBlock(ChildExit)
    /\ UNCHANGED <<taskVars, tick_in_slice, sleepVars, count, fgVars, halted>>

(***************************************************************************)
(* SYS_EXIT: the foreground goes to the parent, every task in SYS_WAIT is  *)
(* woken; the shell halts the machine, another task dies and gives up the  *)
(* processor.                                                              *)
(***************************************************************************)
ParentForeground == parent[current] \* mutant: no test for a null parent

ExitForeground == IF parent[current] # NoTask THEN parent[current] ELSE foreground

SysExit ==
    /\ InSyscall
    /\ foreground' = ExitForeground
    /\ child_alive' = IF child_alive > 0 THEN child_alive - 1 ELSE child_alive
    /\ wq' = [wq EXCEPT ![ChildExit] = << >>]
    /\ halted' = (current = 1)
    /\ IF current = 1
       THEN ring' = ring /\ st' = WakeAll(ChildExit)
       ELSE Schedule([WakeAll(ChildExit) EXCEPT ![current] = "DEAD"], ring)
    /\ UNCHANGED <<taskVars, tick_in_slice, sleepVars, count>>

(***************************************************************************)
(* task_kill_by_id: any task of the list but kmain, the caller included.   *)
(* Nothing else is told: the victim keeps its place in queue and table.    *)
(***************************************************************************)
SysKill(id) ==
    /\ InSyscall
    /\ id # 0 /\ \E i \in 1..Len(ring) : ring[i] = id
    /\ st' = [st EXCEPT ![id] = "DEAD"]
    /\ UNCHANGED <<ring, taskVars, tick_in_slice, sleepVars, wq, count, fgVars, halted>>

SysSetFg ==
    /\ InSyscall
    /\ foreground' = current
    /\ UNCHANGED <<ringVars, taskVars, tick_in_slice, sleepVars, wq, count, child_alive, halted>>

Next ==
    \/ Tick
    \/ \E ms \in SleepMs : SysSleep(ms)
    \/ SysRead
    \/ \E id \in Sems : SysSemWait(id)
    \/ \E id \in Sems : SysSemPost(id)
    \/ SysFork
    \/ SysSpawn
    \/ SysSpawnFails
    \/ SysWait
    \/ SysExit
    \/ \E id \in Ids : SysKill(id)
    \/ SysSetFg

Spec == Init /\ [][Next]_vars

(***************************************************************************)
(* The PIT interrupts 100 times a second and no code keeps interrupts off  *)
(* for ever before the halt, so ticks keep coming.  Nothing is assumed of  *)
(* the system calls user programs make.                                    *)
(***************************************************************************)
FairSpec == Spec /\ WF_vars(Tick)

-----------------------------------------------------------------------------
(***************************************************************************)
(* Every variable of the scheduler has its type: in particular every       *)
(* pointer that the code follows points to a task that exists.             *)
(***************************************************************************)
TypeOK ==
    /\ ring \in Seq(Ids) /\ Len(ring) >= 1
    /\ st \in [Ids -> States]
    /\ next_id \in 2..(MaxTask + 1)
    /\ parent \in [Ids -> Ids \cup {NoTask}]
    /\ tick_in_slice \in 0..(TIMESLICE - 1)
    /\ sleeper \in [Slots -> Ids \cup {NoTask}]
    /\ left \in [Slots -> Nat]
    /\ wq \in [Queues -> Seq(Ids)]
    /\ count \in [Sems -> Int]
    /\ foreground \in Ids
    /\ child_alive \in Nat
    /\ spawn_used \in BOOLEAN
    /\ halted \in BOOLEAN

(***************************************************************************)
(* The circular list holds every task ever created exactly once, in any    *)
(* order of inserts and switches: schedule(), ps and kill walk all of it.  *)
(***************************************************************************)
RingOK ==
    /\ \A i, j \in 1..Len(ring) : ring[i] = ring[j] => i = j
    /\ \A t \in Ids : (\E i \in 1..Len(ring) : ring[i] = t) <=> t < next_id
    /\ \A t \in Ids : st[t] = "NONE" <=> t >= next_id

(***************************************************************************)
(* A call that blocks really gives up the processor: the task on the       *)
(* processor is RUNNING, or DEAD when it has just killed itself, never     *)
(* BLOCKED or READY; no other task is RUNNING; and kmain, the task         *)
(* schedule() can always fall back on, never blocks and never dies.        *)
(***************************************************************************)
OneRunning ==
    /\ st[current] \in {"RUNNING", "DEAD"}
    /\ \A t \in Ids : st[t] = "RUNNING" => t = current
    /\ st[0] \in {"READY", "RUNNING"}

(***************************************************************************)
(* The wait queues share one link field, wq_next, per task, and a slot of  *)
(* the sleeper table is cleared without looking at the queues.  That is    *)
(* sound only if a task waits in one place: it is at most once in at most  *)
(* one queue or slot, is off the processor while it is there, and has not  *)
(* been made runnable by anybody but the owner of that place.              *)
(***************************************************************************)
QueuedOnce ==
    \A q1, q2 \in Queues :
        \A i1 \in 1..Len(wq[q1]), i2 \in 1..Len(wq[q2]) :
            wq[q1][i1] = wq[q2][i2] => q1 = q2 /\ i1 = i2

QueuedOff ==
    \A q \in Queues : \A i \in 1..Len(wq[q]) :
        /\ wq[q][i] # current
        /\ st[wq[q][i]] \in {"BLOCKED", "DEAD"}
        /\ \A k \in Slots : sleeper[k] # wq[q][i]

AsleepOff ==
    \A k \in Slots : sleeper[k] # NoTask =>
        /\ sleeper[k] # current
        /\ st[sleeper[k]] \in {"BLOCKED", "DEAD"}
        /\ \A l \in Slots : sleeper[l] = sleeper[k] => l = k

WaitsInOnePlace == QueuedOnce /\ QueuedOff /\ AsleepOff

(***************************************************************************)
(* No blocked task is forgotten: each one is in a queue or in the sleeper  *)
(* table, where a post, an exit or a tick will find it.                    *)
(***************************************************************************)
BlockedIsFindable ==
    \A t \in Ids : st[t] = "BLOCKED" =>
        \/ \E k \in Slots : sleeper[k] = t
        \/ \E q \in Queues : \E i \in 1..Len(wq[q]) : wq[q][i] = t

(***************************************************************************)
(* A negative count is the number of tasks in the semaphore's queue, so    *)
(* sem_post wakes somebody exactly when somebody waits.  Killed waiters    *)
(* are counted in both.                                                    *)
(***************************************************************************)
SemBalance ==
    \A s \in Sems : Len(wq[s]) = IF count[s] < 0 THEN -count[s] ELSE 0

(***************************************************************************)
(* A task that is dead and off the processor never runs again: no tick,    *)
(* post or exit that finds it in a queue or a slot wakes it.               *)
(***************************************************************************)
DeadStaysDead ==
    [][\A t \in Ids : st[t] = "DEAD" /\ t # current => st'[t] = "DEAD"]_vars

(***************************************************************************)
(* Round robin starves nobody: a task that is ready gets the processor or  *)
(* is killed, whatever the other tasks do, as long as ticks come.          *)
(***************************************************************************)
ReadyRuns ==
    \A t \in Ids : st[t] = "READY" ~> (st[t] # "READY" \/ halted)

(***************************************************************************)
(* Sleep ends: every task leaves the sleeper table after finitely many     *)
(* ticks.                                                                  *)
(***************************************************************************)
SleeperWakes ==
    \A t \in Ids : (\E k \in Slots : sleeper[k] = t)
                     ~> ((\A k \in Slots : sleeper[k] # t) \/ halted)
=============================================================================
